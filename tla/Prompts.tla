------------------------------ MODULE Prompts ------------------------------
(***************************************************************************)
(* The boot server (src/src/ply-boot-server.c) with the prompts and        *)
(* keystroke watches that plymouthd keeps for its clients                  *)
(* (src/src/daemon/plymouthd-interaction.c).                               *)
(*                                                                         *)
(* Requests that wait hold a reference on their connection; the connection *)
(* may hang up at any time; what the user types goes to the prompt at the  *)
(* head of the queue, or else to a keystroke watch.  What decides when the *)
(* splash comes and goes, and when a quit or deactivate request completes, *)
(* is module Daemon; here both happen at any time.                         *)
(***************************************************************************)
EXTENDS Integers, FiniteSets, Sequences, SequencesExt

CONSTANTS
    Client,         \* processes that open one connection each
    MaxRequests,    \* bound: the requests sent on each connection
    MaxText,        \* bound: the characters in the entry buffer
    Key,            \* what a key may deliver, Enter and Interrupt among it
    Enter,          \* the enter key
    Interrupt,      \* Ctrl-C or Ctrl-D
    KeyString       \* the keys a client may watch for

(* A watch for the empty set of keys stands for keys = NULL: every key.     *)
ASSUME KeyAssumption ==
    /\ Enter \in Key /\ Interrupt \in Key /\ Enter # Interrupt
    /\ KeyString \subseteq SUBSET Key

ASSUME BoundAssumption == MaxRequests \in [Client -> Nat] /\ MaxText \in Nat

VARIABLES
    link,           \* of each client: has it a connection on the server's list
    refs,           \* reference_count of the connection
    sent,           \* how many requests the client sent
    reply,          \* what was written for each request
    cached,         \* server->cached_passwords
    controls,       \* quit and deactivate requests that wait
    entries,        \* interaction->entry_triggers
    watches,        \* interaction->keystroke_watches
    buffer,         \* interaction->entry_buffer
    shown,          \* plymouthd_splash_is_shown
    splash,         \* plymouthd_splash_get is not NULL
    screen,         \* what the splash was last told to display
    phase           \* of the process

connections == <<link, refs, sent, reply, cached, controls>>
interaction == <<entries, watches, buffer>>
display == <<shown, splash, screen>>
vars == <<link, refs, sent, reply, cached, controls, entries, watches, buffer,
          shown, splash, screen, phase>>

-----------------------------------------------------------------------------
(* The n-th request of a client.                                            *)
Request == UNION {{c} \X (1..MaxRequests[c]) : c \in Client}
Sender(r) == r[1]

(* A prompt; a character is known by the prompt it was typed for.           *)
Entry == [request : Request, type : {"password", "question"}]
Text  == Seq(Entry)
Watch == [request : Request, keys : KeyString]

(* A reply: ACK (or NAK), no answer, a line of text, the text "\x3" that    *)
(* stands for Ctrl-C, a key, or the cached passwords.                       *)
Message == [type : {"ack", "none", "text", "interrupt", "key", "passwords"},
            text : Text]
Plain(type) == [type |-> type, text |-> <<>>]
Line(text)  == [type |-> "text", text |-> text]

(* Bug: a password is displayed as it is typed.                             *)
PictureInClear(es, typed) ==
    IF es = <<>> THEN [prompt |-> {}, bullets |-> 0, text |-> <<>>]
    ELSE [prompt |-> {Head(es)}, bullets |-> 0, text |-> typed]

(* A picture of the queue: bullets for a password, the text of a question.  *)
Picture(es, typed) ==
    IF es = <<>> THEN [prompt |-> {}, bullets |-> 0, text |-> <<>>]
    ELSE IF Head(es).type = "password"
    THEN [prompt |-> {Head(es)}, bullets |-> Len(typed), text |-> <<>>]
    ELSE [prompt |-> {Head(es)}, bullets |-> 0, text |-> typed]

Normal == Picture(<<>>, <<>>)

Prompts   == {entries[i].request : i \in DOMAIN entries}
Watching  == {watches[i].request : i \in DOMAIN watches}
Waiting   == Prompts \union Watching \union controls
IsSent(r) == r[2] <= sent[Sender(r)]

TypeOK ==
    /\ link \in [Client -> {"new", "open", "hungup"}]
    /\ refs \in [Client -> Nat]
    /\ sent \in [Client -> Nat] /\ \A c \in Client : sent[c] <= MaxRequests[c]
    /\ DOMAIN reply = Request
    /\ \A r \in Request : reply[r] \in Seq(Message)
    /\ cached \in Seq(Message)
    /\ controls \subseteq Request
    /\ entries \in Seq(Entry)
    /\ watches \in Seq(Watch)
    /\ buffer \in Text /\ Len(buffer) <= MaxText
    /\ shown \in BOOLEAN /\ splash \in BOOLEAN
    /\ screen \in [prompt : SUBSET Entry, bullets : 0..MaxText, text : Text]
    /\ phase \in {"running", "freed", "crashed"}

Init ==
    /\ link = [c \in Client |-> "new"]
    /\ refs = [c \in Client |-> 0]
    /\ sent = [c \in Client |-> 0]
    /\ reply = [r \in Request |-> <<>>]
    /\ cached = <<>> /\ controls = {}
    /\ entries = <<>> /\ watches = <<>> /\ buffer = <<>>
    /\ shown = FALSE /\ splash = FALSE /\ screen = Normal
    /\ phase = "running"

-----------------------------------------------------------------------------
(* The handlers of the triggers of the requests R write m, unless the       *)
(* connection is disconnected in l; each drops its reference.               *)
Answered(written, R, m, l) ==
    [r \in Request |-> IF r \in R /\ l[Sender(r)] = "open"
                       THEN Append(written[r], m) ELSE written[r]]
Dropped(R) ==
    [c \in Client |-> refs[c] - Cardinality({r \in R : Sender(r) = c})]

Pull(R, m) == reply' = Answered(reply, R, m, link) /\ refs' = Dropped(R)

(* plymouthd_interaction_update_display with the queue es and the text      *)
(* typed, on the splash, if there is one.                                   *)
UpdateDisplay(es, typed, present) ==
    screen' = IF present THEN Picture(es, typed) ELSE screen

Runs == phase = "running" /\ UNCHANGED phase

(* ply_boot_server_on_new_connection.                                       *)
OnNewConnection(c) ==
    /\ Runs
    /\ link[c] = "new"
    /\ link' = [link EXCEPT ![c] = "open"]
    /\ refs' = [refs EXCEPT ![c] = 1]
    /\ UNCHANGED <<sent, reply, cached, controls, interaction, display>>

(* One request is read from a connection that is still watched.             *)
Receive(c) ==
    /\ Runs
    /\ link[c] = "open" /\ sent[c] < MaxRequests[c]
    /\ sent' = [sent EXCEPT ![c] = @ + 1]

Received(c) == <<c, sent[c] + 1>>

TakeReference(c) == refs' = [refs EXCEPT ![c] = @ + 1]

Write(c, m) == reply' = Answered(reply, {Received(c)}, m, link)

(* Every request that is answered within its handler: those acknowledged,   *)
(* and those refused with a NAK because the command is unknown, the client  *)
(* is not root or plymouthd has no active VT.                               *)
OnPlainRequest(c) ==
    /\ Receive(c)
    /\ Write(c, Plain("ack"))
    /\ UNCHANGED <<link, refs, cached, controls, interaction, display>>

OnCachedPasswordRequest(c) ==
    /\ Receive(c)
    /\ Write(c, Plain(IF cached = <<>> THEN "none" ELSE "passwords"))
    /\ UNCHANGED <<link, refs, cached, controls, interaction, display>>

(* Quit and deactivate.                                                     *)
OnControlRequest(c) ==
    /\ Receive(c)
    /\ TakeReference(c)
    /\ controls' = controls \union {Received(c)}
    /\ UNCHANGED <<link, reply, cached, interaction, display>>

OnControlComplete(R) ==
    /\ Runs
    /\ R \subseteq controls /\ R # {}
    /\ controls' = controls \ R
    /\ Pull(R, Plain("ack"))
    /\ UNCHANGED <<link, sent, cached, interaction, display>>

-----------------------------------------------------------------------------
(* queue_entry: the new prompt waits behind the others.                     *)
QueueEntry(c, type, present) ==
    /\ TakeReference(c)
    /\ entries' = Append(entries, [request |-> Received(c), type |-> type])
    /\ UpdateDisplay(entries', buffer, present)
    /\ UNCHANGED <<link, reply, cached, controls, watches, buffer, shown>>

(* ask-for-password: with a splash still to come the prompt waits for it,   *)
(* and may make it come now; with none at all the client is told to ask by  *)
(* itself.                                                                  *)
OnPasswordRequest(c, comes) ==
    /\ Receive(c)
    /\ IF splash \/ shown
       THEN /\ splash' = (splash \/ comes)
            /\ QueueEntry(c, "password", splash')
       ELSE /\ Write(c, Plain("none"))
            /\ UNCHANGED <<link, refs, cached, controls, interaction, display>>

OnQuestionRequest(c) ==
    Receive(c) /\ QueueEntry(c, "question", splash) /\ UNCHANGED splash

OnKeystrokeRequest(c, keys) ==
    /\ Receive(c)
    /\ TakeReference(c)
    /\ watches' = Append(watches, [request |-> Received(c), keys |-> keys])
    /\ UNCHANGED <<link, reply, cached, controls, entries, buffer, display>>

(* keystroke-remove forgets the first watch for exactly these keys, be it   *)
(* the sender's or not.                                                     *)
OnKeystrokeRemoveRequest(c, keys) ==
    LET i == SelectInSeq(watches, LAMBDA w : w.keys = keys)
        R == IF i = 0 THEN {} ELSE {watches[i].request}
    IN  /\ Receive(c)
        /\ watches' = IF i = 0 THEN watches ELSE RemoveAt(watches, i)
        /\ refs' = Dropped(R)
        /\ reply' = Answered(Answered(reply, R, Plain("none"), link),
                             {Received(c)}, Plain("ack"), link)
        /\ UNCHANGED <<link, cached, controls, entries, buffer, display>>

-----------------------------------------------------------------------------
(* The prompts or watches of q without those of client c, in their order:   *)
(* one that is kept goes to the place that counts those kept up to it.      *)
OthersOf(q, c) ==
    LET kept == {i \in DOMAIN q : Sender(q[i].request) # c}
        place(i) == Cardinality({j \in kept : j <= i})
    IN  [n \in 1..Cardinality(kept) |-> q[CHOOSE i \in kept : place(i) = n]]

(* Bug: keystroke watches survive their connection.                         *)
CancelConnectionKeepsWatches(c) ==
    /\ entries' = OthersOf(entries, c)
    /\ buffer'  = IF entries # <<>> /\ Sender(Head(entries).request) = c
                  THEN <<>> ELSE buffer
    /\ IF entries' # entries THEN UpdateDisplay(entries', buffer', splash)
       ELSE UNCHANGED screen
    /\ UNCHANGED watches

(* Bug: what was typed for a cancelled prompt goes to the next one.         *)
CancelConnectionKeepsText(c) ==
    /\ entries' = OthersOf(entries, c)
    /\ watches' = OthersOf(watches, c)
    /\ IF entries' # entries THEN UpdateDisplay(entries', buffer, splash)
       ELSE UNCHANGED screen
    /\ UNCHANGED buffer

(* Bug: the prompts queued behind a cancelled one are cut off with it.      *)
CancelConnectionCutsQueue(c) ==
    LET first == SelectInSeq(entries, LAMBDA e : Sender(e.request) = c)
    IN  /\ entries' = IF first = 0 THEN entries ELSE SubSeq(entries, 1, first - 1)
        /\ watches' = OthersOf(watches, c)
        /\ buffer'  = IF first = 1 THEN <<>> ELSE buffer
        /\ UpdateDisplay(entries', buffer', splash)

(* plymouthd_interaction_cancel_connection, with the connection already     *)
(* marked disconnected: what the user typed is kept for the head of the     *)
(* queue unless the head is one of those cancelled.                         *)
CancelConnection(c) ==
    /\ entries' = OthersOf(entries, c)
    /\ watches' = OthersOf(watches, c)
    /\ buffer'  = IF entries # <<>> /\ Sender(Head(entries).request) = c
                  THEN <<>> ELSE buffer
    /\ IF entries' # entries THEN UpdateDisplay(entries', buffer', splash)
       ELSE UNCHANGED screen

(* ply_boot_connection_on_hangup.                                           *)
OnHangup(c) ==
    LET R == {r \in Prompts \union Watching : Sender(r) = c}
    IN  /\ Runs
        /\ link[c] = "open"
        /\ link' = [link EXCEPT ![c] = "hungup"]
        /\ CancelConnection(c)
        /\ reply' = Answered(reply, R, Plain("none"), link')
        /\ refs' = [Dropped(R) EXCEPT ![c] = @ - 1]
        /\ UNCHANGED <<sent, cached, controls, shown, splash>>

(* ply_boot_connection_disconnect, for a request that cannot be read: the   *)
(* same steps in another order.                                             *)
OnUnreadableRequest(c) == OnHangup(c)

-----------------------------------------------------------------------------
(* The keyboard.  What the splash plugin does not accept changes nothing,   *)
(* and neither does an escape sequence.                                     *)

(* Answer the prompt at the head of the queue with m.                       *)
AnswerEntry(m) ==
    /\ Runs
    /\ entries # <<>>
    /\ Pull({Head(entries).request}, m)
    /\ cached' = IF Head(entries).type = "password" THEN Append(cached, m)
                 ELSE cached
    /\ buffer' = <<>>
    /\ entries' = Tail(entries)
    /\ UpdateDisplay(entries', buffer', splash)
    /\ UNCHANGED <<link, sent, controls, watches, shown, splash>>

OnEnter == AnswerEntry(Line(buffer))

OnInterrupt == AnswerEntry(Plain("interrupt"))

OnInput ==
    /\ Runs
    /\ entries # <<>> /\ Len(buffer) < MaxText
    /\ buffer' = Append(buffer, Head(entries))
    /\ UpdateDisplay(entries, buffer', splash)
    /\ UNCHANGED <<link, refs, sent, reply, cached, controls, entries,
                   watches, shown, splash>>

OnBackspace ==
    /\ Runs
    /\ entries # <<>> /\ buffer # <<>>
    /\ buffer' = Front(buffer)
    /\ UpdateDisplay(entries, buffer', splash)
    /\ UNCHANGED <<link, refs, sent, reply, cached, controls, entries,
                   watches, shown, splash>>

(* With no prompt a key goes to the first watch that wants it.              *)
OnKey(k) ==
    LET i == SelectInSeq(watches, LAMBDA w : w.keys = {} \/ k \in w.keys)
    IN  /\ Runs
        /\ entries = <<>> /\ i # 0
        /\ watches' = RemoveAt(watches, i)
        /\ Pull({watches[i].request}, Plain("key"))
        /\ UNCHANGED <<link, sent, cached, controls, entries, buffer, display>>

-----------------------------------------------------------------------------
(* The splash of module Daemon: it is asked for or not, and each time one   *)
(* is loaded it is told what to display (plymouthd_show_default_splash,     *)
(* plymouthd_show_detailed_splash).                                         *)
OnSplashLoaded ==
    /\ Runs
    /\ ~splash /\ splash' = TRUE
    /\ UpdateDisplay(entries, buffer, TRUE)
    /\ UNCHANGED <<connections, interaction, shown>>

OnSplashFreed ==
    /\ Runs
    /\ splash /\ splash' = FALSE
    /\ screen' = Normal
    /\ UNCHANGED <<connections, interaction, shown>>

OnShownChanged ==
    /\ Runs
    /\ shown' = ~shown
    /\ UNCHANGED <<connections, interaction, splash, screen>>

(* plymouthd_free, when a quit request or SIGTERM has ended the event loop  *)
(* and every quit and deactivate is answered: the splash holder is freed,   *)
(* then ply_boot_server_free hangs every connection up, and the hangup      *)
(* handler reads the splash from the freed holder.  A prompt that is        *)
(* cancelled then is displayed on whatever was read.                        *)
Free ==
    /\ phase = "running" /\ controls = {}
    /\ phase' \in IF \E r \in Prompts : link[Sender(r)] = "open"
                  THEN {"freed", "crashed"} ELSE {"freed"}
    /\ splash' = FALSE /\ screen' = Normal
    /\ entries' = <<>> /\ watches' = <<>> /\ buffer' = <<>>
    /\ link' = [c \in Client |-> IF link[c] = "open" THEN "hungup" ELSE link[c]]
    /\ refs' = [c \in Client |-> Dropped(Prompts \union Watching)[c]
                                  - (IF link[c] = "open" THEN 1 ELSE 0)]
    /\ UNCHANGED <<sent, reply, cached, controls, shown>>

Requests(c) ==
    \/ OnPlainRequest(c)
    \/ OnCachedPasswordRequest(c)
    \/ OnControlRequest(c)
    \/ \E comes \in BOOLEAN : OnPasswordRequest(c, comes)
    \/ OnQuestionRequest(c)
    \/ \E keys \in KeyString :
           OnKeystrokeRequest(c, keys) \/ OnKeystrokeRemoveRequest(c, keys)

Keyboard ==
    \/ OnEnter \/ OnInterrupt \/ OnInput \/ OnBackspace
    \/ \E k \in Key : OnKey(k)

Next ==
    \/ \E c \in Client :
           \/ OnNewConnection(c)
           \/ Requests(c)
           \/ OnHangup(c)
           \/ OnUnreadableRequest(c)
    \/ \E R \in SUBSET controls : OnControlComplete(R)
    \/ Keyboard
    \/ OnSplashLoaded \/ OnSplashFreed \/ OnShownChanged
    \/ Free

Spec == Init /\ [][Next]_vars

-----------------------------------------------------------------------------
(* Properties.                                                              *)

(* reference_count counts the server's list and the requests that wait: no  *)
(* trigger is left whose handler would follow a freed connection, and none  *)
(* keeps a connection whose client is gone and whom nobody has to answer.   *)
ReferencesCounted ==
    \A c \in Client :
        refs[c] = (IF link[c] = "open" THEN 1 ELSE 0)
                  + Cardinality({r \in Waiting : Sender(r) = c})

(* A request is written to exactly once, within its handler or when its     *)
(* wait ends: it either waits, in one place only, or has its reply.  Only   *)
(* quit and deactivate requests still wait once their client hung up.       *)
AnsweredOnce ==
    /\ \A r \in Request :
           /\ Len(reply[r]) <= 1
           /\ reply[r] # <<>> => IsSent(r) /\ r \notin Waiting
           /\ IsSent(r) /\ link[Sender(r)] = "open"
                  => r \in Waiting \/ reply[r] # <<>>
           /\ link[Sender(r)] # "open" => r \notin Prompts \union Watching
    /\ Cardinality(Waiting)
           = Len(entries) + Len(watches) + Cardinality(controls)

(* Whatever the order in which prompts are queued, answered and cancelled   *)
(* and splashes come and go, a splash displays the prompt that would be     *)
(* answered and what was typed so far.                                      *)
ScreenIsCurrent == splash => screen = Picture(entries, buffer)

(* The entry buffer holds only what was typed for the prompt at the head of *)
(* the queue, as test_connection_cancel_clears_only_active_input asks.      *)
TypedForHead ==
    \A i \in DOMAIN buffer : entries # <<>> /\ buffer[i] = Head(entries)

(* Clients that ask, stop waiting and hang up in any order leave the books  *)
(* of the boot server, the queue of prompts and the display in agreement.   *)
PromptsAreSound ==
    /\ TypeOK
    /\ ReferencesCounted
    /\ AnsweredOnce
    /\ ScreenIsCurrent
    /\ TypedForHead

(* What was typed for a password prompt is displayed only as bullets, and   *)
(* the cache of passwords holds nothing that was typed for a question, nor  *)
(* characters of two prompts in one password.                               *)
PasswordsKeptApart ==
    /\ \A i \in DOMAIN screen.text : screen.text[i].type = "question"
    /\ \A m \in ToSet(cached), i, j \in 1..MaxText :
           {i, j} \subseteq DOMAIN m.text
               => m.text[i] = m.text[j] /\ m.text[i].type = "password"

(* A line of text goes to a client only while its prompt is the one that a  *)
(* splash, if there is any, displays, and every character of the line was   *)
(* typed for this prompt.                                                   *)
AnswerWasPrompted ==
    [][ \A r \in Request, i \in 1..2 :
          i \in DOMAIN reply'[r] \ DOMAIN reply[r]
              /\ reply'[r][i].type = "text"
          => /\ splash => \E e \in screen.prompt : e.request = r
             /\ \A j \in DOMAIN reply'[r][i].text :
                    reply'[r][i].text[j].request = r ]_vars

(* As long as the user keeps pressing enter every prompt is answered, or    *)
(* its client is gone: no prompt starves behind the others, and no hangup   *)
(* of another client takes it out of the queue.                             *)
UserAnswers == WF_vars(OnEnter)

AttendedSpec == Spec /\ UserAnswers

PromptsAreAnswered ==
    \A r \in Request :
        (r \in Prompts) ~> (reply[r] # <<>> \/ link[Sender(r)] = "hungup")

=============================================================================
