------------------------------ MODULE Console ------------------------------
(***************************************************************************)
(* The way of the boot output: what the console and the kernel write is    *)
(* read by the terminal session (libply/ply-terminal-session.c) and the    *)
(* kernel message reader (ply-kmsg-reader.c), kept by the daemon           *)
(* (plymouthd-session.c, plymouthd-output.c, ply-buffer.c) and handed to   *)
(* the console viewer of a display (ply-console-viewer.c), which parses it *)
(* with an emulator of its own and shows the last lines in its labels. The *)
(* plugin of the splash writes prompts and messages into the same emulator.*)
(*                                                                         *)
(* One display is modelled. A display that comes late gets the output from *)
(* the buffer, in one piece; one that was there got it in the pieces in    *)
(* which it was read.                                                      *)
(***************************************************************************)
EXTENDS Emulator

CONSTANTS
    Texts,      \* what the console writes at once, sequences of bytes
    Phrases,    \* prompts, entries and messages, sequences of bytes
    Overs,      \* what a plugin writes over the cursor of a question
    MaxBullets, \* bound on the bullets of a password
    Priorities, \* priorities of kernel messages
    MaxWrites,  \* bound on the number of texts, messages, prompts, changes
                \* of the mode and failures to attach
    MaxBuffer   \* PLY_BUFFER_MAX_BUFFER_CAPACITY

ASSUME ConsoleAssumption ==
    /\ Texts \subseteq Seq(STRING) /\ Phrases \subseteq Seq(STRING)
    /\ Overs \subseteq {<<"BS">>, <<"BS", " ">>} /\ MaxBullets \in Nat
    /\ Priorities \subseteq 0..7
    /\ MaxWrites \in Nat /\ MaxBuffer \in Nat \ {0}

VARIABLES
    session,  \* plymouthd_session_t and its ply_terminal_session_t
    stream,   \* written to the pseudoterminal and not read
    output,   \* daemon->output: its bytes, if it is there, and whether it
              \* was used when it was not
    shown,    \* a splash is shown: the plugin knows the boot buffer
    prompt,   \* the plugin's state: "normal", "password" or "question"
    view,     \* the view of the display and its console viewer
    writes,   \* how many there were of what MaxWrites bounds
    history   \* what the properties compare with, see below

consoleVars == <<session, stream, output, shown, prompt, view, writes, history>>

-----------------------------------------------------------------------------
(* ply-console-viewer.c                                                     *)

NoView == [made |-> FALSE, emulator |-> New, hidden |-> TRUE,
           queued |-> FALSE, labels |-> [i \in 0..(Rows - 1) |-> <<>>]]

First(e) == IF e.count < Rows THEN 0 ELSE e.count - Rows

(* update_console_messages: labels below the last line are left alone.      *)
Update(v) ==
    LET e == v.emulator
    IN  IF v.hidden THEN [v EXCEPT !.queued = FALSE]
        ELSE [v EXCEPT !.queued = FALSE,
                 !.labels = [i \in DOMAIN @ |->
                    IF i < e.count THEN Visible(NthLine(e, First(e) + i))
                    ELSE @[i]]]

(* Bug: what came while the viewer was hidden is not put in the labels.     *)
ViewerShowUnchanged(v) == [v EXCEPT !.hidden = FALSE]

ViewerShow(v) == Update([v EXCEPT !.hidden = FALSE])

ViewerHide(v) == [v EXCEPT !.hidden = TRUE]

(* ply_console_viewer_write and _convert_boot_buffer, with the trigger of   *)
(* the emulator and on_terminal_emulator_output.                            *)
ViewerWrite(v, text) ==
    [v EXCEPT !.emulator = Parse(@, text),
              !.queued = @ \/ (text # <<>> /\ ~v.hidden)]

-----------------------------------------------------------------------------
(* ply_buffer_append_bytes: a full buffer loses as much of its front as     *)
(* comes in.                                                                *)
BufferAppend(buffer, bytes) ==
    LET in == IF Len(bytes) > MaxBuffer
              THEN SubSeq(bytes, Len(bytes) - MaxBuffer + 2, Len(bytes))
              ELSE bytes
    IN  IF Len(buffer) + Len(in) < MaxBuffer THEN buffer \o in
        ELSE SubSeq(buffer, Len(in) + 1, Len(buffer)) \o in

(* history.read is an emulator in the middle of the whole output, which it  *)
(* parses in one piece, and lost tells that the buffer dropped some of it.  *)
(* history.ideal parses in one piece what the viewer was given: the output, *)
(* and in between what the plugin wrote. gap tells that a piece of it ended *)
(* where the next one does not go on from, and exact that the viewer was    *)
(* given the whole output, and once.                                        *)

(* A piece ends with the cursor beyond the end of its line, which the next  *)
(* call pads, or within a control sequence that began on a full line, which *)
(* the next call breaks at once.                                            *)
Beyond(e) ==
    IF e.broken THEN e.state # "unescaped" ELSE ~(e.column <= Length(Line(e)))

Recorded(h, e) == [h EXCEPT !.ideal = e, !.gap = @ \/ Beyond(e)]

Record(h, text) == Recorded(h, ParseOn(h.ideal, text))

(* plymouthd_output_append, and on_boot_output of the plugin                *)
OutputAppend(w, piece) ==
    [output  |-> BufferAppend(w.output, piece),
     view    |-> IF w.view.made THEN ViewerWrite(w.view, piece) ELSE w.view,
     history |-> [Record(w.history, piece) EXCEPT
                     !.read = ParseOn(@, piece),
                     !.lost = @ \/ Len(w.output) + Len(piece) >= MaxBuffer]]

Now == [output |-> output.bytes, view |-> view, history |-> history]

(* Nobody looks whether the output is still there before it is used.        *)
UseMissing ==
    /\ ~output.alive
    /\ output' = [output EXCEPT !.used = TRUE]
    /\ UNCHANGED <<view, history>>

Becomes(w) ==
    \/ UseMissing
    \/ /\ output.alive
       /\ output' = [output EXCEPT !.bytes = w.output]
       /\ view' = w.view
       /\ history' = w.history

-----------------------------------------------------------------------------
(* What the plugins with a viewer write into it, alike but for Overs. A     *)
(* plugin sets its state before it shows a prompt, so the new line that is  *)
(* meant to come before the first one never does.                           *)

ClearLine == <<"ESC", "[", "2", "K", "ESC", "[", "0", "G">>

ShowPromptTexts(text, entry, bullets) ==
    <<ClearLine, text, <<":", " ">>, entry>>
        \o [i \in 1..bullets |-> <<" ">>] \o << <<"_">> >>

HidePromptTexts(state, over) ==
    << IF state = "password" THEN ClearLine ELSE over, <<"NL">> >>

MessageText(text) == <<"NL">> \o text \o <<"NL">>

(* ply_console_viewer_print: each print is a text of its own.               *)
PluginPrint(w, text) ==
    [output  |-> w.output,
     view    |-> ViewerWrite(w.view, text),
     history |-> Record(w.history, text)]

PluginWrites(w, texts) ==
    LET after[n \in 0..Len(texts)] ==
            IF n = 0 THEN w ELSE PluginPrint(after[n - 1], texts[n])
    IN  after[Len(texts)]

-----------------------------------------------------------------------------
(* plymouthd-session.c and ply-terminal-session.c                           *)

NoSession ==
    [terminal |-> FALSE, attached |-> FALSE, redirected |-> FALSE,
     running |-> FALSE, fd |-> FALSE, created |-> FALSE, console |-> FALSE,
     watched |-> FALSE, kmsg |-> FALSE, asserts |-> FALSE]

(* The outcomes of opening the pseudoterminal and of redirecting to it.     *)
Outcomes == {"opened", "not opened", "not redirected"}

(* ply_terminal_session_attach                                              *)
TerminalAttach(s, redirect, outcome) ==
    LET t == [s EXCEPT !.asserts = @ \/ s.running]
    IN  IF outcome = "not opened" THEN t
        ELSE IF outcome = "not redirected" /\ redirect
        THEN [t EXCEPT !.created = TRUE]
        ELSE [t EXCEPT !.created = TRUE, !.fd = TRUE, !.running = TRUE,
                       !.console = redirect, !.watched = TRUE]

(* ply_terminal_session_detach                                              *)
TerminalDetach(s) ==
    [s EXCEPT !.watched = FALSE, !.console = FALSE, !.running = FALSE,
              !.fd = @ /\ ~s.created, !.created = FALSE]

(* plymouthd_session_attach: the reader of kernel messages starts with it   *)
SessionAttach(s, redirect, outcome, kmsg) ==
    LET t == TerminalAttach([s EXCEPT !.terminal = TRUE], redirect, outcome)
    IN  IF ~t.running
        THEN [t EXCEPT !.terminal = FALSE, !.attached = FALSE,
                       !.redirected = FALSE, !.created = FALSE]
        ELSE [t EXCEPT !.attached = TRUE, !.redirected = redirect,
                       !.kmsg = kmsg]

(* Bug: the reader of kernel messages goes on.                              *)
SessionDetachButKmsg(s) ==
    [TerminalDetach(s) EXCEPT !.attached = FALSE, !.redirected = FALSE]

SessionDetach(s) ==
    [TerminalDetach(s) EXCEPT !.attached = FALSE, !.redirected = FALSE,
                              !.kmsg = FALSE]

-----------------------------------------------------------------------------

ConsoleInit ==
    /\ session = NoSession
    /\ stream = <<>>
    /\ output = [alive |-> TRUE, bytes |-> <<>>, used |-> FALSE]
    /\ shown = FALSE
    /\ prompt = "normal"
    /\ view = NoView
    /\ writes = 0
    /\ history = [read |-> Start(New), lost |-> FALSE, ideal |-> Start(New),
                  gap |-> FALSE, exact |-> FALSE]

(* plymouthd_attach_session, for show-splash and reactivate: a failure      *)
(* frees the output, and a later success does not bring it back.            *)
Attach(redirect, outcome, kmsg) ==
    /\ ~session.attached
    /\ session' = SessionAttach(session, redirect, outcome, kmsg)
    /\ output' = [output EXCEPT !.alive = @ /\ session'.attached]
    /\ stream' = <<>>
    /\ session'.attached \/ writes < MaxWrites
    /\ writes' = IF session'.attached THEN writes ELSE writes + 1
    /\ UNCHANGED <<shown, prompt, view, history>>

(* plymouthd_session_detach, when the console is given up                   *)
Detach ==
    /\ session.terminal /\ session.attached
    /\ session' = SessionDetach(session)
    /\ stream' = <<>>
    /\ UNCHANGED <<output, shown, prompt, view, writes, history>>

(* The console writes to the pseudoterminal.                                *)
Write(text) ==
    /\ session.fd /\ stream = <<>> /\ writes < MaxWrites
    /\ stream' = text
    /\ writes' = writes + 1
    /\ UNCHANGED <<session, output, shown, prompt, view, history>>

(* ply_terminal_session_on_new_data: some of what waits is read.            *)
OnNewData(n) ==
    /\ session.watched
    /\ Becomes(OutputAppend(Now, SubSeq(stream, 1, n)))
    /\ stream' = SubSeq(stream, n + 1, Len(stream))
    /\ UNCHANGED <<session, shown, prompt, writes>>

(* ply_terminal_session_on_hangup: taken away, the console is taken back.   *)
OnHangup(outcome) ==
    /\ session.watched
    /\ session' = IF session.created
                  THEN TerminalAttach(TerminalDetach(session),
                                      session.redirected, outcome)
                  ELSE TerminalDetach(session)
    /\ stream' = <<>>
    /\ UNCHANGED <<output, shown, prompt, view, writes, history>>

(* handle_kmsg_message and plymouthd_handle_kmsg: each line of a message    *)
(* that is urgent enough is printed in the colour of its priority.          *)
Colour(priority) ==
    CASE priority <= 3 -> <<"3", "1">>
      [] priority = 4  -> <<"3", "3">>
      [] priority = 5  -> <<"3", "2">>
      [] OTHER         -> <<"3", "9">>

KmsgLine(priority) ==
    <<"ESC", "[", "0", ";">>
        \o (IF priority < 1 THEN <<"1", ";">> ELSE <<>>)
        \o Colour(priority) \o <<"m", "k", "ESC", "[", "0", "m">>

KmsgPrint(w, priority) ==
    OutputAppend(OutputAppend(w, KmsgLine(priority)), <<"NL">>)

OnKmsg(priority, lines, level) ==
    /\ session.kmsg /\ writes < MaxWrites
    /\ writes' = writes + 1
    /\ \/ priority > level /\ UNCHANGED <<output, view, history>>
       \/ /\ priority <= level
          /\ \E w \in {KmsgPrint(Now, priority)} :
                Becomes(IF lines = 1 THEN w ELSE KmsgPrint(w, priority))
    /\ UNCHANGED <<session, stream, shown, prompt>>

(* Nothing can be read any more: ply_kmsg_reader_stop.                      *)
OnKmsgEnd ==
    /\ session.kmsg
    /\ session' = [session EXCEPT !.kmsg = FALSE]
    /\ UNCHANGED <<stream, output, shown, prompt, view, writes, history>>

-----------------------------------------------------------------------------
(* The splash and its viewer                                                *)

(* view_new: a new viewer, and the output so far when the plugin has it     *)
LoadView ==
    \/ UseMissing
    \/ /\ output.alive
       /\ view' = ViewerWrite([NoView EXCEPT !.made = TRUE], output.bytes)
       /\ history' = [history EXCEPT !.ideal = history.read,
                                     !.gap = Beyond(history.read),
                                     !.exact = ~history.lost]
       /\ UNCHANGED output

DropView ==
    /\ view' = NoView
    /\ history' = [history EXCEPT !.exact = FALSE]
    /\ UNCHANGED output

(* The displays are added before the splash is shown, and the viewers get   *)
(* the output when it is.                                                   *)
ShowSplash ==
    /\ ~shown
    /\ shown' = TRUE
    /\ LoadView
    /\ UNCHANGED <<session, stream, prompt, writes>>

(* ply_boot_splash_show for another mode, or after a hide, gives the viewer *)
(* all of the output once more.                                             *)
ChangeMode ==
    /\ shown /\ view.made /\ writes < MaxWrites
    /\ writes' = writes + 1
    /\ \/ UseMissing
       \/ /\ output.alive
          /\ view' = ViewerWrite(view, output.bytes)
          /\ history' = [history EXCEPT !.exact = @ /\ output.bytes = <<>>]
          /\ UNCHANGED output
    /\ UNCHANGED <<session, stream, shown, prompt>>

(* The splash is freed, and its plugin with it.                             *)
FreeSplash ==
    /\ shown
    /\ shown' = FALSE
    /\ prompt' = "normal"
    /\ DropView
    /\ UNCHANGED <<session, stream, writes>>

Unwatched == UNCHANGED <<session, stream, shown, prompt, writes>>

AddDisplay ==
    /\ shown /\ ~view.made
    /\ LoadView
    /\ Unwatched

RemoveDisplay ==
    /\ view.made
    /\ DropView
    /\ Unwatched

(* Prompts and messages. Whether the console is hidden or shown with them   *)
(* differs among the plugins and with what the user asked for; that is the  *)
(* DisplayConsole and HideConsole below.                                    *)
Views(w) ==
    /\ view' = w.view
    /\ history' = w.history

Prints(texts) == Views(IF view.made THEN PluginWrites(Now, texts) ELSE Now)

DisplayPassword(text, bullets) ==
    /\ shown /\ writes < MaxWrites
    /\ writes' = writes + 1
    /\ prompt' = "password"
    /\ Prints(ShowPromptTexts(text, <<>>, bullets))
    /\ UNCHANGED <<session, stream, output, shown>>

DisplayQuestion(text, entry) ==
    /\ shown /\ writes < MaxWrites
    /\ writes' = writes + 1
    /\ prompt' = "question"
    /\ Prints(ShowPromptTexts(text, entry, 0))
    /\ UNCHANGED <<session, stream, output, shown>>

DisplayNormal(over) ==
    /\ shown /\ prompt # "normal"
    /\ prompt' = "normal"
    /\ Prints(HidePromptTexts(prompt, over))
    /\ UNCHANGED <<session, stream, output, shown, writes>>

ShowMessage(text) ==
    /\ shown /\ writes < MaxWrites
    /\ writes' = writes + 1
    /\ Prints(<<MessageText(text)>>)
    /\ UNCHANGED <<session, stream, output, shown, prompt>>

(* The user looks at the messages, and no longer.                           *)
DisplayConsole ==
    /\ view.made /\ view.hidden
    /\ view' = ViewerShow(view)
    /\ UNCHANGED <<output, history>>
    /\ Unwatched

HideConsole ==
    /\ view.made /\ ~view.hidden
    /\ view' = ViewerHide(view)
    /\ UNCHANGED <<output, history>>
    /\ Unwatched

(* The timer of TERMINAL_OUTPUT_UPDATE_INTERVAL                             *)
OnUpdate ==
    /\ view.queued
    /\ view' = Update(view)
    /\ UNCHANGED <<output, history>>
    /\ Unwatched

SessionNext ==
    \/ \E redirect, kmsg \in BOOLEAN, o \in Outcomes : Attach(redirect, o, kmsg)
    \/ Detach
    \/ \E text \in Texts : Write(text)
    \/ \E n \in DOMAIN stream : OnNewData(n)
    \/ \E o \in Outcomes : OnHangup(o)
    \/ \E p \in Priorities, lines \in 1..2, level \in {3, 7} :
            OnKmsg(p, lines, level)
    \/ OnKmsgEnd

SplashNext ==
    \/ ShowSplash
    \/ ChangeMode
    \/ FreeSplash
    \/ AddDisplay
    \/ RemoveDisplay
    \/ \E text \in Phrases, n \in 0..MaxBullets : DisplayPassword(text, n)
    \/ \E text, entry \in Phrases : DisplayQuestion(text, entry)
    \/ \E over \in Overs : DisplayNormal(over)
    \/ \E text \in Phrases : ShowMessage(text)
    \/ DisplayConsole
    \/ HideConsole
    \/ OnUpdate

(* The daemon does not outlive the use of a missing output.                 *)
ConsoleNext == ~output.used /\ (SessionNext \/ SplashNext)

ConsoleSpec == ConsoleInit /\ [][ConsoleNext]_consoleVars

-----------------------------------------------------------------------------

(* However the output was cut by the reads, and through the buffer when the *)
(* display came late, and whatever prompts and messages the plugin printed  *)
(* in between, in pieces of its own: the emulator of a viewer is where it   *)
(* would be had it parsed all of that at once, in its order. No character,  *)
(* colour or control sequence is lost at the end of a read or of a print.   *)
(* It does not hold once the viewer was given the output twice (ChangeMode),*)
(* when the buffer dropped some, or after a piece ended Beyond.             *)
ViewersShowTheOutput ==
    view.made /\ history.exact /\ ~history.gap =>
        view.emulator = End(history.ideal)

(* A viewer that can be seen shows the last lines of its emulator, or its   *)
(* timer runs to bring them: hiding it, showing it and writing to it in any *)
(* order never leaves old text on the screen.                               *)
LabelsAreFresh ==
    LET e == view.emulator
    IN  view.made /\ ~view.hidden /\ ~view.queued =>
            \A i \in 0..(Rows - 1) :
                i < e.count => view.labels[i] = Visible(NthLine(e, First(e) + i))

(* Whatever hangs up and fails to come back, in whatever order: a session   *)
(* that runs is attached, read and redirected as it was asked for, one that *)
(* does not holds nothing of the console, kernel messages are read for an   *)
(* attached session only, and no attach finds one running (its assertion).  *)
(* Whether the output is still there is not part of it: after an attach that*)
(* failed and one that succeeded it is used and is not there (UseMissing).  *)
SessionIsSound ==
    /\ session.running =>
          /\ session.attached /\ session.fd /\ session.watched
          /\ session.console = session.redirected
    /\ ~session.running => ~session.fd /\ ~session.watched /\ ~session.console
    /\ session.kmsg => session.attached
    /\ ~session.asserts
=============================================================================
