------------------------------ MODULE Splash ------------------------------
(***************************************************************************)
(* A boot splash: the shell of ply-boot-splash.c, the plugin behind it and *)
(* the calls the daemon makes while it shows, deactivates and quits. A     *)
(* splash must answer "become idle" with one idle trigger, or the daemon   *)
(* waits for ever; it must hold its displays only while it is shown; and   *)
(* what it started must be stopped before it is freed.                     *)
(***************************************************************************)
EXTENDS PlainThemes

CONSTANTS
    Theme,          \* the plugins that a theme may name
    Attached,       \* the sets of screens that a splash may find
    MaxCommands,    \* bound on client requests and keys
    MaxPlugs,       \* bound on screens that come or go
    MaxReloads      \* bound on changes of the theme

(* The plugins that there are *)
Plugin == {"two-step", "fade-throbber", "space-flares", "script",
           "console-viewer", "text", "details"}

ASSUME SplashAssumption ==
    /\ Theme \subseteq Plugin
    /\ Attached \subseteq SUBSET Display
    /\ {MaxCommands, MaxPlugs, MaxReloads} \subseteq Nat

VARIABLES
    splash,     \* the splash, its plugin and views
    plugged,    \* the screens that the device manager knows
    phase,      \* where the daemon is
    mode,       \* daemon->mode
    retain,     \* --retain-splash of the quit
    accepted,   \* history: the messages given to a details splash
    count       \* of each bounded kind

vars == <<splash, plugged, phase, mode, retain, accepted, count>>

TextTheme == {"text", "details"}
EndTheme == {"two-step", "space-flares", "script"}      \* have become_idle
ProgressTheme == EndTheme \cup {"text"}                 \* have on_boot_progress

(* create_plugin and ply_boot_splash_new, on displays in the state paused   *)
(* and a console in the state kernel and screen. useEnd and throbber are    *)
(* the theme's settings.                                                    *)
NewSplash(theme, useEnd, throbber) == [
    theme |-> theme, useEnd |-> useEnd, throbber |-> throbber,
    mode |-> "invalid", shown |-> FALSE, frames |-> FALSE, progress |-> FALSE,
    idle |-> "none", paused |-> [d \in Display |-> 0],
    pluginMode |-> "invalid", loop |-> FALSE, visible |-> FALSE,
    animating |-> FALSE, isIdle |-> FALSE, console |-> FALSE, prompt |-> FALSE,
    stop |-> -1, waiter |-> FALSE, timer |-> FALSE,
    keyboard |-> theme = "script", listening |-> FALSE,
    views |-> {}, view |-> [d \in Display |-> NewView],
    tty |-> theme \in TextTheme, screen |-> "blank", kernel |-> TRUE,
    queue |-> <<>>, written |-> <<>>,
    failed |-> FALSE, replaced |-> FALSE, lost |-> 0, left |-> {}, fault |-> {}]

Messages == Seq(Message)

SplashObject == [
    theme : Plugin, useEnd : BOOLEAN, throbber : BOOLEAN,
    mode : Mode \cup {"invalid"}, shown : BOOLEAN, frames : BOOLEAN,
    progress : BOOLEAN, idle : {"none", "waiting", "due", "dropped"},
    paused : [Display -> Int],
    pluginMode : Mode \cup {"invalid"}, loop : BOOLEAN, visible : BOOLEAN,
    animating : BOOLEAN, isIdle : BOOLEAN, console : BOOLEAN, prompt : BOOLEAN,
    stop : Int, waiter : BOOLEAN, timer : BOOLEAN,
    keyboard : BOOLEAN, listening : BOOLEAN,
    views : SUBSET Display, view : [Display -> View],
    tty : BOOLEAN, screen : {"blank", "splash", "prompt"}, kernel : BOOLEAN,
    queue : Messages, written : Messages,
    failed : BOOLEAN, replaced : BOOLEAN, lost : Nat,
    left : SUBSET {"throbber", "orphan", "frame", "plugin", "input"},
    fault : SUBSET {"no_trigger", "two_triggers"}]

TypeOK ==
    /\ splash \in SplashObject
    /\ plugged \subseteq Display
    /\ mode \in Mode
    /\ phase \in {"none", "running", "deactivating", "quitting", "inactive", "gone"}
    /\ retain \in BOOLEAN
    /\ accepted \in Messages

-----------------------------------------------------------------------------
(* plugin_interface of the shell: each plugin with its own functions        *)

PluginShow(s, m, loads) ==
    CASE s.theme = "two-step" -> ShowTwoStep(s, m, loads)
      [] s.theme = "fade-throbber" -> ShowFade(s, m, loads)
      [] s.theme = "space-flares" -> ShowFlares(s, m, loads)
      [] s.theme = "script" -> ShowScript(s, m)
      [] s.theme = "console-viewer" -> ShowConsoleViewer(s, m)
      [] s.theme = "text" -> ShowText(s, m)
      [] s.theme = "details" -> ShowDetails(s, m)

PluginHide(s) ==
    CASE s.theme = "two-step" -> HideTwoStep(s)
      [] s.theme = "fade-throbber" -> HideFade(s)
      [] s.theme = "space-flares" -> HideFlares(s)
      [] s.theme = "script" -> HideScript(s)
      [] s.theme = "console-viewer" -> HideConsoleViewer(s)
      [] s.theme = "text" -> HideText(s)
      [] s.theme = "details" -> HideDetails(s)

PluginDestroy(s) ==
    CASE s.theme = "two-step" -> DestroyTwoStep(s)
      [] s.theme = "fade-throbber" -> DestroyFade(s)
      [] s.theme = "space-flares" -> DestroyFlares(s)
      [] s.theme = "script" -> DestroyScript(s)
      [] s.theme = "text" -> DestroyText(s)
      [] s.theme = "details" -> DestroyDetails(s)
      [] OTHER -> s

DisplayPrompt(s) ==
    CASE s.theme = "two-step" -> TwoStepPrompt(s)
      [] s.theme = "fade-throbber" -> FadePrompt(s)
      [] s.theme = "space-flares" -> FlaresPrompt(s)
      [] s.theme = "script" -> ScriptPrompt(s)
      [] s.theme = "console-viewer" -> ConsoleViewerPrompt(s)
      [] s.theme = "text" -> TextDisplayPrompt(s)
      [] s.theme = "details" -> DetailsDisplayPrompt(s)

DisplayNormal(s) ==
    CASE s.theme = "two-step" -> TwoStepNormal(s)
      [] s.theme = "fade-throbber" -> FadeNormal(s)
      [] s.theme = "space-flares" -> FlaresNormal(s)
      [] s.theme = "script" -> ScriptNormal(s)
      [] s.theme = "console-viewer" -> ConsoleViewerNormal(s)
      [] s.theme = "text" -> TextDisplayNormal(s)
      [] s.theme = "details" -> DetailsDisplayNormal(s)

(* On pixel displays a message is a label, which changes nothing else. *)
DisplayMessage(s, msg) ==
    CASE s.theme = "text" -> TextDisplayMessage(s)
      [] s.theme = "details" -> DetailsDisplayMessage(s, msg)
      [] OTHER -> s

(* validate_input of the plugins that have one, for ESC *)
ValidateEscape(s) ==
    CASE s.theme = "two-step" -> TwoStepEscape(s)
      [] s.theme = "fade-throbber" -> FadeEscape(s)
      [] s.theme = "space-flares" -> FlaresEscape(s)
      [] s.theme = "script" -> ScriptEscape(s)

PluginBecomeIdle(s) ==
    CASE s.theme = "two-step" -> TwoStepBecomeIdle(s, TRUE)
      [] s.theme = "space-flares" -> FlaresBecomeIdle(s)
      [] s.theme = "script" -> ScriptBecomeIdle(s)

OnBootProgress(s, late) ==
    IF s.theme = "two-step" THEN TwoStepBootProgress(s, late) ELSE s

-----------------------------------------------------------------------------
(* The shell: ply-boot-splash.c                                             *)

(* ply_boot_splash_add_pixel_display of each of the screens ds *)
AddPixelDisplays(s, ds) ==
    LET t == [s EXCEPT !.paused = [d \in Display |->
                 IF s.shown /\ d \in ds THEN @[d] + 1 ELSE @[d]]]
    IN  IF s.theme \in TextTheme THEN s
        ELSE IF s.theme = "two-step" THEN AddToTwoStep(t, ds)
        ELSE [t EXCEPT !.views = @ \cup ds]

(* The shell of a text splash holds no pixel displays. *)
RemovePixelDisplays(s, ds) ==
    [ViewFree(s, ds \cap s.views) EXCEPT !.views = @ \ ds]

UnpausePixelDisplays(s) ==
    [s EXCEPT !.paused = [d \in Display |-> IF d \in s.views THEN @[d] - 1 ELSE @[d]]]

PausePixelDisplays(s) ==
    [s EXCEPT !.paused = [d \in Display |-> IF d \in s.views THEN @[d] + 1 ELSE @[d]]]

UpdateProgress(s, late) ==
    IF s.theme \notin ProgressTheme THEN s
    ELSE [OnBootProgress(s, late) EXCEPT !.progress = TRUE]

(* The displays of a splash that is shown are paused once.                  *)
HoldDisplays(s) ==
    IF s.shown THEN s
    ELSE [PausePixelDisplays(s) EXCEPT !.frames = TRUE, !.shown = TRUE]

(* ply_boot_splash_show; a splash of another mode is hidden first, and      *)
(* stays hidden and in its old mode when the new one cannot be shown.       *)
ShowSplash(s, m, loads) ==
    LET Hidden == [(IF s.mode = "invalid" THEN s
                    ELSE [PluginHide(s) EXCEPT !.progress = FALSE])
                      EXCEPT !.failed = FALSE]
        Finish(t) == IF t.failed THEN t
                     ELSE [UpdateProgress(HoldDisplays(t), FALSE) EXCEPT !.mode = m]
    IN  IF s.mode = m THEN s
        ELSE Then(Then(Hidden, LAMBDA h : PluginShow(h, m, loads)), Finish)

(* ply_boot_splash_hide *)
ReleaseDisplays(s) ==
    IF ~s.shown THEN s
    ELSE [UnpausePixelDisplays(s) EXCEPT !.frames = FALSE, !.shown = FALSE]

HideSplash(s) ==
    ReleaseDisplays([PluginHide(s) EXCEPT !.mode = "invalid", !.progress = FALSE])

(* ply_boot_splash_free: what is left are timeouts and handlers of it *)
LeaveBehind(s) ==
    [s EXCEPT !.idle = IF @ = "waiting" THEN "dropped" ELSE @,
              !.left = @ \cup (IF s.frames THEN {"frame"} ELSE {})
                         \cup (IF s.timer THEN {"plugin"} ELSE {})
                         \cup (IF s.listening THEN {"input"} ELSE {})]

FreeSplash(s) ==
    LET bare == [RemovePixelDisplays(s, s.views) EXCEPT
                    !.keyboard = FALSE, !.tty = FALSE, !.progress = FALSE]
    IN  Then(Then(bare, PluginDestroy), LeaveBehind)

(* ply_boot_splash_become_idle, with the last step of the boot progress *)
BecomeIdle(s) ==
    LET Ask(t) == IF s.theme \notin EndTheme THEN OnIdle(t)
                  ELSE Then([t EXCEPT !.idle = "waiting"], PluginBecomeIdle)
    IN  IF s.idle = "waiting" THEN Fault(s, "two_triggers")
        ELSE Then(OnBootProgress(s, TRUE), Ask)

-----------------------------------------------------------------------------
(* The daemon                                                               *)

Become(s) == \E t \in {s} : splash' = t

Alive == phase \notin {"none", "gone"} /\ splash.fault = {}

Count(kind, bound) ==
    /\ count[kind] < bound
    /\ count' = [count EXCEPT ![kind] = @ + 1]

Command == Count("command", MaxCommands)

(* plymouthd_update_display, with the prompts as the splash shows them *)
UpdateDisplay(s) == IF s.prompt THEN DisplayPrompt(s) ELSE DisplayNormal(s)

(* show_theme: the plugin on the screens ds, shown in mode m *)
ShowTheme(theme, useEnd, throbber, ds, m, loads) ==
    ShowSplash(AddPixelDisplays(NewSplash(theme, useEnd, throbber), ds), m, loads)

(* plymouthd_show_default_splash: the text splash is the last resort *)
OrTextSplash(s, ds, m) ==
    IF s.failed THEN ShowTheme("text", FALSE, FALSE, ds, m, TRUE) ELSE s

ShowDefaultSplash(theme, useEnd, throbber, ds, m, loads) ==
    LET first == ShowTheme(theme, useEnd, throbber, ds, m, loads)
    IN  Then(Then(first, LAMBDA s : OrTextSplash(s, ds, m)), DisplayNormal)

HandleShowSplash ==
    /\ phase = "none"
    /\ \E theme \in Theme, useEnd \in BOOLEAN, throbber \in BOOLEAN,
          ds \in Attached, m \in Mode, loads \in BOOLEAN :
           /\ theme = "two-step" \/ (~useEnd /\ ~throbber)
           /\ plugged' = ds
           /\ mode' = m
           /\ Become(ShowDefaultSplash(theme, useEnd, throbber, ds, m, loads))
    /\ phase' = "running"
    /\ UNCHANGED <<retain, accepted, count>>

(* plymouthd_handle_change_mode *)
HandleChangeMode ==
    /\ Alive /\ Command
    /\ \E m \in Mode, loads \in BOOLEAN :
           /\ mode' = m
           /\ Become(ShowSplash(splash, m, loads))
    /\ UNCHANGED <<plugged, phase, retain, accepted>>

AskForPassword ==
    /\ Alive /\ Command
    /\ Become(DisplayPrompt(splash))
    /\ UNCHANGED <<plugged, phase, mode, retain, accepted>>

(* The last prompt is answered, or its client left. *)
PromptEnds ==
    /\ Alive /\ splash.prompt
    /\ Become(DisplayNormal(splash))
    /\ UNCHANGED <<plugged, phase, mode, retain, accepted, count>>

(* plymouthd_messages_display *)
HandleDisplayMessage ==
    /\ Alive /\ Command
    /\ splash.theme \in TextTheme
    /\ \E msg \in Message :
           /\ Become(DisplayMessage(splash, msg))
           /\ accepted' = IF splash.theme = "details"
                          THEN Append(accepted, msg) ELSE accepted
    /\ UNCHANGED <<plugged, phase, mode, retain>>

(* ESC, validated by the plugin; the keyboards are closed while the daemon  *)
(* waits.                                                                   *)
OnEscape ==
    /\ Alive /\ Command
    /\ phase = "running"
    /\ splash.theme \in {"two-step", "fade-throbber", "space-flares", "script"}
    /\ Become(ValidateEscape(splash))
    /\ UNCHANGED <<plugged, phase, mode, retain, accepted>>

(* ply_boot_splash_update_progress, by its timer *)
OnUpdateProgress ==
    /\ Alive /\ splash.progress
    /\ \E late \in BOOLEAN : Become(UpdateProgress(splash, late))
    /\ UNCHANGED <<plugged, phase, mode, retain, accepted, count>>

(* plymouthd_toggle_details, on the screens that are plugged now *)
ToggleDetails ==
    /\ Alive /\ phase = "running"
    /\ Count("reload", MaxReloads)
    /\ LET old == FreeSplash(HideSplash(splash))
           new == IF splash.theme = "details"
                  THEN ShowDefaultSplash("fade-throbber", FALSE, FALSE, plugged,
                                         mode, TRUE)
                  ELSE DisplayNormal(ShowTheme("details", FALSE, FALSE, plugged,
                                               mode, TRUE))
       IN  Become([(IF splash.prompt THEN Then(new, DisplayPrompt) ELSE new)
                      EXCEPT !.left = old.left, !.fault = old.fault,
                             !.paused = [d \in Display |-> @[d] + old.paused[d]]])
    /\ accepted' = <<>>
    /\ UNCHANGED <<plugged, phase, mode, retain>>

(* The device manager is paused while the daemon deactivates. *)
Watching == Alive /\ phase \in {"running", "quitting"}

(* plymouthd_handle_pixel_display_added *)
PlugScreen(d) ==
    /\ Watching /\ d \notin plugged
    /\ Count("plug", MaxPlugs)
    /\ plugged' = plugged \cup {d}
    /\ Become(Then(AddPixelDisplays(splash, {d}), UpdateDisplay))
    /\ UNCHANGED <<phase, mode, retain, accepted>>

(* plymouthd_handle_pixel_display_removed *)
UnplugScreen(d) ==
    /\ Watching /\ d \in plugged
    /\ Count("plug", MaxPlugs)
    /\ plugged' = plugged \ {d}
    /\ Become([RemovePixelDisplays(splash, {d}) EXCEPT !.paused[d] = 0])
    /\ UNCHANGED <<phase, mode, retain, accepted>>

HandleDeactivate ==
    /\ Alive /\ Command
    /\ phase = "running"
    /\ Become(BecomeIdle(splash))
    /\ phase' = "deactivating"
    /\ UNCHANGED <<plugged, mode, retain, accepted>>

HandleReactivate ==
    /\ Alive /\ phase = "inactive"
    /\ Become(UpdateDisplay(splash))
    /\ phase' = "running"
    /\ UNCHANGED <<plugged, mode, retain, accepted, count>>

(* The first quit, or one that overtakes a deactivation *)
HandleQuit(keep) ==
    /\ Alive /\ Command
    /\ phase \in {"running", "deactivating", "inactive"}
    /\ retain' = keep
    /\ IF phase = "inactive" /\ ~keep
       THEN /\ Become(Then(HideSplash(splash), FreeSplash))
            /\ phase' = "gone"
       ELSE /\ Become(IF phase = "deactivating" THEN splash ELSE BecomeIdle(splash))
            /\ phase' = "quitting"
    /\ UNCHANGED <<plugged, mode, accepted>>

(* plymouthd_handle_hide_splash *)
HandleHideSplash ==
    /\ Alive /\ Command
    /\ phase # "inactive"
    /\ Become(Then(HideSplash(splash), FreeSplash))
    /\ phase' = "gone"
    /\ UNCHANGED <<plugged, mode, retain, accepted>>

(* on_boot_splash_idle of plymouthd-control.c, 10 ms after the idle trigger *)
OnBootSplashIdle ==
    /\ Alive /\ splash.idle = "due"
    /\ LET s == [splash EXCEPT !.idle = "none"]
       IN  IF phase = "quitting"
           THEN /\ Become(Then(IF retain THEN s ELSE HideSplash(s), FreeSplash))
                /\ phase' = "gone"
           ELSE /\ Become(s)
                /\ phase' = "inactive"
    /\ UNCHANGED <<plugged, mode, retain, accepted, count>>

OnThrobberTimeout(d) ==
    /\ Alive /\ splash.view[d].spinning
    /\ \E f \in 0 .. LastFrame :
           /\ f # splash.view[d].frame
           /\ Become([splash EXCEPT !.view[d] = ThrobberTimeout(@, f)])
    /\ UNCHANGED <<plugged, phase, mode, retain, accepted, count>>

OnAnimationTimeout(d) ==
    /\ Alive /\ splash.view[d].anim \in {"running", "stopping"}
    /\ Become(AnimationTimeout(splash, d))
    /\ UNCHANGED <<plugged, phase, mode, retain, accepted, count>>

OnOrphanTimeout(d) ==
    /\ Alive /\ splash.view[d].orphans > 0
    /\ Become(OrphanTimeout(splash, d))
    /\ UNCHANGED <<plugged, phase, mode, retain, accepted, count>>

Init ==
    /\ splash = NewSplash("text", FALSE, FALSE)
    /\ plugged = {}
    /\ phase = "none"
    /\ mode = "boot-up"
    /\ retain = FALSE
    /\ accepted = <<>>
    /\ count = [k \in {"command", "plug", "reload"} |-> 0]

Timeout ==
    \/ OnBootSplashIdle
    \/ \E d \in Display : \/ OnThrobberTimeout(d)
                          \/ OnAnimationTimeout(d)
                          \/ OnOrphanTimeout(d)

Next ==
    \/ HandleShowSplash \/ HandleChangeMode \/ AskForPassword \/ PromptEnds
    \/ HandleDisplayMessage \/ OnEscape \/ OnUpdateProgress \/ ToggleDetails
    \/ \E d \in Display : PlugScreen(d) \/ UnplugScreen(d)
    \/ HandleDeactivate \/ HandleReactivate \/ HandleHideSplash
    \/ \E keep \in BOOLEAN : HandleQuit(keep)
    \/ Timeout

(* Every timeout of the event loop runs when it is due. *)
Fairness ==
    /\ WF_vars(OnBootSplashIdle)
    /\ \A d \in Display : /\ WF_vars(OnThrobberTimeout(d))
                          /\ WF_vars(OnAnimationTimeout(d))
                          /\ WF_vars(OnOrphanTimeout(d))

Spec == Init /\ [][Next]_vars /\ Fairness
-----------------------------------------------------------------------------
(* Properties                                                               *)

(* A daemon that waits for its splash to become idle gets its answer,       *)
(* through prompts, mode changes and every order of the timeouts, unless    *)
(* the answer was lost with an unplugged screen or a forgotten trigger, the *)
(* new mode could not be shown, or a prompt or the console keeps the        *)
(* throbbers still.                                                         *)
Excused ==
    \/ splash.lost > 0 \/ \E d \in Display : splash.view[d].forgot > 0
    \/ splash.replaced \/ splash.failed \/ splash.fault # {}
    \/ splash.prompt \/ splash.console

IdleIsReached ==
    phase \in {"deactivating", "quitting"}
        ~> (phase \in {"inactive", "gone"} \/ Excused)

(* plugin->stop_trigger waits for exactly the pulls that throbbers, end     *)
(* animations and dropped animations still owe, and those that were lost:   *)
(* one too many and the splash is never idle, one too few and it is idle in *)
(* mid-animation.                                                           *)
PullsArePaired == splash.stop + 1 = splash.lost + OwedIn(splash.view, Display)

(* While a two-step splash that is not yet idle animates with throbbers,    *)
(* each of its screens, the hotplugged ones too, has its throbber or its    *)
(* end animation.                                                           *)
ScreensTakePart ==
    splash.theme = "two-step" /\ splash.visible /\ splash.animating
    /\ splash.throbber /\ splash.useEnd
        => \A d \in splash.views :
               splash.view[d].spinning \/ splash.view[d].anim # "stopped"

(* A splash that is hidden, and one that shows a prompt or the console on a *)
(* theme that stops for them, has no timer and no throbber that would draw. *)
(* Of its end animations one that has to pull a trigger draws a last time,  *)
(* and those run on that it was asked for when it had stopped already, for  *)
(* become_idle does not look, and those that view_load dropped.             *)
HiddenIsQuiet ==
    LET stops == splash.theme \in {"two-step", "fade-throbber", "space-flares", "script"}
    IN  phase # "none" /\ (~splash.loop \/ (stops /\ ~splash.animating))
            => /\ ~splash.timer
               /\ \A d \in Display :
                      /\ ~splash.view[d].spinning
                      /\ splash.view[d].anim = "running" => splash.view[d].still

(* Displays are paused once while the splash is shown, and not at all       *)
(* before and afterwards.                                                   *)
PausedWhileShown ==
    phase # "gone" => \A d \in plugged :
        splash.paused[d] = IF splash.shown /\ d \in splash.views THEN 1 ELSE 0

(* What the splash counts for its screens is what they owe and are owed.    *)
SplashIsSound ==
    /\ TypeOK
    /\ PullsArePaired
    /\ PausedWhileShown

(* A splash that is gone, and was hidden first, leaves no timeout and no    *)
(* handler behind but those of the end animations that view_load dropped,   *)
(* and the kernel may write on the console again. With --retain-splash the  *)
(* frame timer and the timers of two themes stay.                           *)
GoneLeavesNothing ==
    phase = "gone" =>
        \/ splash.left \subseteq {"orphan"} /\ splash.kernel
           /\ \A d \in plugged : splash.paused[d] = 0
        \/ retain /\ splash.left \subseteq {"orphan", "frame", "plugin", "input"}

(* The details splash writes every message, in order, before or after the   *)
(* prompt that is open.                                                     *)
MessagesAreKept ==
    phase \notin {"none", "gone"} /\ splash.theme = "details"
        => /\ splash.written \o splash.queue = accepted
           /\ ~splash.prompt => splash.queue = <<>>
=============================================================================
