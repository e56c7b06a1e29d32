---------------------------- MODULE PlainThemes ----------------------------
(***************************************************************************)
(* The splash plugins that do not play to an end: fade-throbber,           *)
(* space-flares, script and console-viewer on pixel displays, text (and    *)
(* tribar, which only draws another bar) and details on text displays.     *)
(* They are functions on the splash s of TwoStep.                          *)
(***************************************************************************)
EXTENDS TwoStep

Message == {"m1", "m2"}

-----------------------------------------------------------------------------
(* fade-throbber *)

StartFade(s) ==
    IF s.animating THEN s
    ELSE [ForViews(ViewRedraw, s) EXCEPT
             !.animating = TRUE,
             !.timer = s.pluginMode \notin ShutdownMode]

StopFade(s) ==
    IF ~s.animating THEN s
    ELSE [s EXCEPT !.animating = FALSE, !.timer = FALSE]

ShowFade(s, m, loads) ==
    LET t == [s EXCEPT !.loop = TRUE, !.pluginMode = m]
    IN  IF ~loads \/ s.views = {} THEN [t EXCEPT !.failed = TRUE]
        ELSE StartFade([t EXCEPT !.visible = TRUE])

FadePrompt(s) == DisplayPromptOver(s, StopFade)

FadeNormal(s) == DisplayNormalOver(s, StartFade, StopFade)

FadeEscape(s) == ToggleConsole(s, StartFade, StopFade)

HideFade(s) == HideOver(s, StopFade)

(* destroy_plugin does not stop the animation. *)
DestroyFade(s) == s

-----------------------------------------------------------------------------
(* space-flares *)

ViewStartAnimation(v) == [v EXCEPT !.scene = TRUE, !.drawn = TRUE]

ViewFreeSprites(v) == [v EXCEPT !.scene = FALSE]

StartFlares(s) ==
    IF s.animating THEN s
    ELSE [ForViews(ViewStartAnimation, s) EXCEPT
             !.animating = TRUE, !.timer = TRUE]

StopFlares(s) ==
    IF ~s.animating THEN s
    ELSE ForViews(ViewFreeSprites,
             [s EXCEPT !.animating = FALSE, !.timer = FALSE])

ShowFlares(s, m, loads) ==
    LET t == [s EXCEPT !.loop = TRUE, !.pluginMode = m]
    IN  IF ~loads \/ s.views = {} THEN [t EXCEPT !.failed = TRUE]
        ELSE [StartFlares(t) EXCEPT !.visible = TRUE]

FlaresBecomeIdle(s) == OnIdle(StopFlares(s))

FlaresPrompt(s) == DisplayPromptOver(s, StopFlares)

FlaresNormal(s) == DisplayNormalOver(s, StartFlares, StopFlares)

FlaresEscape(s) == ToggleConsole(s, StartFlares, StopFlares)

HideFlares(s) == HideOver(s, StopFlares)

(* destroy_plugin does not stop the animation. *)
DestroyFlares(s) == s

-----------------------------------------------------------------------------
(* script: it animates until it is hidden, prompts and the console too. Its *)
(* stop forgets the keyboard that the shell gave it.                        *)

StartScript(s) ==
    IF s.animating THEN s
    ELSE [s EXCEPT !.animating = TRUE, !.timer = TRUE,
                   !.listening = @ \/ s.keyboard]

StopScript(s) ==
    IF ~s.animating THEN s
    ELSE [s EXCEPT !.animating = FALSE, !.timer = FALSE,
                   !.listening = @ /\ ~s.keyboard, !.keyboard = FALSE]

ShowScript(s, m) ==
    IF s.views = {} THEN [s EXCEPT !.failed = TRUE]
    ELSE StartScript([s EXCEPT !.loop = TRUE, !.pluginMode = m,
                               !.console = FALSE])

(* What the script draws for a prompt is up to the script. *)
ScriptPrompt(s) == [ForViews(ViewRedraw, s) EXCEPT !.prompt = TRUE]

ScriptNormal(s) == [ForViews(ViewRedraw, s) EXCEPT !.prompt = FALSE]

ScriptEscape(s) ==
    IF s.console THEN [ForViews(ViewHideConsole, s) EXCEPT !.console = FALSE]
    ELSE [ForViews(ViewShowConsole, s) EXCEPT !.console = TRUE]

HideScript(s) == IF s.loop THEN [StopScript(s) EXCEPT !.loop = FALSE] ELSE s

DestroyScript(s) == HideScript(s)

ScriptBecomeIdle(s) == OnIdle(s)

-----------------------------------------------------------------------------
(* console-viewer: nothing but the viewers, and nothing animates.           *)

ShowConsoleViewer(s, m) ==
    [s EXCEPT !.loop = TRUE, !.pluginMode = m, !.visible = TRUE]

ConsoleViewerPrompt(s) == [ForViews(ViewShowConsole, s) EXCEPT !.prompt = TRUE]

ConsoleViewerNormal(s) == [ForViews(ViewShowConsole, s) EXCEPT !.prompt = FALSE]

HideConsoleViewer(s) == [s EXCEPT !.loop = FALSE, !.visible = FALSE]

-----------------------------------------------------------------------------
(* text: s.screen is what its terminals show, s.kernel whether the kernel   *)
(* may write on the console.                                                *)

OnScreen(s, what) == [s EXCEPT !.screen = IF s.tty THEN what ELSE @]

StartText(s) == [OnScreen(s, "splash") EXCEPT !.animating = TRUE]

StopText(s) ==
    IF ~s.animating THEN s
    ELSE [OnScreen(s, "blank") EXCEPT !.animating = FALSE]

ShowText(s, m) ==
    StartText([s EXCEPT !.loop = TRUE, !.pluginMode = m, !.kernel = FALSE])

HideText(s) ==
    [OnScreen(IF s.loop THEN StopText(s) ELSE s, "blank")
        EXCEPT !.loop = FALSE, !.kernel = TRUE]

(* Its destroy_plugin hides the splash, but its displays are gone by then.  *)
DestroyText(s) == HideText(s)

TextDisplayPrompt(s) ==
    LET t == IF s.prompt THEN s ELSE StopText(s)
    IN  [OnScreen(t, "prompt") EXCEPT !.prompt = TRUE]

TextDisplayNormal(s) ==
    IF ~s.prompt THEN s
    ELSE [StartText(s) EXCEPT !.prompt = FALSE]

(* A message clears the screen, whatever was on it. *)
TextDisplayMessage(s) == StartText(s)

-----------------------------------------------------------------------------
(* details: s.written are the messages on the terminals, s.queue those that *)
(* wait until the prompt is answered.                                       *)

ShowDetails(s, m) ==
    [s EXCEPT !.loop = TRUE, !.pluginMode = m, !.kernel = FALSE]

HideDetails(s) == [s EXCEPT !.loop = FALSE, !.kernel = TRUE]

DestroyDetails(s) == [s EXCEPT !.loop = FALSE, !.queue = <<>>]

DetailsDisplayPrompt(s) == [s EXCEPT !.prompt = TRUE]

(* Bug: the waiting messages are not written. *)
DetailsDisplayNormalOnly(s) == [s EXCEPT !.prompt = FALSE]

DetailsDisplayNormal(s) ==
    [s EXCEPT !.prompt = FALSE, !.written = @ \o s.queue, !.queue = <<>>]

DetailsDisplayMessage(s, msg) ==
    IF s.prompt THEN [s EXCEPT !.queue = Append(@, msg)]
    ELSE [s EXCEPT !.written = Append(@, msg)]
=============================================================================
