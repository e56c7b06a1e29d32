----------------------------- MODULE TwoStep -----------------------------
(***************************************************************************)
(* The two-step splash plugin with its throbbers and end animations, as    *)
(* functions on the splash s that Splash keeps. A plugin that has to stop  *)
(* makes every view stop its throbber and play its end animation, and      *)
(* counts the views with plugin->stop_trigger.                             *)
(***************************************************************************)
EXTENDS Integers, Sequences, FiniteSets, FiniteSetsExt

CONSTANTS
    Display,    \* the screens
    EndFrames   \* the length of the end animation

ASSUME TwoStepAssumption ==
    /\ IsFiniteSet(Display)
    /\ EndFrames \in Nat \ {0}

ShutdownMode == {"shutdown"}            \* with reboot
UpdateMode == {"updates"}               \* mode_uses_system_update
Mode == {"boot-up"} \cup ShutdownMode \cup UpdateMode

View == [
    spinning : BOOLEAN,         \* ~throbber->is_stopped
    frame    : 0 .. 2,          \* throbber->frame_number, of three frames
    held     : BOOLEAN,         \* throbber->stop_trigger is set
    due      : BOOLEAN,         \* view->end_trigger is set
    anim     : {"stopped", "running", "stopping", "ended"},
    step     : 0 .. EndFrames,  \* end_animation->frame_number
    pays     : BOOLEAN,         \* end_animation->stop_trigger is set
    still    : BOOLEAN,         \* history: asked for it while nothing animated
    orphans  : Nat,             \* running animations that view_load dropped
    forgot   : Nat,             \* history: triggers that no animation took
    entry    : BOOLEAN,         \* entry and caps lock icon are shown
    viewer   : BOOLEAN,         \* the console viewer is shown
    scene    : BOOLEAN,         \* space-flares: the sprites exist
    drawn    : BOOLEAN ]        \* drawn as a whole since it was added

NewView == [
    spinning |-> FALSE, frame |-> 0, held |-> FALSE, due |-> FALSE,
    anim |-> "stopped", step |-> 0, pays |-> FALSE, still |-> FALSE,
    orphans |-> 0, forgot |-> 0,
    entry |-> FALSE, viewer |-> FALSE, scene |-> FALSE, drawn |-> FALSE]

LastFrame == 2

(* F of the splash that s is: TLC evaluates s once, however often F uses it. *)
Then(s, F(_)) == CHOOSE r \in {F(x) : x \in {s}} : TRUE

(* F on every view: no view looks at another.                               *)
ForViews(F(_), s) ==
    [s EXCEPT !.view = [d \in Display |-> IF d \in s.views THEN F(s.view[d])
                                                           ELSE s.view[d]]]

(* A failed assertion: "no_trigger" of trigger != NULL, and "two_triggers"  *)
(* of idle_trigger == NULL.                                                 *)
Fault(s, what) == [s EXCEPT !.fault = @ \cup {what}]

(* The pulls that the stop trigger waits for on behalf of a view: those that *)
(* it, its end animation and those that it dropped still owe, and those     *)
(* that nobody will do.                                                     *)
Owes(v) ==
    (IF v.due THEN 1 ELSE 0) + (IF v.pays THEN 1 ELSE 0) + v.orphans + v.forgot

OwedIn(view, ds) == MapThenSumSet(LAMBDA d : Owes(view[d]), ds)

-----------------------------------------------------------------------------
(* The stop trigger and the idle trigger                                    *)

(* The idle trigger is pulled: on_idle of ply-boot-splash.c. *)
OnIdle(s) == [s EXCEPT !.idle = "due"]

OnAnimationStopped(s) ==
    LET t == [s EXCEPT !.waiter = FALSE, !.isIdle = TRUE]
    IN  IF s.waiter THEN OnIdle(t) ELSE t

(* ply_trigger_pull of plugin->stop_trigger, which ignores s.stop pulls *)
PullStopTrigger(s) ==
    Then(s, LAMBDA t : IF t.stop > 0 THEN [t EXCEPT !.stop = @ - 1]
                       ELSE [OnAnimationStopped(t) EXCEPT !.stop = -1])

-----------------------------------------------------------------------------
(* ply-animation.c *)

(* An animation that came to its end is not stopped: starting it again does *)
(* nothing, and the trigger is forgotten.                                   *)
AnimationStart(v, trigger) ==
    IF v.anim # "stopped"
    THEN [v EXCEPT !.forgot = IF trigger THEN @ + 1 ELSE @]
    ELSE [v EXCEPT !.anim = "running", !.pays = trigger]

AnimationStop(v) ==
    IF v.anim = "stopped" THEN v
    ELSE [v EXCEPT !.anim = IF v.pays THEN "stopping" ELSE "stopped"]

(* Its on_timeout *)
Over(v) == v.step = EndFrames \/ v.anim = "stopping"

AnimationStep(v) ==
    [v EXCEPT !.step = IF @ = EndFrames THEN @ ELSE @ + 1,
              !.anim = IF Over(v) THEN "ended" ELSE @,
              !.pays = @ /\ ~Over(v)]

AnimationTimeout(s, d) ==
    LET t == [s EXCEPT !.view[d] = AnimationStep(@)]
    IN  IF Over(s.view[d]) /\ s.view[d].pays THEN PullStopTrigger(t) ELSE t

(* The last on_timeout of an animation that no view points to any more *)
OrphanTimeout(s, d) == PullStopTrigger([s EXCEPT !.view[d].orphans = @ - 1])

-----------------------------------------------------------------------------
(* Views and ply-throbber.c *)

ViewStartEndAnimation(v, trigger) == AnimationStart(v, trigger)

OnViewThrobberStopped(v) ==
    ViewStartEndAnimation([v EXCEPT !.due = FALSE], v.due)

(* ply_throbber_stop with a trigger *)
ThrobberStop(v) ==
    IF v.spinning THEN [v EXCEPT !.held = TRUE] ELSE OnViewThrobberStopped(v)

(* ply_throbber_stop without one; its old stop trigger stays *)
ThrobberStopNow(v) == [v EXCEPT !.spinning = FALSE]

(* Bug: the frame the clock asks for is shown, although it is past the end. *)
ThrobberFrameOfClock(v, f) == f

(* animate_at_time: a throbber that has to stop does not skip its last frame *)
ThrobberFrame(v, f) == IF v.held /\ v.frame > f THEN LastFrame ELSE f

(* Its on_timeout, at a time for which the frame is f *)
ThrobberTimeout(v, f) ==
    LET n == ThrobberFrame(v, f)
        stops == v.held /\ n = LastFrame
        w == [v EXCEPT !.frame = n, !.spinning = ~stops, !.held = @ /\ ~stops]
    IN  IF stops THEN OnViewThrobberStopped(w) ELSE w

(* view_load_end_animation: the end animation is a new one, and an old one  *)
(* that runs is left to itself.                                             *)
LoadEndAnimation(v) ==
    [v EXCEPT !.orphans = IF v.pays THEN @ + 1 ELSE @,
              !.anim = "stopped", !.step = 0, !.pays = FALSE]

(* view_start_progress_animation, with ply_throbber_start                   *)
ViewStartProgressAnimation(v, throbber) ==
    [v EXCEPT !.spinning = @ \/ throbber, !.drawn = TRUE]

(* What is forgotten with the views of ds. *)
Forget(s, ds) ==
    [s EXCEPT !.lost = @ + OwedIn(s.view, ds),
              !.view = [d \in Display |-> IF d \in ds THEN NewView ELSE @[d]]]

(* Bug: the throbber's timeout stays. *)
ViewFreeButThrobber(s, ds) ==
    [Forget(s, ds) EXCEPT
        !.left = IF \E d \in ds : s.view[d].spinning THEN @ \cup {"throbber"} ELSE @]

(* view_free of the views of ds stops every timeout of theirs and pulls no  *)
(* trigger. The animations that view_load dropped go on, on a display that  *)
(* is freed.                                                                *)
ViewFree(s, ds) ==
    [Forget(s, ds) EXCEPT
        !.left = IF \E d \in ds : s.view[d].orphans > 0 THEN @ \cup {"orphan"} ELSE @]

(* The whole screen of the view is drawn. *)
ViewRedraw(v) == [v EXCEPT !.drawn = TRUE]

ViewShowPrompt(v) == [ViewRedraw(v) EXCEPT !.entry = TRUE]

ViewHidePrompt(v) == [ViewRedraw(v) EXCEPT !.entry = FALSE]

ViewShowConsole(v) == [ViewRedraw(v) EXCEPT !.viewer = TRUE]

ViewHideConsole(v) == [ViewRedraw(v) EXCEPT !.viewer = FALSE]

-----------------------------------------------------------------------------
(* What the plugins on pixel displays share. Start and Stop are the         *)
(* animation of the plugin.                                                 *)

(* display_console_messages, with a console viewer in the build *)
DisplayConsole(s, Stop(_)) ==
    ForViews(ViewShowConsole, IF s.console THEN Stop(s) ELSE s)

(* display_password and display_question *)
DisplayPromptOver(s, Stop(_)) ==
    LET t == [ForViews(ViewShowPrompt, IF s.prompt THEN s ELSE Stop(s))
                 EXCEPT !.prompt = TRUE]
    IN  IF s.console THEN DisplayConsole(t, Stop) ELSE t

(* display_normal *)
DisplayNormalOver(s, Start(_), Stop(_)) ==
    LET t == [(IF s.prompt THEN ForViews(ViewHidePrompt, s) ELSE s)
                 EXCEPT !.prompt = FALSE]
    IN  IF s.console THEN DisplayConsole(t, Stop)
        ELSE ForViews(ViewRedraw, Start(t))

(* toggle_console_messages, when ESC is typed *)
ToggleConsole(s, Start(_), Stop(_)) ==
    LET t == [ForViews(ViewHideConsole, s) EXCEPT !.console = FALSE]
    IN  IF ~s.console THEN DisplayConsole([s EXCEPT !.console = TRUE], Stop)
        ELSE IF s.prompt THEN t ELSE Start(t)

(* hide_splash_screen *)
HideOver(s, Stop(_)) ==
    [(IF s.loop THEN Stop(s) ELSE s) EXCEPT !.loop = FALSE, !.visible = FALSE]

-----------------------------------------------------------------------------
(* The plugin                                                               *)

(* Bug: the views are not counted before they are asked to stop. *)
StartEndAnimationUncounted(s) ==
    PullStopTrigger(ForViews(LAMBDA v : ThrobberStop([v EXCEPT !.due = TRUE]), s))

StartEndAnimation(s) ==
    LET Ask(v) == IF s.throbber THEN ThrobberStop([v EXCEPT !.due = TRUE])
                                ELSE ViewStartEndAnimation(v, TRUE)
        Asked(v) == [Ask(v) EXCEPT !.still = ~s.animating]
        counted == [s EXCEPT !.stop = @ + Cardinality(s.views)]
    IN  PullStopTrigger(IF s.useEnd THEN ForViews(Asked, counted)
                        ELSE ForViews(ThrobberStopNow, s))

(* become_idle of the plugin, with or without an idle trigger *)
TwoStepBecomeIdle(s, trigger) ==
    LET t == [s EXCEPT !.replaced = @ \/ s.waiter, !.waiter = trigger]
    IN  IF s.isIdle
        THEN IF trigger THEN OnIdle(s) ELSE Fault(s, "no_trigger")
        ELSE IF s.stop = -1 THEN StartEndAnimation([t EXCEPT !.stop = 0]) ELSE t

(* start_progress_animation; a shutdown goes to the end animation at once *)
StartProgressAnimation(s) ==
    LET Started(v) == ViewStartProgressAnimation(v, s.throbber)
        t == [ForViews(Started, s) EXCEPT !.animating = TRUE,
                                          !.isIdle = @ /\ s.views = {}]
    IN  IF s.animating THEN s
        ELSE IF s.useEnd /\ s.pluginMode \in ShutdownMode
        THEN TwoStepBecomeIdle(t, FALSE)
        ELSE t

(* Bug: the end animations of the views are not stopped. *)
StopTwoStepButAnimations(s) ==
    IF ~s.animating THEN s
    ELSE ForViews(ThrobberStopNow, [s EXCEPT !.animating = FALSE])

(* stop_animation *)
StopTwoStep(s) ==
    LET StopView(v) == AnimationStop(ThrobberStopNow(v))
    IN  IF ~s.animating THEN s
        ELSE ForViews(StopView, [s EXCEPT !.animating = FALSE])

(* on_boot_progress; late: past show_animation_fraction *)
TwoStepBootProgress(s, late) ==
    IF s.pluginMode \in UpdateMode \/ s.prompt \/ s.isIdle \/ ~late \/ ~s.useEnd
       \/ s.stop # -1
    THEN s
    ELSE StartEndAnimation([s EXCEPT !.stop = 0])

(* show_splash_screen and load_views; loads: every image can be loaded *)
ShowTwoStep(s, m, loads) ==
    LET t == [s EXCEPT !.loop = TRUE, !.pluginMode = m]
    IN  IF ~loads \/ s.views = {} THEN [t EXCEPT !.failed = TRUE]
        ELSE [StartProgressAnimation(IF s.useEnd THEN ForViews(LoadEndAnimation, t)
                                     ELSE t)
                  EXCEPT !.visible = TRUE]

TwoStepPrompt(s) == DisplayPromptOver(s, StopTwoStep)

TwoStepNormal(s) == DisplayNormalOver(s, StartProgressAnimation, StopTwoStep)

TwoStepEscape(s) == ToggleConsole(s, StartProgressAnimation, StopTwoStep)

HideTwoStep(s) == HideOver(s, StopTwoStep)

DestroyTwoStep(s) == IF s.loop THEN StopTwoStep(s) ELSE s

(* Bug: the screens are not started with the others. *)
AddToTwoStepUnstarted(s, ds) == [s EXCEPT !.views = @ \cup ds]

(* add_pixel_display, of the screens ds *)
AddToTwoStep(s, ds) ==
    LET starts == s.visible /\ s.animating
    IN  [s EXCEPT !.views = @ \cup ds,
                  !.isIdle = @ /\ ~(starts /\ ds # {}),
                  !.view = [d \in Display |->
                      IF starts /\ d \in ds
                      THEN ViewStartProgressAnimation(@[d], s.throbber) ELSE @[d]]]
=============================================================================
