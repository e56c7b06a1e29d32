------------------------------- MODULE Daemon -------------------------------
(***************************************************************************)
(* The control plane of plymouthd (src/src/daemon): showing, hiding and    *)
(* toggling the splash, going idle, deactivating, reactivating, quitting.  *)
(*                                                                         *)
(* plymouthd is one thread that runs handlers from an event loop, so one   *)
(* action is one handler.  Every C helper that changes state is an         *)
(* operator from a state record to the next one, and a handler is their    *)
(* composition in the order of the calls.                                  *)
(***************************************************************************)
EXTENDS Naturals

CONSTANTS
    Trigger,        \* the ply_trigger_t of each quit or deactivate request
    Mode,           \* the boot splash modes a daemon may be told to enter
    BootUp,         \* PLY_BOOT_SPLASH_MODE_BOOT_UP
    PowerOff        \* the shutdown and reboot modes

ASSUME ModeAssumption == BootUp \in Mode /\ PowerOff \subseteq Mode \ {BootUp}

VARIABLES
    daemon,         \* plymouthd_t and the objects it owns, a record (State)
    phase           \* where the event loop is

vars == <<daemon, phase>>

-----------------------------------------------------------------------------
(* "none" is a NULL boot_splash; "text" is a theme that drives only text    *)
(* displays (details, text, tribar), whose plugin has no become_idle;       *)
(* "graphical" is a theme that has add_pixel_display.                       *)
Splash == {"none", "text", "graphical"}

(* What loading a theme leaves.  "fallback": a graphical theme activated    *)
(* the renderers, failed to show, was freed, and a text theme was loaded.   *)
Outcome == {"text", "graphical", "fallback"}

(* The delay before the first show: "waiting" and "scheduled" have time     *)
(* left, "overdue" has none but its timeout is still registered, and "over" *)
(* is cancelled or elapsed.                                                 *)
Delay == {"waiting", "scheduled", "overdue", "over"}

(* An idle request: "animating" until the plugin pulls the idle trigger,    *)
(* "lost" when the plugin forgot it, "timer" when the 10 ms timeout that    *)
(* calls the daemon back is registered with the event loop.                 *)
Idle == {"none", "animating", "lost", "timer"}

(* The frame timeout of a splash; it holds a pointer to the splash.         *)
Frames == {"off", "on", "dangling"}

State == [
    mode           : Mode,
    showDefault    : BOOLEAN,  \* plymouthd_splash_should_show_default
    shouldAttach   : BOOLEAN,  \* session->should_attach
    ignoreShow     : BOOLEAN,  \* plymouth.ignore-show-splash
    quitters       : SUBSET Trigger,  \* quit_trigger and those chained to it
    deactivators   : SUBSET Trigger,  \* deactivate_trigger and its chain
    pulled         : [Trigger -> 0..2],  \* times each trigger was pulled
    retain         : BOOLEAN,  \* transition->retain_splash
    becomingIdle   : BOOLEAN,
    inactive       : BOOLEAN,
    splash         : Splash,
    idle           : Idle,
    frames         : Frames,
    shown          : BOOLEAN,  \* splash->is_shown
    showingDetails : BOOLEAN,
    delay          : Delay,
    devices        : BOOLEAN,  \* daemon->devices is not NULL
    displays       : BOOLEAN,  \* plymouthd_devices_has_displays
    keyboards      : BOOLEAN,  \* keyboards are watched for input
    renderers      : BOOLEAN,  \* renderers are activated
    paused         : BOOLEAN,  \* udev is not watched
    deviceTimeout  : BOOLEAN,  \* device_timeout_elapsed
    tty            : BOOLEAN,  \* the local console terminal is open
    terminal       : BOOLEAN,  \* session->terminal_session is not NULL
    attached       : BOOLEAN,  \* session->attached
    output         : BOOLEAN,  \* daemon->output is not NULL
    exiting        : BOOLEAN,  \* the loop's should_exit
    fault          : BOOLEAN,  \* a NULL or freed pointer was used
    aborted        : BOOLEAN ] \* an assert failed

Phase == {"timeouts", "events", "stopped", "crashed"}

TypeOK == daemon \in State /\ phase \in Phase

Fault(s) == [s EXCEPT !.fault = TRUE]

(* Every wrapper of plymouthd-devices.c follows the devices pointer.        *)
OnDevices(s, t) == IF s.devices THEN t ELSE Fault(s)

-----------------------------------------------------------------------------
(* plymouthd-splash-delay.c, plymouthd-splash.c, ply-boot-splash.c          *)

CancelPendingShow(s) == [s EXCEPT !.delay = "over"]

HasTimeLeft(s) == s.delay \in {"waiting", "scheduled"}

UsesPixelDisplays(s) == s.splash = "graphical"

(* ply_boot_splash_free drops the idle trigger but leaves the frame timeout *)
(* and an idle timeout registered.                                          *)
FreeSplash(s) ==
    IF s.splash = "none" THEN s
    ELSE [s EXCEPT !.splash = "none",
                   !.idle   = IF @ = "timer" THEN @ ELSE "none",
                   !.frames = IF @ = "on" THEN "dangling" ELSE @]

(* ply_boot_splash_become_idle, behind plymouthd_transition_begin_idle; the *)
(* plugin may hold the trigger back while it animates.                      *)
BecomeIdle(s, animates) ==
    IF s.becomingIdle THEN s
    ELSE [s EXCEPT !.becomingIdle = TRUE,
                   !.aborted = @ \/ s.idle \in {"animating", "lost"},
                   !.idle = IF animates /\ UsesPixelDisplays(s)
                            THEN "animating" ELSE "timer"]

(* plymouthd-display.c                                                      *)

ShowTheme(s, r) ==
    IF s.devices /\ s.output
    THEN [s EXCEPT !.splash    = IF r = "graphical" THEN r ELSE "text",
                   !.renderers = @ \/ r # "text",
                   !.keyboards = TRUE,
                   !.frames    = "on"]
    ELSE Fault(s)

ShowDetailedSplash(s) ==
    LET t == CancelPendingShow(s)
    IN  IF t.splash # "none" THEN t ELSE ShowTheme(t, "text")

ShowDefaultSplash(s, r) ==
    IF s.splash # "none" THEN s ELSE ShowTheme(s, r)

ShowSplash(s, r) ==
    IF s.splash # "none" THEN s
    ELSE IF HasTimeLeft(s)
    THEN OnDevices(s, [s EXCEPT !.delay = "scheduled", !.keyboards = TRUE])
    ELSE IF s.showDefault
    THEN [ShowDefaultSplash(s, r) EXCEPT !.showingDetails = FALSE]
    ELSE [ShowDetailedSplash(s) EXCEPT !.showingDetails = TRUE]

HideSplash(s) ==
    OnDevices(s, [CancelPendingShow(s) EXCEPT
        !.renderers = @ /\ ~UsesPixelDisplays(s),
        !.shown     = FALSE,
        !.frames    = IF s.splash # "none" THEN "off" ELSE @])

ToggleDetails(s, r) ==
    LET t == IF s.splash # "none" THEN FreeSplash(HideSplash(s)) ELSE s
    IN  IF t.showingDetails
        THEN [ShowDefaultSplash(t, r) EXCEPT !.showingDetails = FALSE]
        ELSE [ShowDetailedSplash(t) EXCEPT !.showingDetails = TRUE]

(* plymouthd-transition.c: pulling the head of a chain pulls every trigger  *)
(* of it; the count stops at 2, which is already once too often.            *)
Pull(s, T) ==
    [s EXCEPT !.pulled =
        [t \in Trigger |-> IF t \in T /\ @[t] < 2 THEN @[t] + 1 ELSE @[t]]]

CompleteDeactivate(s) ==
    [Pull(s, s.deactivators) EXCEPT !.inactive = TRUE, !.deactivators = {}]

CompleteAll(s) ==
    [Pull(Pull(s, s.deactivators), s.quitters) EXCEPT
        !.deactivators = {}, !.quitters = {}]

(* plymouthd-session.c and plymouthd_attach_session: a failed attach frees  *)
(* the terminal session and the boot output.                                *)
AttachSession(s, succeeds) ==
    [s EXCEPT !.terminal = succeeds, !.attached = succeeds,
              !.output   = @ /\ succeeds]

(* plymouthd-control.c                                                      *)

QuitSplash(s) ==
    OnDevices(s, [FreeSplash(s) EXCEPT
        !.keyboards = FALSE, !.tty = @ /\ s.retain, !.attached = FALSE])

DumpDetailsAndQuitSplash(s) ==
    QuitSplash(HideSplash(
        ToggleDetails([s EXCEPT !.showingDetails = FALSE], "text")))

(* plymouthd_devices_free closes the terminals but only frees the           *)
(* renderers; both are gone afterwards.                                     *)
QuitProgram(s) ==
    CompleteAll([s EXCEPT !.devices = FALSE, !.displays = FALSE,
                          !.keyboards = FALSE, !.renderers = FALSE,
                          !.tty = FALSE, !.exiting = TRUE])

DeactivateConsole(s) ==
    OnDevices(s, [s EXCEPT !.attached = FALSE, !.tty = FALSE])

(* Bug: every waiting request is answered, the quits too.                   *)
DeactivateSplashAnswersAll(s) ==
    [CompleteAll(DeactivateConsole([s EXCEPT
         !.aborted = @ \/ s.inactive,
         !.renderers = @ /\ ~UsesPixelDisplays(s)])) EXCEPT !.inactive = TRUE]

DeactivateSplash(s) ==
    LET t == [s EXCEPT !.aborted = @ \/ s.inactive,
                       !.renderers = @ /\ ~UsesPixelDisplays(s)]
    IN  CompleteDeactivate(DeactivateConsole(t))

(* Bug: becoming_idle stays set after the callback.                         *)
OnBootSplashIdleUnfinished(s) ==
    LET t == [s EXCEPT !.idle = "none"]
    IN  IF t.quitters # {}
        THEN QuitProgram(QuitSplash(IF t.retain THEN t ELSE HideSplash(t)))
        ELSE IF t.deactivators # {} THEN DeactivateSplash(t)
        ELSE t

(* Bug: a deactivate request is served before a quit request.               *)
OnBootSplashIdleDeactivates(s) ==
    LET t == [s EXCEPT !.idle = "none"]
        u == IF t.deactivators # {} THEN DeactivateSplash(t)
             ELSE IF t.quitters # {}
             THEN QuitProgram(QuitSplash(
                      IF t.retain THEN t ELSE HideSplash(t)))
             ELSE t
    IN  [u EXCEPT !.becomingIdle = FALSE]

OnBootSplashIdle(s) ==
    LET t == [s EXCEPT !.idle = "none"]
        u == IF t.quitters # {}
             THEN QuitProgram(QuitSplash(
                      IF t.retain THEN t ELSE HideSplash(t)))
             ELSE IF t.deactivators # {} THEN DeactivateSplash(t)
             ELSE t
    IN  [u EXCEPT !.becomingIdle = FALSE]

IgnoresShowSplash(s) == s.ignoreShow /\ s.mode = BootUp

HandleShowSplash(s, attaches, r) ==
    LET t == [s EXCEPT !.shown = TRUE]
        u == IF ~t.attached /\ t.shouldAttach /\ t.displays
             THEN AttachSession(t, attaches) ELSE t
    IN  IF s.shown \/ s.inactive THEN s
        ELSE IF IgnoresShowSplash(s)
        THEN DumpDetailsAndQuitSplash([s EXCEPT !.retain = TRUE])
        ELSE OnDevices(s, IF u.displays THEN ShowSplash(u, r) ELSE u)

HandleHideSplash(s) ==
    IF s.inactive \/ s.splash = "none" THEN s
    ELSE DumpDetailsAndQuitSplash([s EXCEPT !.retain = TRUE])

HandleDeactivate(s, t, animates) ==
    LET queued == [s EXCEPT !.deactivators = @ \union {t}]
        quiet  == [CancelPendingShow(queued) EXCEPT
                       !.paused = TRUE, !.keyboards = FALSE]
    IN  IF s.inactive THEN Pull(DeactivateConsole(s), {t})
        ELSE IF s.deactivators # {} THEN queued
        ELSE OnDevices(s, IF quiet.splash # "none"
                          THEN BecomeIdle(quiet, animates)
                          ELSE DeactivateSplash(quiet))

(* Bug: a second quit takes the place of the one that waits.                *)
HandleQuitReplaces(s, retains, t, animates) ==
    LET queued == [s EXCEPT !.quitters = {t}]
        quiet  == [queued EXCEPT !.retain = retains, !.keyboards = FALSE]
    IN  IF s.quitters # {} THEN queued
        ELSE OnDevices(s,
            IF quiet.inactive /\ ~retains
            THEN QuitProgram(DumpDetailsAndQuitSplash(quiet))
            ELSE IF quiet.splash # "none" THEN BecomeIdle(quiet, animates)
            ELSE QuitProgram(QuitSplash(
                     IF quiet.retain THEN quiet ELSE HideSplash(quiet))))

HandleQuit(s, retains, t, animates) ==
    LET queued == [s EXCEPT !.quitters = @ \union {t}]
        quiet  == [queued EXCEPT !.retain = retains, !.keyboards = FALSE]
    IN  IF s.quitters # {} THEN queued
        ELSE OnDevices(s,
            IF quiet.inactive /\ ~retains
            THEN QuitProgram(DumpDetailsAndQuitSplash(quiet))
            ELSE IF quiet.splash # "none" THEN BecomeIdle(quiet, animates)
            ELSE QuitProgram(QuitSplash(
                     IF quiet.retain THEN quiet ELSE HideSplash(quiet))))

(* plymouthd_handle_pixel_display_added and _text_display_added; with a     *)
(* splash loaded the display joins it.                                      *)
HandleDisplayAdded(s, r) ==
    LET t == [s EXCEPT !.displays = TRUE]
    IN  IF t.shown /\ t.splash = "none" THEN ShowSplash(t, r) ELSE t

(* The unpaused device manager looks for devices at once when its timeout   *)
(* has elapsed, and the displays it finds are announced before the daemon   *)
(* is marked active.                                                        *)
HandleReactivate(s, opens, attaches, found, r) ==
    LET t == [s EXCEPT !.tty = @ \/ opens]
        u == IF t.terminal /\ t.shouldAttach
             THEN AttachSession(t, attaches) ELSE t
        v == [u EXCEPT !.keyboards = TRUE,
                       !.renderers = @ \/ UsesPixelDisplays(u),
                       !.paused    = FALSE]
        w == IF v.deviceTimeout /\ found THEN HandleDisplayAdded(v, r) ELSE v
    IN  IF s.inactive THEN OnDevices(s, [w EXCEPT !.inactive = FALSE]) ELSE s

(* plymouthd-actions.c                                                      *)

HandleReload(s, r) ==
    LET t == FreeSplash([s EXCEPT
                 !.frames = IF s.splash # "none" THEN "off" ELSE @])
    IN  IF t.inactive \/ ~t.shown THEN t
        ELSE IF t.showingDetails THEN ShowDetailedSplash(t)
        ELSE ShowDefaultSplash(t, r)

(* Queueing the prompt, or answering at once that there is no splash, is    *)
(* the business of module Prompts.                                          *)
HandleAskForPassword(s, r) ==
    LET t == CancelPendingShow(s)
    IN  IF s.splash = "none" /\ s.shown
        THEN OnDevices(t, IF t.displays THEN ShowSplash(t, r) ELSE t)
        ELSE s

(* A new mode hides and shows the same splash again.  A graphical plugin    *)
(* that stops its animation, or starts the end animation of the shutdown    *)
(* mode by itself, forgets the idle trigger it was holding.                 *)
HandleChangeMode(s, m, forgets) ==
    [s EXCEPT !.mode = m,
              !.idle = IF @ = "animating" /\ m # s.mode /\ forgets
                       THEN "lost" ELSE @]

-----------------------------------------------------------------------------
(* The event loop: ply_event_loop_process_pending_events runs every         *)
(* timeout that is due, then the ready file descriptors, and looks at       *)
(* should_exit only after it dispatched one of those.                       *)

Init ==
    /\ \E m \in Mode, default, attach, ignore, displays \in BOOLEAN,
          delay \in {"waiting", "over"} :
          daemon = [
              mode |-> m, showDefault |-> default, shouldAttach |-> attach,
              ignoreShow |-> ignore, quitters |-> {}, deactivators |-> {},
              pulled |-> [t \in Trigger |-> 0], retain |-> FALSE,
              becomingIdle |-> FALSE, inactive |-> FALSE, splash |-> "none",
              idle |-> "none", frames |-> "off", shown |-> FALSE,
              showingDetails |-> FALSE, delay |-> delay, devices |-> TRUE,
              displays |-> displays, keyboards |-> FALSE,
              renderers |-> FALSE, paused |-> FALSE, deviceTimeout |-> FALSE,
              tty |-> TRUE, terminal |-> attach, attached |-> attach,
              output |-> TRUE, exiting |-> FALSE, fault |-> FALSE,
              aborted |-> FALSE ]
    /\ phase = "timeouts"

Crashes(s) == s.fault \/ s.aborted

(* A process that crashed in a handler is gone: only how, and whether it    *)
(* still had its boot output, is recorded.                                  *)
Becomes(s) ==
    daemon' = IF Crashes(s)
              THEN [daemon EXCEPT !.fault = s.fault, !.aborted = s.aborted,
                                  !.output = s.output]
              ELSE s

Timeout(s) ==
    /\ phase = "timeouts"
    /\ Becomes(s)
    /\ phase' = IF Crashes(s) THEN "crashed" ELSE phase

Event(s) ==
    /\ phase = "events"
    /\ Becomes(s)
    /\ phase' = IF Crashes(s) THEN "crashed"
                ELSE IF s.exiting THEN "stopped" ELSE phase

EndTimeouts ==
    /\ phase = "timeouts"
    /\ phase' = "events"
    /\ UNCHANGED daemon

EndEvents ==
    /\ phase = "events"
    /\ phase' = IF daemon.exiting THEN "stopped" ELSE "timeouts"
    /\ UNCHANGED daemon

(* The deadline of the splash delay passes.                                 *)
DelayPasses ==
    /\ phase \in {"timeouts", "events"}
    /\ HasTimeLeft(daemon)
    /\ daemon' = [daemon EXCEPT
           !.delay = IF @ = "scheduled" THEN "overdue" ELSE "over"]
    /\ UNCHANGED phase

OnSplashDelayElapsed(r) ==
    /\ daemon.delay = "overdue"
    /\ Timeout(ShowSplash(CancelPendingShow(daemon), r))

OnIdleTimeout == daemon.idle = "timer" /\ Timeout(OnBootSplashIdle(daemon))

(* The plugin's animation ends: it pulls the idle trigger, whose handler    *)
(* (on_idle of ply-boot-splash.c) registers the 10 ms timeout.              *)
OnPluginIdle ==
    daemon.idle = "animating" /\ Timeout([daemon EXCEPT !.idle = "timer"])

(* The frame timeout of a splash that was freed without being hidden.       *)
OnNewFrame == daemon.frames = "dangling" /\ Timeout(Fault(daemon))

(* create_devices_from_udev, deferred while the device manager is paused.   *)
OnDeviceTimeout(found, r) ==
    /\ daemon.devices /\ ~daemon.deviceTimeout
    /\ LET s == [daemon EXCEPT !.deviceTimeout = TRUE]
       IN  Timeout(IF found /\ ~s.paused THEN HandleDisplayAdded(s, r) ELSE s)

OnDisplayAdded(r) ==
    /\ daemon.devices /\ ~daemon.paused
    /\ Event(HandleDisplayAdded(daemon, r))

OnDisplayRemoved(left) ==
    /\ daemon.devices /\ ~daemon.paused /\ daemon.displays
    /\ Event([daemon EXCEPT !.displays = left])

(* The escape key, on a keyboard that is watched.                           *)
OnEscapePressed(r) ==
    daemon.keyboards /\ Event(ToggleDetails(daemon, r))

ShowRequest(attaches, r) == Event(HandleShowSplash(daemon, attaches, r))
HideRequest == Event(HandleHideSplash(daemon))
ReloadRequest(r) == Event(HandleReload(daemon, r))
PasswordRequest(r) == Event(HandleAskForPassword(daemon, r))
ChangeModeRequest(m, forgets) == Event(HandleChangeMode(daemon, m, forgets))
ReactivateRequest(opens, attaches, found, r) ==
    Event(HandleReactivate(daemon, opens, attaches, found, r))

Unused(t) ==
    /\ t \notin daemon.quitters \union daemon.deactivators
    /\ daemon.pulled[t] = 0

DeactivateRequest(t, animates) ==
    Unused(t) /\ Event(HandleDeactivate(daemon, t, animates))

(* The quit command; newroot when init is a shell quits with retains FALSE. *)
QuitRequest(t, retains, animates) ==
    Unused(t) /\ Event(HandleQuit(daemon, retains, t, animates))

(* SIGTERM keeps the picture on screen when a graphical splash is up at     *)
(* power off.                                                               *)
OnTermSignal(t, animates) ==
    Unused(t) /\ Event(HandleQuit(daemon,
        daemon.mode \in PowerOff /\ ~daemon.inactive
            /\ UsesPixelDisplays(daemon), t, animates))

(* Handlers that take the splash away, or restart it, while it may be       *)
(* working on an idle request.                                              *)
Disturbances ==
    \/ HideRequest
    \/ \E r \in Outcome : ReloadRequest(r) \/ OnEscapePressed(r)
    \/ \E m \in Mode, forgets \in BOOLEAN : ChangeModeRequest(m, forgets)
    \/ \E attaches \in BOOLEAN, r \in Outcome : ShowRequest(attaches, r)

OtherEvents ==
    \/ \E r \in Outcome : PasswordRequest(r) \/ OnDisplayAdded(r)
    \/ \E left \in BOOLEAN : OnDisplayRemoved(left)
    \/ \E opens, attaches, found \in BOOLEAN, r \in Outcome :
           ReactivateRequest(opens, attaches, found, r)
    \/ \E t \in Trigger, animates \in BOOLEAN :
           \/ DeactivateRequest(t, animates)
           \/ \E retains \in BOOLEAN : QuitRequest(t, retains, animates)
           \/ OnTermSignal(t, animates)

Timeouts ==
    \/ DelayPasses
    \/ OnIdleTimeout
    \/ OnPluginIdle
    \/ OnNewFrame
    \/ \E r \in Outcome : OnSplashDelayElapsed(r)
    \/ \E found \in BOOLEAN, r \in Outcome : OnDeviceTimeout(found, r)

Finished == phase \in {"stopped", "crashed"} /\ UNCHANGED vars

Next ==
    \/ Timeouts \/ EndTimeouts
    \/ Disturbances \/ OtherEvents \/ EndEvents
    \/ Finished

Spec == Init /\ [][Next]_vars

-----------------------------------------------------------------------------
(* Fairness.  Each pass of the loop ends, a timeout that stays registered   *)
(* is handled in some later pass, and a plugin that still holds the idle    *)
(* trigger ends its animation some time.  Nothing is assumed of clients.    *)
Fairness ==
    /\ WF_vars(EndTimeouts) /\ WF_vars(EndEvents)
    /\ SF_vars(OnIdleTimeout) /\ SF_vars(OnPluginIdle)

FairSpec == Spec /\ Fairness

(* The same program whose clients and user leave the splash alone while it  *)
(* is becoming idle.                                                        *)
NextCalm ==
    \/ Timeouts \/ EndTimeouts
    \/ (~daemon.becomingIdle /\ Disturbances)
    \/ OtherEvents \/ EndEvents
    \/ Finished

CalmSpec == Init /\ [][NextCalm]_vars /\ Fairness

Over == phase \in {"stopped", "crashed"}

-----------------------------------------------------------------------------
(* Refinement: to its clients the daemon is a TransitionService.  A trigger *)
(* stands for the request it answers; a crash is a service that stands      *)
(* still.                                                                   *)
Service == INSTANCE TransitionService WITH
    Request      <- Trigger,
    quitting     <- daemon.quitters,
    deactivating <- daemon.deactivators,
    answers      <- daemon.pulled,
    status       <- IF daemon.exiting THEN "gone"
                    ELSE IF daemon.inactive THEN "inactive" ELSE "active"

(* Whatever handlers do to splash, devices and console in whatever order,   *)
(* quit and deactivate requests are served as TransitionService says:       *)
(* answered once and together, when the daemon is what they asked for, and  *)
(* never given up for another request (plymouthd-transition.c).             *)
ServesRequests == Service!Spec

-----------------------------------------------------------------------------
(* Properties.                                                              *)

(* Every quit or deactivate request is answered at most once, and is never  *)
(* both answered and still waiting, whatever was chained to what            *)
(* (queue_trigger and complete_trigger of plymouthd-transition.c).          *)
RequestsAnsweredOnce ==
    \A t \in Trigger :
        /\ daemon.pulled[t] <= 1
        /\ t \in daemon.quitters \union daemon.deactivators
               => daemon.pulled[t] = 0
        /\ ~(t \in daemon.quitters /\ t \in daemon.deactivators)

(* No assert of the idle machinery fails: ply_boot_splash_become_idle is    *)
(* never called on a splash that already has an idle trigger, and           *)
(* deactivate_splash never runs on an inactive daemon.                      *)
NoAssertFails == ~daemon.aborted

(* The idle callback and the waiting requests agree: no idle request is in  *)
(* flight that becoming_idle does not record, and as long as the program    *)
(* runs becoming_idle is only set while a quit or deactivate request waits  *)
(* for it, so that nobody waits for a callback nobody asked for.            *)
IdleIsAwaited ==
    /\ daemon.idle # "none" => daemon.becomingIdle
    /\ daemon.becomingIdle /\ ~daemon.exiting
           => daemon.quitters \union daemon.deactivators # {}

(* An inactive daemon has let go of the console, as the comment in          *)
(* deactivate_console asks: its terminal is closed, the console session is  *)
(* detached, and no device event can make it open another terminal.         *)
InactiveReleasesConsole ==
    daemon.inactive => ~daemon.tty /\ ~daemon.attached /\ daemon.paused

(* A NULL or freed pointer is followed only in the last pass of a loop that *)
(* was told to exit (the devices and the splash are gone, handlers may      *)
(* still run), or after an attach failure freed the boot output.            *)
FaultsOnlyAtExit == daemon.fault => daemon.exiting \/ ~daemon.output

(* When the loop has stopped, everybody who waited has been answered, the   *)
(* splash is freed, the keyboards are off and the session is detached.      *)
ExitIsClean ==
    phase = "stopped" =>
        /\ daemon.quitters = {} /\ daemon.deactivators = {}
        /\ daemon.splash = "none" /\ ~daemon.devices
        /\ ~daemon.keyboards /\ ~daemon.attached

(* What must hold of the control plane whenever its loop runs: however the  *)
(* requests, the splash and the devices interleave, no request is answered  *)
(* twice, no assert fails, no idle callback is lost or unasked for, the     *)
(* console of an inactive daemon is free and the exit leaves nothing.       *)
ControlIsSafe ==
    /\ TypeOK
    /\ RequestsAnsweredOnce
    /\ NoAssertFails
    /\ IdleIsAwaited
    /\ InactiveReleasesConsole
    /\ FaultsOnlyAtExit
    /\ ExitIsClean

(* An answer tells the truth: a quit request stops waiting only when the    *)
(* loop was told to exit and the splash is gone, a deactivate request only  *)
(* when the console is released.                                            *)
AnswersAreTrue ==
    [][ /\ ~(daemon.quitters \subseteq daemon'.quitters)
               => daemon'.exiting /\ daemon'.splash = "none"
        /\ ~(daemon.deactivators \subseteq daemon'.deactivators)
               => daemon'.exiting
                  \/ (daemon'.inactive /\ ~daemon'.tty /\ ~daemon'.attached)
      ]_vars

(* A client that waits for quit sees the daemon go (docs/plymouth1.xml:     *)
(* "Tell plymouthd to quit.").                                              *)
QuitCompletes == (daemon.quitters # {}) ~> Over

(* A client that waits for deactivate is answered.                          *)
DeactivateCompletes ==
    \A t \in Trigger : (t \in daemon.deactivators)
                           ~> (t \notin daemon.deactivators \/ Over)

=============================================================================
