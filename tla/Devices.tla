------------------------------ MODULE Devices ------------------------------
(***************************************************************************)
(* The devices of plymouthd: ply-device-manager.c, the wrappers of         *)
(* plymouthd-devices.c, what ply-renderer.c keeps of each renderer, and    *)
(* the displays the boot splash draws on (plymouthd-display.c,             *)
(* ply-boot-splash.c).  The kernel plugs and unplugs devices and queues    *)
(* udev events; one action is one handler of the event loop.               *)
(***************************************************************************)
EXTENDS Naturals, FiniteSets, SequencesExt

CONSTANTS
    Card,           \* the device paths of graphics devices
    Simple,         \* those that are SimpleDRM devices
    FrameBuffer,    \* those of the frame buffer subsystem
    CardOf,         \* frame buffer -> the DRM card of the same hardware
    Screen,         \* a connected output with the mode it shows
    Connected,      \* card -> the sets of screens that may be connected to it
    LowResolution,  \* the screens with a mode SimpleDRM had better not use
    Input,          \* the device paths of keyboards
    Theme,          \* the kinds of theme that may be configured
    Setup,          \* how the devices are looked for (Setups)
    MaxChanges,     \* bound: hardware changes
    MaxCommands     \* bound: show, hide, toggle and deactivate commands

Setups == {"udev", "text", "serial"}

ASSUME DevicesAssumption ==
    /\ IsFiniteSet(Card) /\ IsFiniteSet(Input) /\ Card \cap Input = {}
    /\ Simple \subseteq Card /\ FrameBuffer \subseteq Card \ Simple
    /\ CardOf \in [FrameBuffer -> Card]
    /\ Connected \in [Card -> SUBSET SUBSET Screen]
    /\ LowResolution \subseteq Screen
    /\ Theme \subseteq {"graphical", "text"} /\ Setup \subseteq Setups
    /\ {MaxChanges, MaxCommands} \subseteq Nat

Drm == Card \ (Simple \cup FrameBuffer)

VARIABLES
    plugged,        \* kernel: the devices that are there
    screens,        \* kernel: what is connected to each card
    udev,           \* kernel: the events queued on the udev monitor
    hungup,         \* kernel: the open input devices whose descriptor hung up
    manager,        \* ply_device_manager_t and its renderers (Manager)
    daemon,         \* what plymouthd keeps of splash and displays (Daemon)
    replugged,      \* history: keyboards that came back under their old path
                    \* before the old device was let go
    missed,         \* history: displays that came while the splash was
                    \* loaded and not "shown"
    unmapped,       \* history: the renderers that were not mapped when the
                    \* renderers were last deactivated
    changes,        \* how many hardware changes there were
    commands        \* how many commands there were

kernel == <<plugged, screens, udev, hungup>>
vars == <<kernel, manager, daemon, replugged, missed, unmapped, changes, commands>>

Event == [action : {"add", "change", "remove"}, device : Card \cup Input]

Display == Card \X Screen

Manager == [
    renderers : SUBSET Card,              \* the renderers table
    console   : SUBSET Card,              \* renderers given the local console
    heads     : [Card -> SUBSET Screen],
    inputs    : [Card -> SUBSET Input],   \* input devices of each renderer
    active    : SUBSET Card,              \* renderer->is_active
    mapped    : SUBSET Card,              \* renderer->is_mapped
    master    : SUBSET Card,              \* the device is drawn on: DRM master
    displays  : SUBSET Display,           \* pixel_displays
    keyboards : SUBSET Card,              \* keyboards of renderers
    watched   : SUBSET Card,              \* those that are watched for input
    ttys      : Nat,                      \* keyboards of terminals
    texts     : Nat,                      \* text_displays
    devices   : SUBSET Input,             \* input_devices
    managed   : BOOLEAN,                  \* local_console_managed
    isText    : BOOLEAN,                  \* local_console_is_text
    renderersActivated  : BOOLEAN,
    keyboardsActivated  : BOOLEAN,
    paused    : BOOLEAN,
    elapsed   : BOOLEAN,                  \* device_timeout_elapsed
    found     : BOOLEAN,                  \* found_drm_device, found_fb_device
    watching  : BOOLEAN,                  \* fd_watch, on the udev monitor
    timeout   : BOOLEAN ]                 \* the device timeout is registered

Daemon == [
    theme    : Theme,
    splash   : {"none", "graphical", "text"},
    shown    : BOOLEAN,             \* plymouthd_splash_is_shown
    attached : SUBSET Display,      \* displays the boot splash has
    phase    : {"active", "deactivating", "inactive"} ]

TypeOK ==
    /\ plugged \subseteq Card \cup Input /\ hungup \subseteq Input
    /\ screens \in [Card -> SUBSET Screen] /\ udev \in Seq(Event)
    /\ manager \in Manager /\ daemon \in Daemon
    /\ replugged \subseteq Input /\ missed \subseteq Display
    /\ unmapped \subseteq Card

OfCard(c) == {c} \X Screen

(* Handlers take a world to the next: the hardware as they find it, the     *)
(* manager, what the daemon keeps, and the displays that it missed.         *)
Hardware == [plugged : SUBSET (Card \cup Input), screens : [Card -> SUBSET Screen]]

World == [hardware : Hardware, manager : Manager, daemon : Daemon,
          missed : SUBSET Display]

(* F of the world that w is: TLC evaluates w once, however often F uses it. *)
Then(w, F(_)) == CHOOSE v \in {F(u) : u \in {w}} : TRUE

-----------------------------------------------------------------------------
(* ply-renderer.c                                                           *)

(* ply_renderer_open, and query_device of the plugins: a card with nothing  *)
(* connected cannot be used, and SimpleDRM with a poor mode only by force.  *)
OpenRenderer(hw, c, force) ==
    /\ c \in hw.plugged /\ hw.screens[c] # {}
    /\ force \/ c \notin Simple \/ hw.screens[c] \cap LowResolution = {}

(* ply_renderer_activate, on each of cs *)
ActivateRenderers(m, cs) ==
    [m EXCEPT !.active = @ \cup cs, !.master = @ \cup (cs \ m.active)]

(* Bug: only the renderer that has the console lets go of its device. *)
DeactivateRendererOfConsole(m) ==
    [m EXCEPT !.active = {}, !.master = @ \ m.console,
              !.renderersActivated = FALSE]

(* ply_device_manager_deactivate_renderers *)
DeactivateRenderers(m) ==
    [m EXCEPT !.active = {}, !.master = {}, !.renderersActivated = FALSE]

(* ply_renderer_flush_head: the first flush maps the buffers, and mapping   *)
(* them activates the plugin.                                               *)
Flush(m, cs) ==
    [m EXCEPT !.mapped = @ \cup cs, !.master = @ \cup (cs \ m.mapped)]

-----------------------------------------------------------------------------
(* What the daemon does with a new display                                  *)

ActivateKeyboards(m) ==
    [m EXCEPT !.watched = m.keyboards, !.keyboardsActivated = TRUE]

DeactivateKeyboards(m) ==
    [m EXCEPT !.watched = {}, !.keyboardsActivated = FALSE]

(* ply_device_manager_activate_renderers, for a splash of that kind *)
TakeScreens(m, kind) ==
    IF kind = "graphical"
    THEN [ActivateRenderers(m, m.renderers) EXCEPT !.renderersActivated = TRUE]
    ELSE m

(* show_theme of plymouthd-display.c *)
ShowTheme(w, kind) ==
    LET m == TakeScreens(w.manager, kind)
    IN  [w EXCEPT !.manager = ActivateKeyboards(m),
                  !.daemon.splash = kind,
                  !.daemon.attached =
                      IF kind = "graphical" THEN m.displays ELSE {}]

(* plymouthd_show_splash, when the splash delay is over *)
ShowSplash(w) ==
    IF w.daemon.splash # "none" THEN w ELSE ShowTheme(w, w.daemon.theme)

(* plymouthd_handle_pixel_display_added, for all of new *)
PixelDisplaysAdded(w, new) ==
    IF new = {} THEN w
    ELSE IF ~w.daemon.shown
    THEN IF w.daemon.splash = "graphical"
         THEN [w EXCEPT !.missed = @ \cup new] ELSE w
    ELSE IF w.daemon.splash = "none" THEN ShowSplash(w)
    ELSE IF w.daemon.splash = "graphical"
    THEN [w EXCEPT !.daemon.attached = @ \cup new] ELSE w

(* plymouthd_handle_text_display_added *)
TextDisplayAdded(w) == IF w.daemon.shown THEN ShowSplash(w) ELSE w

-----------------------------------------------------------------------------
(* ply-device-manager.c: removing devices                                   *)

(* Bug: the displays are freed without telling the daemon. *)
FreeDisplaysQuietly(w, c) ==
    [w EXCEPT !.manager.displays = @ \ OfCard(c)]

FreeDisplaysForRenderer(w, c) ==
    [w EXCEPT !.manager.displays = @ \ OfCard(c),
              !.daemon.attached = @ \ OfCard(c),
              !.missed = @ \ OfCard(c)]

FreeKeyboardsForRenderer(w, c) ==
    LET left == w.manager.keyboards \ {c}
    IN  [w EXCEPT !.manager.keyboards = left,
                  !.manager.watched = @ \ {c},
                  !.manager.managed = @ /\ (left # {} \/ w.manager.ttys > 0)]

(* ply_renderer_free, and the renderer's place in the table *)
FreeRenderer(m, c) ==
    [m EXCEPT !.renderers = @ \ {c}, !.console = @ \ {c},
              !.heads[c] = {}, !.inputs[c] = {},
              !.active = @ \ {c}, !.mapped = @ \ {c}, !.master = @ \ {c}]

(* free_devices_from_device_path, with close *)
FreeDevices(w, c) ==
    IF c \notin w.manager.renderers THEN w
    ELSE LET v == FreeKeyboardsForRenderer(FreeDisplaysForRenderer(w, c), c)
         IN  [v EXCEPT !.manager = FreeRenderer(v.manager, c)]

FreeSimpleDrm(w) ==
    FoldSet(LAMBDA c, v : Then(v, LAMBDA u : FreeDevices(u, c)), w, Simple)

-----------------------------------------------------------------------------
(* ply-device-manager.c: creating devices                                   *)

CreatePixelDisplays(w, c) ==
    LET new == {c} \X w.manager.heads[c]
    IN  PixelDisplaysAdded([w EXCEPT !.manager.displays = @ \cup new], new)

CreateTextDisplay(w) == TextDisplayAdded([w EXCEPT !.manager.texts = @ + 1])

(* create_devices_for_terminal_and_renderer_type, for a renderer: what it   *)
(* does with one that opened, in this order                                 *)
Opened(m, c, heads) ==
    [m EXCEPT !.renderers = @ \cup {c}, !.keyboards = @ \cup {c},
              !.active = @ \cup {c}, !.found = TRUE,
              !.heads[c] = heads, !.inputs[c] = m.devices]

OnConsole(w, c) ==
    IF w.manager.managed THEN w
    ELSE [CreateTextDisplay(w) EXCEPT !.manager.console = @ \cup {c},
                                      !.manager.isText = FALSE,
                                      !.manager.managed = TRUE]

WithKeyboard(w, c) ==
    [w EXCEPT !.manager.watched =
                  IF w.manager.keyboardsActivated THEN @ \cup {c} ELSE @]

Created(w, c) ==
    IF ~OpenRenderer(w.hardware, c, w.manager.elapsed) THEN w
    ELSE Then(Then(Then([w EXCEPT !.manager = Opened(@, c, w.hardware.screens[c])],
                        LAMBDA u : CreatePixelDisplays(u, c)),
                   LAMBDA u : OnConsole(u, c)),
              LAMBDA u : WithKeyboard(u, c))

CreateRenderer(w, c) ==
    IF c \in w.manager.renderers THEN [w EXCEPT !.manager.found = TRUE]
    ELSE Then(IF c \in Drm THEN FreeSimpleDrm(w) ELSE w,
              LAMBDA u : Created(u, c))

(* The same function, for a terminal and no renderer. *)
CreateTerminalDevices(w) ==
    [CreateTextDisplay([w EXCEPT !.manager.ttys = @ + 1])
        EXCEPT !.manager.isText = TRUE, !.manager.managed = TRUE]

(* ply_input_device_open and add_input_device_to_renderers: a path that is  *)
(* in the table is not opened again.                                        *)
CreateInputDevice(w, i) ==
    IF i \notin w.hardware.plugged \/ i \in w.manager.devices THEN w
    ELSE [w EXCEPT !.manager.devices = @ \cup {i},
                   !.manager.inputs =
                       [c \in Card |-> IF c \in w.manager.renderers
                                       THEN @[c] \cup {i} ELSE @[c]]]

(* create_devices_for_udev_device *)
CreateForUdevDevice(w, d) ==
    IF d \in Input THEN CreateInputDevice(w, d)
    ELSE IF d \in Simple /\ ~w.manager.elapsed THEN w
    ELSE IF d \in FrameBuffer /\ CardOf[d] \in w.manager.renderers THEN w
    ELSE CreateRenderer(w, d)

(* create_devices_for_subsystem *)
CreateForSubsystem(w, ds) ==
    FoldSet(LAMBDA d, v : Then(v, LAMBDA u : CreateForUdevDevice(u, d)),
            w, ds \cap w.hardware.plugged)

CreateForSubsystems(w) ==
    Then(CreateForSubsystem(w, Input),
         LAMBDA v : CreateForSubsystem(v, Drm \cup Simple))

LookForDevices(w) ==
    Then(Then(CreateForSubsystems(w),
              LAMBDA v : CreateForSubsystem(v, FrameBuffer)),
         LAMBDA v : IF v.manager.found THEN v ELSE CreateTerminalDevices(v))

(* Bug: the timeout does not look whether the manager is paused. *)
CreateDevicesWhilePaused(w) ==
    LookForDevices([w EXCEPT !.manager.elapsed = TRUE])

(* create_devices_from_udev *)
CreateDevicesFromUdev(w) ==
    LET v == [w EXCEPT !.manager.elapsed = TRUE]
    IN  IF v.manager.paused THEN v ELSE LookForDevices(v)

(* ply_device_manager_unpause *)
Unpause(w) ==
    LET v == [w EXCEPT !.manager.paused = FALSE]
        u == IF v.manager.elapsed THEN CreateDevicesFromUdev(v) ELSE v
    IN  [u EXCEPT !.manager.watching = TRUE]

-----------------------------------------------------------------------------
(* ply-device-manager.c: udev events                                        *)

(* ply_renderer_handle_change_event and on_drm_udev_add_or_change.  The     *)
(* daemon is told of displays whose heads the renderer has freed already.   *)
OnChange(w, c) ==
    IF w.manager.heads[c] = w.hardware.screens[c] \/ c \in FrameBuffer THEN w
    ELSE CreatePixelDisplays(
             [FreeDisplaysForRenderer(w, c) EXCEPT
                 !.manager.heads[c] = w.hardware.screens[c]], c)

(* Bug: a renderer that could not be opened is not tried again. *)
OnAddOnly(w, e) ==
    IF e.device \notin w.manager.renderers
    THEN IF e.action = "add" THEN CreateForUdevDevice(w, e.device) ELSE w
    ELSE IF e.action = "change" THEN OnChange(w, e.device) ELSE w

OnAddOrChange(w, e) ==
    IF e.device \notin w.manager.renderers
    THEN CreateForUdevDevice(w, e.device)
    ELSE IF e.action = "change" THEN OnChange(w, e.device) ELSE w

(* Bug: no event matters once the console is managed. *)
VerifyUnmanaged(m, e) ==
    ~m.managed /\ (m.elapsed \/ e.device \notin FrameBuffer)

(* verify_add_or_change *)
VerifyAddOrChange(m, e) ==
    /\ ~(m.managed /\ m.isText)
    /\ m.elapsed \/ e.device \notin FrameBuffer

(* process_udev_add_or_change_events *)
ProcessEvents(w, pending) ==
    FoldLeft(LAMBDA v, e : Then(v, LAMBDA u : OnAddOrChange(u, e)), w, pending)

(* One turn of the loop of on_udev_event: a removal flushes what is         *)
(* pending, and of several events of one device the first is kept.          *)
Receive(acc, e) ==
    IF e.action = "remove"
    THEN [world |-> Then(ProcessEvents(acc.world, acc.pending),
                         LAMBDA v : FreeDevices(v, e.device)),
          pending |-> <<>>]
    ELSE IF \/ ~VerifyAddOrChange(acc.world.manager, e)
            \/ \E k \in DOMAIN acc.pending : acc.pending[k].device = e.device
    THEN acc
    ELSE [acc EXCEPT !.pending = Append(@, e)]

UdevEvents(w, events) ==
    Then(FoldLeft(LAMBDA acc, e : Then(acc, LAMBDA a : Receive(a, e)),
                  [world |-> w, pending |-> <<>>], events),
         LAMBDA acc : ProcessEvents(acc.world, acc.pending))

-----------------------------------------------------------------------------
(* The hardware                                                             *)

now == [hardware |-> [plugged |-> plugged, screens |-> screens],
        manager |-> manager, daemon |-> daemon, missed |-> missed]

Become(w) ==
    \E v \in {w} : manager' = v.manager /\ daemon' = v.daemon /\ missed' = v.missed

Queue(a, d) == udev' = Append(udev, [action |-> a, device |-> d])

Change == changes < MaxChanges /\ changes' = changes + 1

Software == <<manager, daemon, missed, unmapped, commands>>

Plug(d) ==
    /\ Change /\ d \notin plugged
    /\ plugged' = plugged \cup {d}
    /\ \E s \in IF d \in Card THEN Connected[d] ELSE {{}} :
          screens' = IF d \in Card THEN [screens EXCEPT ![d] = s] ELSE screens
    /\ Queue("add", d)
    /\ replugged' = IF d \in manager.devices THEN replugged \cup {d} ELSE replugged
    /\ UNCHANGED <<hungup, Software>>

Unplug(d) ==
    /\ Change /\ d \in plugged
    /\ plugged' = plugged \ {d}
    /\ screens' = IF d \in Card THEN [screens EXCEPT ![d] = {}] ELSE screens
    /\ hungup' = IF d \in manager.devices THEN hungup \cup {d} ELSE hungup
    /\ Queue("remove", d)
    /\ replugged' = replugged \ {d}
    /\ UNCHANGED Software

Hotplug(c) ==
    /\ Change /\ c \in Drm \cap plugged
    /\ \E s \in Connected[c] :
          s # screens[c] /\ screens' = [screens EXCEPT ![c] = s]
    /\ Queue("change", c)
    /\ UNCHANGED <<plugged, hungup, replugged, Software>>

-----------------------------------------------------------------------------
(* The handlers of the event loop                                           *)

(* on_udev_event *)
OnUdevEvent ==
    /\ manager.watching /\ udev # <<>>
    /\ Become(UdevEvents(now, udev))
    /\ udev' = <<>>
    /\ UNCHANGED <<plugged, screens, hungup, replugged, unmapped, changes, commands>>

(* on_disconnect of ply-input-device.c, whose trigger calls                 *)
(* remove_input_device_from_renderers                                       *)
OnInputDisconnect(i) ==
    /\ i \in hungup
    /\ hungup' = hungup \ {i}
    /\ manager' = [manager EXCEPT
                      !.devices = @ \ {i},
                      !.inputs = [c \in Card |-> @[c] \ {i}]]
    /\ UNCHANGED <<plugged, screens, udev, daemon, missed, replugged, unmapped,
                   changes, commands>>

OnDeviceTimeout ==
    /\ manager.timeout
    /\ Become(CreateDevicesFromUdev([now EXCEPT !.manager.timeout = FALSE]))
    /\ UNCHANGED <<kernel, replugged, unmapped, changes, commands>>

(* on_new_frame of ply-boot-splash.c, every 1/60 s *)
OnNewFrame ==
    /\ daemon.splash = "graphical"
    /\ manager' = Flush(manager, {d[1] : d \in daemon.attached})
    /\ UNCHANGED <<kernel, daemon, missed, replugged, unmapped, changes, commands>>

Command == commands < MaxCommands /\ commands' = commands + 1

(* plymouthd_handle_show_splash *)
HandleShowSplash ==
    /\ Command /\ daemon.phase # "inactive"
    /\ LET w == [now EXCEPT !.daemon.shown = TRUE]
       IN  Become(IF manager.displays # {} \/ manager.texts > 0
                  THEN ShowSplash(w) ELSE w)
    /\ UNCHANGED <<kernel, replugged, unmapped, changes>>

(* plymouthd_hide_splash and the splash freed: the displays are unpaused,   *)
(* and so flushed, after the renderers were deactivated.                    *)
RenderersAreDeactivated ==
    unmapped' = IF daemon.splash = "graphical" THEN Card \ manager.mapped
                                               ELSE unmapped

DropSplash(w) ==
    LET m == IF w.daemon.splash = "graphical"
             THEN Flush(DeactivateRenderers(w.manager),
                        {d[1] : d \in w.daemon.attached})
             ELSE w.manager
    IN  [w EXCEPT !.manager = m, !.missed = {},
                  !.daemon.splash = "none", !.daemon.shown = FALSE,
                  !.daemon.attached = {}]

(* plymouthd_toggle_details: the other kind of splash is loaded, and it is  *)
(* not marked as shown.                                                     *)
ToggleDetails ==
    /\ Command /\ daemon.phase = "active" /\ daemon.splash # "none"
    /\ Become(ShowTheme(DropSplash(now),
                        IF daemon.splash = "graphical" THEN "text"
                                                       ELSE daemon.theme))
    /\ RenderersAreDeactivated
    /\ UNCHANGED <<kernel, replugged, changes>>

(* plymouthd_handle_hide_splash *)
HandleHideSplash ==
    /\ Command /\ daemon.phase # "inactive" /\ daemon.splash # "none"
    /\ LET w == DropSplash(now)
       IN  Become([w EXCEPT !.manager = DeactivateKeyboards(@)])
    /\ RenderersAreDeactivated
    /\ UNCHANGED <<kernel, replugged, changes>>

(* plymouthd_handle_deactivate *)
HandleDeactivate ==
    /\ Command /\ daemon.phase = "active"
    /\ daemon' = [daemon EXCEPT !.phase = "deactivating"]
    /\ manager' = [DeactivateKeyboards(manager) EXCEPT !.paused = TRUE,
                                                       !.watching = FALSE]
    /\ UNCHANGED <<kernel, missed, replugged, unmapped, changes>>

(* on_boot_splash_idle: deactivate_splash *)
OnBootSplashIdle ==
    /\ daemon.phase = "deactivating"
    /\ daemon' = [daemon EXCEPT !.phase = "inactive"]
    /\ manager' = IF daemon.splash = "graphical"
                  THEN DeactivateRenderers(manager)
                  ELSE manager
    /\ RenderersAreDeactivated
    /\ UNCHANGED <<kernel, missed, replugged, changes, commands>>

(* plymouthd_handle_reactivate: nothing that the manager calls looks at the *)
(* phase, which the code sets last.                                         *)
HandleReactivate ==
    /\ daemon.phase = "inactive"
    /\ Become(Unpause(
           [now EXCEPT !.manager = TakeScreens(ActivateKeyboards(@), daemon.splash),
                       !.daemon.phase = "active"]))
    /\ UNCHANGED <<kernel, replugged, unmapped, changes, commands>>

-----------------------------------------------------------------------------
(* ply_device_manager_watch_devices, with what the hardware is at boot      *)

NoDevices == [
    renderers |-> {}, console |-> {}, heads |-> [c \in Card |-> {}],
    inputs |-> [c \in Card |-> {}], active |-> {}, mapped |-> {},
    master |-> {}, displays |-> {}, keyboards |-> {}, watched |-> {},
    ttys |-> 0, texts |-> 0, devices |-> {}, managed |-> FALSE,
    isText |-> FALSE, renderersActivated |-> FALSE,
    keyboardsActivated |-> FALSE, paused |-> FALSE, elapsed |-> FALSE,
    found |-> FALSE, watching |-> FALSE, timeout |-> FALSE ]

WatchDevices(w, setup) ==
    CASE setup = "serial" ->
            [w EXCEPT !.manager.ttys = 1, !.manager.texts = 1]
      [] setup = "text" -> CreateTerminalDevices(w)
      [] OTHER ->
            CreateForSubsystems([w EXCEPT !.manager.watching = TRUE,
                                          !.manager.timeout = TRUE])

Init ==
    /\ plugged \in SUBSET (Card \cup Input)
    /\ screens \in [Card -> SUBSET Screen]
    /\ \A c \in Card : screens[c] \in IF c \in plugged THEN Connected[c] ELSE {{}}
    /\ \E theme \in Theme, setup \in Setup :
          LET w == WatchDevices(
                  [hardware |-> [plugged |-> plugged, screens |-> screens],
                   manager |-> NoDevices, missed |-> {},
                   daemon |-> [theme |-> theme, splash |-> "none",
                               shown |-> FALSE, attached |-> {},
                               phase |-> "active"]], setup)
          IN  \E v \in {w} : /\ manager = v.manager
                             /\ daemon = v.daemon
                             /\ missed = v.missed
    /\ udev = <<>> /\ hungup = {} /\ replugged = {} /\ unmapped = {}
    /\ changes = 0 /\ commands = 0

-----------------------------------------------------------------------------
Next ==
    \/ \E d \in Card \cup Input : Plug(d) \/ Unplug(d)
    \/ \E c \in Card : Hotplug(c)
    \/ OnUdevEvent
    \/ \E i \in Input : OnInputDisconnect(i)
    \/ OnDeviceTimeout
    \/ OnNewFrame
    \/ HandleShowSplash
    \/ ToggleDetails
    \/ HandleHideSplash
    \/ HandleDeactivate
    \/ OnBootSplashIdle
    \/ HandleReactivate

(* The event loop runs a handler whose descriptor is readable or whose      *)
(* timeout is due; what the hardware and the clients do is not promised.    *)
Spec == Init /\ [][Next]_vars /\ WF_vars(OnUdevEvent) /\ WF_vars(OnDeviceTimeout)

-----------------------------------------------------------------------------
(* Properties                                                               *)

(* There is a display for every head of every renderer and for no other,    *)
(* and a graphical splash draws on all of them but those that came while    *)
(* it was loaded and not marked as shown (after the details were toggled).  *)
DisplaysMatchHeads ==
    /\ manager.displays = UNION {{c} \X manager.heads[c] : c \in manager.renderers}
    /\ daemon.attached \subseteq manager.displays
    /\ daemon.splash = "graphical" => manager.displays \ daemon.attached \subseteq missed

(* At most one renderer was given the local console, and a console that     *)
(* counts as managed has a keyboard: with none, nobody could type a         *)
(* passphrase and no later device would be given the console.               *)
ConsoleHasOneOwner ==
    /\ Cardinality(manager.console) <= 1
    /\ manager.managed => manager.keyboards # {} \/ manager.ttys > 0

(* The device manager's books agree with the hardware that it drives.       *)
ManagerIsSound ==
    /\ TypeOK
    /\ DisplaysMatchHeads
    /\ ConsoleHasOneOwner

(* Every renderer gets the keys of all known keyboards, and once all events *)
(* are handled the known keyboards are those plugged in, but for one that   *)
(* came back under its path before the loss of the old one was handled.     *)
KeyboardsAreFound ==
    /\ \A c \in manager.renderers : manager.inputs[c] = manager.devices
    /\ (/\ manager.timeout \/ manager.elapsed
        /\ udev = <<>> /\ hungup = {}
        /\ ~(manager.managed /\ manager.isText))
       => plugged \cap Input \subseteq manager.devices \cup replugged

(* While the daemon has given its screens away it is not DRM master of any  *)
(* device, but for one whose first frame had not been drawn by then: the    *)
(* next frame maps it, which takes the master back.                         *)
MasterIsReleased ==
    ~manager.renderersActivated => manager.master \subseteq unmapped

(* A paused manager opens no renderer, whatever is plugged or times out.    *)
NothingOpensWhilePaused ==
    [][manager.paused /\ manager'.paused =>
           manager'.renderers \subseteq manager.renderers]_vars

(* A DRM card that has a screen is driven in the end, or the console was    *)
(* handed to the text fallback before, as long as the daemon is active.     *)
Driven(c) ==
    \/ c \in manager.renderers
    \/ c \notin plugged \/ screens[c] = {}
    \/ manager.managed /\ manager.isText
    \/ daemon.phase # "active"

CardIsDriven ==
    \A c \in Drm : [](manager.timeout \/ manager.elapsed => <>Driven(c))

=============================================================================
