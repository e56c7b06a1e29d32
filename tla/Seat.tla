------------------------------- MODULE Seat -------------------------------
(***************************************************************************)
(* The seat of plymouthd: its terminal (Terminal), the renderer on it      *)
(* (Renderer), the kernel that switches VTs, hangs the terminal up and     *)
(* plugs screens and keyboards, and the daemon that shows a splash, hands  *)
(* the console over and takes it back (plymouthd-control.c,                *)
(* plymouthd-display.c and the wrappers of plymouthd-devices.c).           *)
(***************************************************************************)
EXTENDS Renderer

CONSTANTS
    Lit,            \* the controllers that have a screen at boot
    MaxSwitches,    \* bound: VT switches by the user
    MaxHangups,     \* bound: changes of the terminal device
    MaxPlugs,       \* bound: screens and keyboards that come or go
    MaxCommands     \* bound: commands to the daemon

ASSUME SeatAssumption ==
    /\ Lit \subseteq Controller /\ Lit # {}
    /\ {MaxSwitches, MaxHangups, MaxPlugs, MaxCommands} \subseteq Nat

VARIABLES
    seat,           \* terminal, renderer, kernel and card (Seat)
    shown,          \* a graphical splash is loaded
    retain,         \* the splash stays on the screen when the daemon quits
    phase,          \* of the daemon: "active", "deactivating", "inactive",
                    \* "quitting" or "quit"
    strayed,        \* history: handed over before a frame was drawn, or
                    \* taken back without the terminal
    count           \* how many events of each bounded kind there were

vars == <<seat, shown, retain, phase, strayed, count>>

Bound == [switches |-> MaxSwitches, hangups |-> MaxHangups, plugs |-> MaxPlugs,
          commands |-> MaxCommands]

TypeOK ==
    /\ seat \in Seat
    /\ {shown, retain, strayed} \subseteq BOOLEAN
    /\ phase \in {"active", "deactivating", "inactive", "quitting", "quit"}
    /\ \A k \in DOMAIN Bound : count[k] \in 0 .. Bound[k]

Alive == seat.fault = {} /\ phase # "quit"

Count(k) == count[k] < Bound[k] /\ count' = [count EXCEPT ![k] = @ + 1]

Become(s) == \E t \in {s} : seat' = t

Daemon == <<shown, retain, phase, strayed>>

-----------------------------------------------------------------------------
(* The kernel and the user                                                  *)

SwitchVt(vt) ==
    /\ Alive /\ Count("switches") /\ seat.kernel.vt # vt /\ ~seat.kernel.leaving
    /\ Become(GoTo(seat, vt))
    /\ UNCHANGED Daemon

(* The next VT that is asked for is asked for at a moment between two       *)
(* system calls of the daemon, if there is one (Unready).                   *)
HurryVt ==
    /\ Alive /\ Count("switches") /\ ~seat.kernel.hasty
    /\ Become([seat EXCEPT !.kernel.hasty = TRUE])
    /\ UNCHANGED Daemon

(* The terminal hangs up; its watch and the one of the input source are     *)
(* told in one turn of the event loop. The kernel resets the attributes.    *)
TtyHangsUp(tty) ==
    /\ Alive /\ Count("hangups") /\ seat.terminal.watch
    /\ LET s == [seat EXCEPT !.kernel.tty = tty, !.kernel.raw = FALSE]
       IN  Become(Then(OnTtyDisconnected(s), OnInputSourceDisconnected))
    /\ UNCHANGED Daemon

TtyComesBack ==
    /\ Alive /\ seat.kernel.tty = "eio"
    /\ Become([seat EXCEPT !.kernel.tty = "good"])
    /\ UNCHANGED <<Daemon, count>>

(* Events of udev are read unless the device manager is paused.             *)
Watching == Alive /\ phase \in {"active", "quitting"} /\ seat.renderer.opened

PlugScreen(h) ==
    /\ Watching /\ Count("plugs") /\ seat.renderer.plugin = "drm"
    /\ Become(IF h \in seat.renderer.heads THEN RemoveHead(seat, h)
                                           ELSE AddHead(seat, h))
    /\ UNCHANGED Daemon

PlugKeyboard(i) ==
    /\ Watching /\ Count("plugs") /\ i \notin seat.renderer.devices
    /\ Become(AddInputDevice(seat, i))
    /\ UNCHANGED Daemon

UnplugKeyboard(i) ==
    /\ Alive /\ i \in seat.renderer.devices
    /\ Become(RemoveInputDevice(seat, i))
    /\ UNCHANGED <<Daemon, count>>

(* The card goes: free_devices_from_device_path                             *)
UnplugCard ==
    /\ Watching /\ Count("plugs")
    /\ Become(RendererClose(RendererDeactivate(CloseInputSource(seat))))
    /\ UNCHANGED Daemon

-----------------------------------------------------------------------------
(* The handlers of the event loop                                           *)

OnVtSignal(what, Handler(_)) ==
    /\ Alive /\ seat.kernel.signals # <<>> /\ Head(seat.kernel.signals) = what
    /\ Become(OnActiveVtChanged(Handler([seat EXCEPT !.kernel.signals = Tail(@)])))
    /\ UNCHANGED <<Daemon, count>>

OnLeaveVt == OnVtSignal("leave", LeaveVt)

OnEnterVt == OnVtSignal("enter", EnterVt)

OnReopenTimeout ==
    /\ Alive /\ seat.terminal.timers > 0
    /\ Become(ReopenDevice([seat EXCEPT !.terminal.timers = @ - 1]))
    /\ UNCHANGED <<Daemon, count>>

(* on_new_frame draws on a display and flushes it                           *)
OnNewFrame(h) ==
    /\ Alive /\ shown /\ h \in seat.renderer.heads
    /\ Become(Flush([seat EXCEPT !.renderer.dirty = @ \cup {h}], {h}))
    /\ UNCHANGED <<Daemon, count>>

-----------------------------------------------------------------------------
(* The daemon                                                               *)

(* ply_device_manager_activate_keyboards *)
ActivateKeyboards(s) ==
    IF s.renderer.source \/ ~s.renderer.opened THEN s ELSE OpenInputSource(s)

(* show_theme *)
ShowSplash ==
    /\ Alive /\ Count("commands") /\ phase = "active" /\ ~shown
    /\ seat.renderer.opened
    /\ Become(ActivateKeyboards(RendererActivate(seat)))
    /\ shown' = TRUE
    /\ UNCHANGED <<retain, phase, strayed>>

(* plymouthd_hide_splash: unpausing the displays flushes their heads        *)
HideSplash(s) ==
    LET t == IF shown /\ s.renderer.opened
             THEN Flush(RendererDeactivate(s), s.renderer.heads)
             ELSE s
    IN  Then(t, SetBufferedInput)

(* dump_details_and_quit_splash, up to its release of the console           *)
DumpDetails(s) ==
    CloseInputSource(SetBufferedInput(ActivateKeyboards(HideSplash(s))))

(* plymouthd_handle_hide_splash; a deactivation or a quit that waited for   *)
(* the splash waits on                                                      *)
HandleHideSplash ==
    /\ Alive /\ Count("commands") /\ phase # "inactive" /\ shown
    /\ Become(DumpDetails(seat))
    /\ shown' = FALSE /\ retain' = TRUE
    /\ UNCHANGED <<phase, strayed>>

(* plymouthd_devices_deactivate_console *)
DeactivateConsole(s) ==
    Close(SetBufferedInput(StopWatchingForVtChanges(s)))

(* deactivate_splash *)
DeactivateSplash(s) ==
    DeactivateConsole(IF shown THEN RendererDeactivate(s) ELSE s)

NoFrameYet(s) == shown /\ s.renderer.opened /\ ~s.renderer.mapped

(* plymouthd_handle_deactivate *)
HandleDeactivate ==
    /\ Alive /\ Count("commands") /\ phase = "active"
    /\ LET s == CloseInputSource(seat)
       IN  Become(IF shown THEN s ELSE DeactivateSplash(s))
    /\ phase' = IF shown THEN "deactivating" ELSE "inactive"
    /\ UNCHANGED <<shown, retain, strayed>>

(* plymouthd_handle_reactivate, whether the terminal opens or not           *)
HandleReactivate ==
    /\ Alive /\ phase = "inactive"
    /\ LET Back(s) ==
               LET t == ActivateKeyboards(SetUnbufferedInput(WatchForVtChanges(s)))
               IN  IF s.fault # {} THEN s
                   ELSE IF shown THEN RendererActivate(t) ELSE t
       IN  Become(Then(Open(seat), Back))
    /\ phase' = "active"
    /\ strayed' = (strayed \/ ~seat'.terminal.open)
    /\ UNCHANGED <<shown, retain, count>>

(* plymouthd_devices_release_console *)
ReleaseConsole(s) == Close(DeactivateVt(s))

(* quit_program: the device manager frees its terminals and its renderers   *)
QuitProgram(s) ==
    LET Freed(t) == [t EXCEPT !.terminal.timers = IF t.terminal.tries > 0
                                                  THEN 0 ELSE @,
                              !.renderer.opened = FALSE, !.renderer.scans = FALSE,
                              !.renderer.heads = {}, !.renderer.devices = {},
                              !.card.master = FALSE]
    IN  Freed(Close(s))

(* The branches of plymouthd_handle_quit that end the program               *)
Quit(s, keep) ==
    LET Hidden == CloseInputSource(IF keep THEN s ELSE HideSplash(s))
    IN  QuitProgram(IF keep THEN Hidden ELSE ReleaseConsole(Hidden))

(* plymouthd_handle_quit *)
HandleQuit(keep) ==
    /\ Alive /\ Count("commands") /\ phase # "quitting"
    /\ LET s == CloseInputSource(seat)
           dump == phase = "inactive" /\ ~keep
       IN  /\ Become(IF dump THEN QuitProgram(ReleaseConsole(DumpDetails(s)))
                     ELSE IF shown THEN s ELSE Quit(s, keep))
           /\ phase' = IF shown /\ ~dump THEN "quitting" ELSE "quit"
           /\ shown' = (shown /\ ~dump)
    /\ retain' = keep
    /\ UNCHANGED <<strayed>>

(* on_boot_splash_idle *)
OnBootSplashIdle ==
    /\ Alive /\ shown /\ phase \in {"deactivating", "quitting"}
    /\ Become(IF phase = "quitting" THEN Quit(seat, retain)
              ELSE DeactivateSplash(seat))
    /\ phase' = IF phase = "quitting" THEN "quit" ELSE "inactive"
    /\ shown' = (phase = "deactivating")
    /\ strayed' = (strayed \/ (phase = "deactivating" /\ NoFrameYet(seat)))
    /\ UNCHANGED <<retain, count>>

-----------------------------------------------------------------------------
(* At boot the terminal is open and the renderer was found, with the        *)
(* keyboards not watched and nothing drawn yet.                             *)
Init ==
    /\ \E plugin \in Plugin, initial \in Vt, full \in SUBSET Controller :
          /\ plugin = "frame-buffer" => Cardinality(Lit) = 1 /\ full \subseteq Lit
          /\ seat =
             [ kernel |-> [tty |-> "good", vt |-> initial, leaving |-> FALSE,
                           process |-> TRUE, signals |-> <<>>, keys |-> TRUE,
                           raw |-> TRUE, hasty |-> FALSE],
               terminal |-> [fd |-> TRUE, watch |-> TRUE, open |-> TRUE,
                             active |-> initial = "ours", watching |-> TRUE,
                             disabled |-> FALSE, initial |-> initial, tries |-> 0,
                             timers |-> 0, gaveUp |-> FALSE],
               card |-> [master |-> FALSE, scan |-> {}, full |-> full],
               renderer |-> [plugin |-> plugin, opened |-> TRUE, active |-> FALSE,
                             mapped |-> FALSE, scans |-> FALSE, heads |-> Lit,
                             buffers |-> {}, reset |-> {}, dirty |-> {},
                             source |-> FALSE, watch |-> "none", devices |-> {},
                             watched |-> {}],
               fault |-> {}, missed |-> {} ]
    /\ shown = FALSE /\ retain = FALSE /\ phase = "active"
    /\ strayed = FALSE
    /\ count = [k \in DOMAIN Bound |-> 0]

Next ==
    \/ \E vt \in Vt : SwitchVt(vt)
    \/ HurryVt
    \/ \E tty \in {"good", "eio", "gone"} : TtyHangsUp(tty)
    \/ TtyComesBack
    \/ \E h \in Controller : PlugScreen(h)
    \/ \E i \in Input : PlugKeyboard(i) \/ UnplugKeyboard(i)
    \/ UnplugCard
    \/ OnLeaveVt
    \/ OnEnterVt
    \/ OnReopenTimeout
    \/ \E h \in Controller : OnNewFrame(h)
    \/ ShowSplash
    \/ HandleHideSplash
    \/ HandleDeactivate
    \/ HandleReactivate
    \/ \E keep \in BOOLEAN : HandleQuit(keep)
    \/ OnBootSplashIdle

(* The event loop runs the handlers of signals and timeouts, and a splash   *)
(* on the screen draws its frames.                                          *)
Spec ==
    /\ Init /\ [][Next]_vars
    /\ WF_vars(OnLeaveVt) /\ WF_vars(OnEnterVt) /\ WF_vars(OnReopenTimeout)
    /\ \A h \in Controller : WF_vars(OnNewFrame(h))

-----------------------------------------------------------------------------
(* A DRM card begins to scan a buffer of ours out only while our VT is on   *)
(* the screen, whatever is activated, plugged or drawn meanwhile, unless    *)
(* the console was handed over before the first frame was drawn, as that    *)
(* frame takes the card back, or was taken back when the terminal did not   *)
(* open, as the daemon then goes by the VT that it knew before.             *)
ScansOnlyOnOurVt ==
    [][seat.renderer.plugin = "drm" /\ ~strayed' =>
           seat'.card.scan \subseteq seat.card.scan \/ seat'.kernel.vt = "ours"
       ]_vars

(* While the daemon listens it hears what is typed: every keyboard that     *)
(* evdev knows is watched, or, when there is none, the terminal is, unless  *)
(* the input source was opened, or opened again, while the terminal had no  *)
(* descriptor: it is not told when the terminal is back.                    *)
InputIsHeard ==
    seat.renderer.source =>
        /\ seat.renderer.watched = seat.renderer.devices
        /\ seat.renderer.devices = {} /\ "listen" \notin seat.missed
               => seat.terminal.fd /\ seat.renderer.watch = "set"

(* A daemon that handed the console over or quit left it usable: keyboard   *)
(* enabled, attributes of a line discipline, VT switches not asked for.     *)
(* What a terminal that was lost at that time, or before, was not told is   *)
(* not made up for: each of the three excepts only that. A reopening that   *)
(* was due when the terminal was closed takes keyboard and attributes back. *)
ConsoleIsGivenBack ==
    phase \in {"inactive", "quit"} /\ seat.fault = {} =>
        /\ seat.kernel.keys \/ seat.missed \cap {"enable", "reopen"} # {}
        /\ ~seat.kernel.raw \/ "reopen" \in seat.missed
        /\ ~seat.kernel.process \/ "auto" \in seat.missed

(* A terminal that was lost is opened again, or its last attempt is due.    *)
ReopenIsPending ==
    seat.terminal.open /\ ~seat.terminal.fd
        => seat.terminal.timers > 0 \/ seat.terminal.gaveUp

(* What ends the daemon, other than a user who asks for a VT at the moment  *)
(* between two system calls (Unready) and the card of a screen that was     *)
(* never drawn on: a signal, if the terminal was closed while it was lost,  *)
(* so that the kernel still asks; the assertion that it is opened once, if  *)
(* a reopening was due then; the watch that the event loop freed, if the    *)
(* terminal was lost while the input source was open.                       *)
DaemonSurvives ==
    /\ "killed" \in seat.fault => "auto" \in seat.missed
    /\ "open twice" \in seat.fault => "reopen" \in seat.missed
    /\ "freed watch" \in seat.fault => "listen" \in seat.missed

(* The terminal and the renderer keep what they rely on, and the daemon     *)
(* lives, through hang-ups, VT switches and the hand-over.                  *)
SeatIsSound ==
    /\ TypeOK
    /\ ReopenIsPending
    /\ DaemonSurvives

(* The kernel does not wait for the daemon for ever: a VT that is asked for *)
(* is granted, or the request dropped because the daemon stops taking part, *)
(* unless its answer or its leaving was asked of a terminal that was lost,  *)
(* or the daemon ended in a fault.                                          *)
LeaveIsAnswered ==
    seat.kernel.leaving ~>
        \/ ~seat.kernel.leaving
        \/ seat.missed \cap {"release", "auto"} # {}
        \/ seat.fault # {}

(* When the last keyboard that evdev knew is gone, the one of the terminal  *)
(* works again at the next frame, unless it was turned on while the         *)
(* terminal was lost: it is marked enabled and stays off.                   *)
KeyboardComesBack ==
    LET Deaf == /\ Alive /\ shown /\ phase = "active" /\ seat.renderer.source
                /\ seat.renderer.devices = {}
                /\ seat.renderer.heads \ seat.card.full # {}
                /\ seat.terminal.active /\ seat.terminal.fd /\ ~seat.kernel.keys
                /\ "enable" \notin seat.missed
    IN  []<>~Deaf

=============================================================================
