----------------------------- MODULE Terminal -----------------------------
(***************************************************************************)
(* ply-terminal.c: the virtual terminal of the daemon, as functions on the *)
(* seat s: what the kernel keeps of the terminal (s.kernel), the object    *)
(* the daemon keeps (s.terminal), what ends the daemon (s.fault) and, as   *)
(* history, what was asked of a terminal that had no descriptor, never     *)
(* reached the kernel and was not made up for since (s.missed).            *)
(***************************************************************************)
EXTENDS Naturals, Sequences

CONSTANT Retries    \* attempts to reopen a terminal before giving up

ASSUME RetriesAssumption == Retries \in Nat \ {0}

Vt == {"ours", "other"}

Kernel == [
    tty     : {"good", "eio", "gone"},    \* what open() of the device does
    vt      : Vt,                         \* the VT on the screen
    leaving : BOOLEAN,                    \* it waits for VT_RELDISP
    process : BOOLEAN,                    \* our VT is in mode VT_PROCESS
    signals : Seq({"leave", "enter"}),    \* SIGUSR1, SIGUSR2
    hasty   : BOOLEAN,                    \* see Unready
    keys    : BOOLEAN,                    \* keyboard mode: not K_OFF
    raw     : BOOLEAN ]                   \* the terminal attributes

TerminalObject == [
    fd       : BOOLEAN,     \* fd >= 0
    watch    : BOOLEAN,     \* fd_watch
    open     : BOOLEAN,
    active   : BOOLEAN,
    watching : BOOLEAN,     \* is_watching_for_vt_changes
    disabled : BOOLEAN,
    initial  : Vt,          \* initial_vt_number
    tries    : 0 .. Retries,
    timers   : Nat,         \* registered reopen timeouts
    gaveUp   : BOOLEAN ]    \* history: a reopen failed for good

(* F of the seat that s is: TLC evaluates s once, however often F uses it. *)
Then(s, F(_)) == CHOOSE r \in {F(x) : x \in {s}} : TRUE

Fault(s, what) == [s EXCEPT !.fault = @ \cup {what}]

Missed == {"enable",    \* KDSKBMODE, to turn the keyboard on
           "release",   \* VT_RELDISP, the answer to a request to leave
           "auto",      \* VT_AUTO, to be asked no more
           "reopen",    \* a reopening that was due when it was closed
           "listen"}    \* the watch of the input source

Miss(s, what) == [s EXCEPT !.missed = @ \cup {what}]

(* The descriptor is back and it is asked again, by a daemon that lives.    *)
MakeUp(s, what) == IF s.fault # {} THEN s ELSE [s EXCEPT !.missed = @ \ what]

-----------------------------------------------------------------------------
(* Input modes: an ioctl on a closed descriptor changes nothing, but the    *)
(* flags of the object are changed all the same.                            *)

EnableInput(s) ==
    IF ~s.terminal.disabled THEN s
    ELSE LET t == [s EXCEPT !.terminal.disabled = FALSE]
         IN  IF ~s.terminal.fd THEN Miss(t, "enable")
             ELSE MakeUp([t EXCEPT !.kernel.keys = TRUE], {"enable"})

(* ply_terminal_set_unbuffered_input *)
SetUnbufferedInput(s) ==
    [EnableInput(s) EXCEPT !.kernel.raw = @ \/ s.terminal.fd]

(* Bug: the disabled keyboard is not enabled again. *)
SetBufferedInputOnly(s) == [s EXCEPT !.kernel.raw = @ /\ ~s.terminal.fd]

(* ply_terminal_set_buffered_input *)
SetBufferedInput(s) ==
    [EnableInput(s) EXCEPT !.kernel.raw = @ /\ ~s.terminal.fd]

(* ply_terminal_set_disabled_input *)
SetDisabledInput(s) ==
    IF s.terminal.disabled THEN s
    ELSE [s EXCEPT !.kernel.keys = @ /\ ~s.terminal.fd,
                   !.terminal.disabled = TRUE]

-----------------------------------------------------------------------------
(* VT changes                                                               *)

(* The kernel asks for VT switches before there are handlers, and it still  *)
(* asks when they are gone already: a VT that a hasty user asks for at that *)
(* moment sends a signal that ends the daemon.                              *)
Unready(s) ==
    IF s.kernel.process /\ s.kernel.hasty THEN Fault(s, "unready") ELSE s

(* ply_terminal_watch_for_vt_changes *)
WatchForVtChanges(s) ==
    IF ~s.terminal.fd \/ s.terminal.watching THEN s
    ELSE Unready([s EXCEPT !.kernel.process = TRUE, !.terminal.watching = TRUE])

(* Bug: the handlers go, and the kernel goes on asking.                     *)
StopListening(s) ==
    [s EXCEPT !.terminal.watching = FALSE, !.kernel.signals = <<>>]

(* ply_terminal_stop_watching_for_vt_changes: signals that are queued find  *)
(* no handler, and VT_AUTO drops a switch that waits.                       *)
StopWatchingForVtChanges(s) ==
    LET t == [Unready(s) EXCEPT !.terminal.watching = FALSE, !.kernel.signals = <<>>]
    IN  IF ~s.terminal.watching THEN s
        ELSE IF ~s.terminal.fd THEN Miss(t, "auto")
        ELSE MakeUp([t EXCEPT !.kernel.process = FALSE, !.kernel.leaving = FALSE],
                    {"auto", "release"})

(* A VT comes on the screen; what it shows takes the place of our buffers.  *)
ShowVt(s, vt) ==
    [s EXCEPT !.kernel.vt = vt, !.card.scan = IF vt = "ours" THEN @ ELSE {}]

(* What the kernel does when a VT is asked for, by the user or by           *)
(* VT_ACTIVATE. A process that has no handler dies of the signal.           *)
Signal(s, what) ==
    IF ~s.kernel.process THEN s
    ELSE IF s.terminal.watching THEN [s EXCEPT !.kernel.signals = Append(@, what)]
    ELSE Fault(s, "killed")

GoTo(s, vt) ==
    IF s.kernel.vt = vt \/ s.kernel.leaving THEN s
    ELSE IF vt = "ours" THEN Signal(ShowVt(s, vt), "enter")
    ELSE IF s.kernel.process
    THEN Signal([s EXCEPT !.kernel.leaving = TRUE], "leave")
    ELSE ShowVt(s, vt)

(* on_leave_vt, up to its closures *)
LeaveVt(s) ==
    LET t == IF ~s.kernel.leaving THEN s
             ELSE IF ~s.terminal.fd THEN Miss(s, "release")
             ELSE ShowVt([s EXCEPT !.kernel.leaving = FALSE], "other")
    IN  [t EXCEPT !.terminal.active = FALSE]

(* on_enter_vt, up to its closures *)
EnterVt(s) == [s EXCEPT !.terminal.active = TRUE]

(* ply_terminal_activate_vt *)
ActivateVt(s) ==
    IF s.terminal.active \/ ~s.terminal.fd THEN s ELSE GoTo(s, "ours")

(* ply_terminal_deactivate_vt *)
DeactivateVt(s) ==
    IF s.terminal.initial = "ours" THEN s
    ELSE Then(StopWatchingForVtChanges(s),
              LAMBDA t : IF t.terminal.active /\ t.terminal.fd
                         THEN GoTo(t, "other") ELSE t)

-----------------------------------------------------------------------------
(* Opening, losing and closing the device                                   *)

(* ply_terminal_open_device *)
OpenDevice(s) ==
    IF s.terminal.fd \/ s.terminal.watch THEN Fault(s, "open twice")
    ELSE IF s.kernel.tty = "good"
    THEN SetUnbufferedInput([s EXCEPT !.terminal.fd = TRUE,
                                      !.terminal.watch = TRUE,
                                      !.terminal.tries = 0])
    ELSE IF s.kernel.tty = "gone" THEN [s EXCEPT !.terminal.tries = 0] ELSE s

(* Bug: only a first failure is tried again. *)
ReopenDeviceOnce(s) ==
    LET t == OpenDevice(s)
    IN  IF t.terminal.fd \/ t.kernel.tty = "gone" THEN t
        ELSE IF t.terminal.tries = 0
        THEN [t EXCEPT !.terminal.tries = 1, !.terminal.timers = @ + 1]
        ELSE [t EXCEPT !.terminal.tries = 0]

(* ply_terminal_reopen_device *)
ReopenDevice(s) ==
    LET t == OpenDevice([s EXCEPT !.terminal.tries = @ + 1])
    IN  IF t.terminal.fd THEN t
        ELSE IF t.kernel.tty = "gone" THEN [t EXCEPT !.terminal.gaveUp = TRUE]
        ELSE IF t.terminal.tries < Retries
        THEN [t EXCEPT !.terminal.timers = @ + 1]
        ELSE [t EXCEPT !.terminal.tries = 0, !.terminal.gaveUp = TRUE]

(* on_tty_disconnected *)
OnTtyDisconnected(s) ==
    ReopenDevice([s EXCEPT !.terminal.watch = FALSE, !.terminal.fd = FALSE,
                           !.terminal.tries = 0])

(* ply_terminal_open *)
Open(s) ==
    LET Opened(t) ==
            IF ~t.terminal.fd \/ t.fault # {} THEN t
            ELSE [WatchForVtChanges(t) EXCEPT
                     !.terminal.active = t.kernel.vt = "ours",
                     !.terminal.open = TRUE]
    IN  IF s.terminal.open THEN s ELSE Then(OpenDevice(s), Opened)

(* ply_terminal_close *)
Close(s) ==
    LET Closed(t) == [(IF t.terminal.timers = 0 THEN t ELSE Miss(t, "reopen")) EXCEPT
                         !.terminal.fd = FALSE]
        Stopped(t) == [t EXCEPT !.terminal.open = FALSE, !.terminal.watch = FALSE]
    IN  IF ~s.terminal.open THEN s
        ELSE Then(Then(Then(StopWatchingForVtChanges(s), Stopped),
                       SetBufferedInput), Closed)

=============================================================================
