----------------------------- MODULE SeatProofs -----------------------------
(* Theorems about Seat, for any controllers, keyboards and bounds.          *)
EXTENDS Seat, TLAPS

-----------------------------------------------------------------------------
(* The inductive invariant                                                  *)

(* What the terminal and the renderer keep of each other at all times.      *)
Wired(s) ==
    /\ s.terminal.fd <=> s.terminal.watch
    /\ s.terminal.watching => s.terminal.open
    /\ s.terminal.open /\ ~s.terminal.fd => s.terminal.timers > 0 \/ s.terminal.gaveUp
    /\ s.renderer.watch # "none" => s.renderer.source
    /\ s.renderer.source => s.renderer.watched = s.renderer.devices
    /\ ~s.renderer.source => s.renderer.watched = {}
    /\ ~s.renderer.opened => s.renderer.heads = {} /\ ~s.renderer.scans

(* The signals that are on their way tell of the VT on the screen, and so   *)
(* does the terminal while the kernel asks it for VT switches.              *)
Ordered(s) ==
    /\ ~s.kernel.process => ~s.terminal.watching
    /\ ~s.terminal.watching => s.kernel.signals = <<>>
    /\ s.kernel.vt = "other" => s.kernel.signals = <<>> /\ ~s.kernel.leaving
    /\ s.kernel.vt = "other" /\ s.kernel.process => ~s.terminal.active
    /\ \A i \in 1 .. Len(s.kernel.signals) :
           s.kernel.signals[i] = "leave" => s.kernel.leaving /\ i = Len(s.kernel.signals)

(* A keyboard that is off was turned off by the daemon.                     *)
KeysFit(s) ==
    ~s.kernel.keys => s.terminal.disabled \/ "enable" \in s.missed

(* Whatever is not as it should be was asked of a terminal that was lost.   *)
Explained(s) ==
    /\ s.terminal.timers > 0 =>
           (s.terminal.open /\ ~s.terminal.fd) \/ "reopen" \in s.missed
    /\ s.terminal.timers > 1 => "reopen" \in s.missed
    /\ s.terminal.fd => s.terminal.open \/ "reopen" \in s.missed
    /\ s.kernel.process => s.terminal.watching \/ "auto" \in s.missed
    /\ s.renderer.watch = "freed" => "listen" \in s.missed
    /\ KeysFit(s)
    /\ ~s.terminal.fd => ~s.kernel.raw
    /\ ~s.terminal.fd /\ ~s.terminal.open =>
           s.kernel.keys \/ "enable" \in s.missed \/ "reopen" \in s.missed
    /\ "killed" \in s.fault => "auto" \in s.missed
    /\ "open twice" \in s.fault => "reopen" \in s.missed
    /\ "freed watch" \in s.fault => "listen" \in s.missed

Hears(s) ==
    s.renderer.source =>
        (s.terminal.fd /\ s.renderer.watch = "set") \/ "listen" \in s.missed

(* What is handed over with the console; from then on a splash that was     *)
(* drawn before changes nothing on the screen.                              *)
HandedOver ==
    /\ phase \in {"inactive", "quit"} => ~seat.terminal.open
    /\ phase # "active" => ~seat.renderer.source
    /\ phase \in {"active", "deactivating"} /\ ~strayed => seat.terminal.open
    /\ ~seat.terminal.open /\ shown /\ ~strayed =>
           /\ ~seat.renderer.scans
           /\ seat.renderer.opened => seat.renderer.mapped

IInv ==
    /\ TypeOK
    /\ count \in [DOMAIN Bound -> Nat]
    /\ Wired(seat) /\ Ordered(seat)
    /\ seat.terminal.open => seat.terminal.watching
    /\ seat.fault = {} => seat.terminal.tries < Retries
    /\ Explained(seat) /\ Hears(seat)
    /\ HandedOver

-----------------------------------------------------------------------------
(* What operations on a seat leave alone                                    *)

SameVt(s, t) ==
    /\ t.kernel.tty = s.kernel.tty /\ t.kernel.vt = s.kernel.vt
    /\ t.kernel.leaving = s.kernel.leaving
    /\ t.kernel.process = s.kernel.process
    /\ t.kernel.signals = s.kernel.signals

SameTerminal(s, t) ==
    /\ t.terminal.fd = s.terminal.fd /\ t.terminal.watch = s.terminal.watch
    /\ t.terminal.open = s.terminal.open /\ t.terminal.active = s.terminal.active
    /\ t.terminal.watching = s.terminal.watching
    /\ t.terminal.initial = s.terminal.initial
    /\ t.terminal.tries = s.terminal.tries /\ t.terminal.timers = s.terminal.timers
    /\ t.terminal.gaveUp = s.terminal.gaveUp

SameInput(s, t) ==
    /\ t.renderer.source = s.renderer.source /\ t.renderer.watch = s.renderer.watch
    /\ t.renderer.devices = s.renderer.devices
    /\ t.renderer.watched = s.renderer.watched
    /\ "listen" \in s.missed => "listen" \in t.missed

(* The input mode of the terminal, if it is open, and what it was not told. *)
SameMode(s, t) ==
    /\ ~s.terminal.fd =>
           /\ t.kernel.keys = s.kernel.keys /\ t.kernel.raw = s.kernel.raw
           /\ "enable" \in s.missed => "enable" \in t.missed
    /\ KeysFit(s) => KeysFit(t)
    /\ "auto" \in s.missed => "auto" \in t.missed
    /\ "reopen" \in s.missed => "reopen" \in t.missed

-----------------------------------------------------------------------------
(* The terminal                                                             *)

LEMMA SeatIs ==
  ASSUME NEW s \in Seat
  PROVE  /\ s.kernel \in Kernel /\ s.terminal \in TerminalObject
         /\ s.card \in Card /\ s.renderer \in RendererObject
         /\ s.missed \subseteq Missed
         /\ s.fault \subseteq {"killed", "unready", "open twice", "freed watch", "no buffer"}
         /\ s.kernel.tty \in {"good", "eio", "gone"} /\ s.kernel.vt \in Vt
         /\ s.kernel.leaving \in BOOLEAN /\ s.kernel.process \in BOOLEAN
         /\ s.kernel.keys \in BOOLEAN /\ s.kernel.raw \in BOOLEAN
         /\ s.kernel.signals \in Seq({"leave", "enter"})
         /\ s.terminal.fd \in BOOLEAN /\ s.terminal.watch \in BOOLEAN
         /\ s.terminal.open \in BOOLEAN /\ s.terminal.active \in BOOLEAN
         /\ s.terminal.watching \in BOOLEAN /\ s.terminal.disabled \in BOOLEAN
         /\ s.terminal.gaveUp \in BOOLEAN
         /\ s.terminal.initial \in Vt /\ s.terminal.tries \in 0 .. Retries
         /\ s.terminal.timers \in Nat
         /\ s.card.master \in BOOLEAN
         /\ s.renderer.plugin \in Plugin
         /\ s.renderer.opened \in BOOLEAN /\ s.renderer.active \in BOOLEAN
         /\ s.renderer.mapped \in BOOLEAN /\ s.renderer.scans \in BOOLEAN
         /\ s.renderer.source \in BOOLEAN
         /\ s.renderer.watch \in {"none", "set", "freed"}
BY DEF Seat, Kernel, TerminalObject, Card, RendererObject

(* Only the input mode changes.                                             *)
ModeSet(s, t) ==
    /\ t \in Seat /\ SameVt(s, t) /\ SameTerminal(s, t) /\ SameMode(s, t)
    /\ t.card = s.card /\ t.renderer = s.renderer /\ t.fault = s.fault
    /\ "listen" \in s.missed => "listen" \in t.missed

(* New values of the keyboard mode and the attributes (in q), the flag of   *)
(* the object (in e) and what it was not told (m).                          *)
Kept(s, q, e, m) ==
    /\ q.tty = s.kernel.tty /\ q.vt = s.kernel.vt /\ q.leaving = s.kernel.leaving
    /\ q.process = s.kernel.process /\ q.signals = s.kernel.signals
    /\ e.fd = s.terminal.fd /\ e.watch = s.terminal.watch
    /\ e.open = s.terminal.open /\ e.active = s.terminal.active
    /\ e.watching = s.terminal.watching /\ e.initial = s.terminal.initial
    /\ e.tries = s.terminal.tries /\ e.timers = s.terminal.timers
    /\ e.gaveUp = s.terminal.gaveUp
    /\ ~s.terminal.fd => /\ q.keys = s.kernel.keys /\ q.raw = s.kernel.raw
                         /\ "enable" \in s.missed => "enable" \in m
    /\ KeysFit(s) => q.keys \/ e.disabled \/ "enable" \in m
    /\ "auto" \in s.missed => "auto" \in m
    /\ "reopen" \in s.missed => "reopen" \in m
    /\ "listen" \in s.missed => "listen" \in m

LEMMA ModeSetIs ==
  ASSUME NEW s \in Seat, NEW q \in Kernel, NEW e \in TerminalObject,
         NEW m \in SUBSET Missed, NEW t,
         t = [s EXCEPT !.kernel = q, !.terminal = e, !.missed = m],
         Kept(s, q, e, m)
  PROVE  ModeSet(s, t)
<1>1. /\ t \in Seat /\ t.kernel = q /\ t.terminal = e /\ t.missed = m
      /\ t.card = s.card /\ t.renderer = s.renderer /\ t.fault = s.fault
  BY DEF Seat
<1>2. SameVt(s, t) /\ SameTerminal(s, t) /\ SameMode(s, t)
  BY <1>1 DEF Kept, SameVt, SameTerminal, SameMode, KeysFit
<1> QED
  BY <1>1, <1>2 DEF Kept, ModeSet

(* The keyboard is on, or it was not told to be.                            *)
LEMMA EnableInputIs ==
  ASSUME NEW s \in Seat, NEW t, t = EnableInput(s)
  PROVE  /\ ModeSet(s, t) /\ ~t.terminal.disabled
         /\ t.kernel.raw = s.kernel.raw
<1>1. CASE ~s.terminal.disabled
  BY <1>1 DEF EnableInput, ModeSet, SameVt, SameTerminal, SameMode
<1>2. CASE s.terminal.disabled
  <2>1. PICK m : m = IF ~s.terminal.fd THEN s.missed \cup {"enable"}
                     ELSE IF s.fault # {} THEN s.missed ELSE s.missed \ {"enable"}
    OBVIOUS
  <2>2. m \in SUBSET Missed
    BY <2>1, SeatIs DEF Missed
  <2>3. PICK q, e : /\ q = IF s.terminal.fd THEN [s.kernel EXCEPT !.keys = TRUE]
                                            ELSE s.kernel
                    /\ e = [s.terminal EXCEPT !.disabled = FALSE]
    OBVIOUS
  <2>4. q \in Kernel /\ e \in TerminalObject /\ ~e.disabled /\ q.raw = s.kernel.raw
    BY <2>3 DEF Seat, Kernel, TerminalObject
  <2>5. t = [s EXCEPT !.kernel = q, !.terminal = e, !.missed = m]
    <3>1. CASE s.terminal.fd
      <4>1. PICK u : u = [s EXCEPT !.kernel = q, !.terminal = e]
        OBVIOUS
      <4>2. u = [s EXCEPT !.terminal.disabled = FALSE, !.kernel.keys = TRUE]
        BY <2>3, <3>1, <4>1 DEF Seat
      <4>3. t = MakeUp(u, {"enable"})
        BY <1>2, <3>1, <4>2 DEF EnableInput
      <4>4. u.fault = s.fault /\ u.missed = s.missed
        BY <4>1 DEF Seat
      <4> QED
        BY <2>1, <3>1, <4>1, <4>3, <4>4 DEF MakeUp, Seat
    <3>2. CASE ~s.terminal.fd
      BY <1>2, <2>1, <2>3, <3>2 DEF EnableInput, Miss, Seat
    <3> QED
      BY <3>1, <3>2
  <2>6. Kept(s, q, e, m)
    BY <2>1, <2>3 DEF Kept, KeysFit, Seat, Kernel, TerminalObject
  <2>7. ModeSet(s, t)
    BY <2>2, <2>4, <2>5, <2>6, ModeSetIs
  <2>8. t.kernel = q /\ t.terminal = e
    BY <2>5 DEF Seat
  <2> QED
    BY <2>4, <2>7, <2>8
<1> QED
  BY <1>1, <1>2

LEMMA ModeSetIsTransitive ==
  ASSUME NEW s \in Seat, NEW t, NEW u, ModeSet(s, t), ModeSet(t, u)
  PROVE  ModeSet(s, u)
BY DEF ModeSet, SameVt, SameTerminal, SameMode

(* The attributes are those of the mode, if they can be set.                *)
LEMMA AttributesSet ==
  ASSUME NEW s \in Seat, NEW b \in BOOLEAN, NEW t,
         t = [EnableInput(s) EXCEPT !.kernel.raw = b],
         ~s.terminal.fd => b = s.kernel.raw
  PROVE  /\ ModeSet(s, t) /\ ~t.terminal.disabled /\ t.kernel.raw = b
<1>1. PICK u : u = EnableInput(s)
  OBVIOUS
<1>2. ModeSet(s, u) /\ ~u.terminal.disabled /\ u.kernel.raw = s.kernel.raw
  BY <1>1, EnableInputIs
<1>3. PICK q : q = [u.kernel EXCEPT !.raw = b]
  OBVIOUS
<1>4. /\ u \in Seat /\ u.terminal \in TerminalObject /\ u.missed \in SUBSET Missed
      /\ q \in Kernel /\ q.raw = b
  BY <1>2, <1>3 DEF ModeSet, Seat, Kernel
<1>5. t = [u EXCEPT !.kernel = q, !.terminal = u.terminal, !.missed = u.missed]
  <2>1. t = [u EXCEPT !.kernel = q]
    BY <1>1, <1>3
  <2>2. PICK e, m : e = u.terminal /\ m = u.missed
    OBVIOUS
  <2>3. t = [u EXCEPT !.kernel = q, !.terminal = e, !.missed = m]
    BY <1>4, <2>1, <2>2 DEF Seat
  <2> QED
    BY <2>2, <2>3
<1>6. u.terminal.fd = s.terminal.fd
  BY <1>2 DEF ModeSet, SameTerminal
<1>7. Kept(u, q, u.terminal, u.missed)
  BY <1>2, <1>3, <1>4, <1>6 DEF Kept, KeysFit, Seat, Kernel
<1>8. ModeSet(u, t)
  BY <1>4, <1>5, <1>7, ModeSetIs
<1>9. t.kernel = q /\ t.terminal = u.terminal
  BY <1>4, <1>5 DEF Seat
<1> QED
  BY <1>2, <1>4, <1>8, <1>9, ModeSetIsTransitive

LEMMA SetUnbufferedInputIs ==
  ASSUME NEW s \in Seat, NEW t, t = SetUnbufferedInput(s)
  PROVE  ModeSet(s, t)
<1>1. PICK b : b = (s.kernel.raw \/ s.terminal.fd)
  OBVIOUS
<1>2. b \in BOOLEAN /\ (~s.terminal.fd => b = s.kernel.raw)
  BY <1>1, SeatIs
<1>3. EnableInput(s).kernel.raw = s.kernel.raw
  BY EnableInputIs
<1>4. t = [EnableInput(s) EXCEPT !.kernel.raw = b]
  BY <1>1, <1>3 DEF SetUnbufferedInput
<1> QED
  BY <1>2, <1>4, AttributesSet

LEMMA SetBufferedInputIs ==
  ASSUME NEW s \in Seat, NEW t, t = SetBufferedInput(s)
  PROVE  /\ ModeSet(s, t)
         /\ s.terminal.fd => ~t.kernel.raw
         /\ KeysFit(s) => t.kernel.keys \/ "enable" \in t.missed
<1>1. PICK b : b = (s.kernel.raw /\ ~s.terminal.fd)
  OBVIOUS
<1>2. b \in BOOLEAN /\ (~s.terminal.fd => b = s.kernel.raw) /\ (s.terminal.fd => ~b)
  BY <1>1, SeatIs
<1>3. EnableInput(s).kernel.raw = s.kernel.raw
  BY EnableInputIs
<1>4. t = [EnableInput(s) EXCEPT !.kernel.raw = b]
  BY <1>1, <1>3 DEF SetBufferedInput
<1>5. ModeSet(s, t) /\ ~t.terminal.disabled /\ t.kernel.raw = b
  BY <1>2, <1>4, AttributesSet
<1> QED
  BY <1>2, <1>5 DEF ModeSet, SameMode, KeysFit

LEMMA SetDisabledInputIs ==
  ASSUME NEW s \in Seat, NEW t, t = SetDisabledInput(s)
  PROVE  ModeSet(s, t)
<1>1. CASE s.terminal.disabled
  BY <1>1 DEF SetDisabledInput, ModeSet, SameVt, SameTerminal, SameMode
<1>2. CASE ~s.terminal.disabled
  <2>1. PICK q, e : /\ q = [s.kernel EXCEPT !.keys = @ /\ ~s.terminal.fd]
                    /\ e = [s.terminal EXCEPT !.disabled = TRUE]
    OBVIOUS
  <2>2. q \in Kernel /\ e \in TerminalObject /\ s.missed \in SUBSET Missed
    BY <2>1 DEF Seat, Kernel, TerminalObject
  <2>3. t = [s EXCEPT !.kernel = q, !.terminal = e, !.missed = s.missed]
    BY <1>2, <2>1 DEF SetDisabledInput, Seat
  <2>4. Kept(s, q, e, s.missed)
    BY <2>1 DEF Kept, KeysFit, Seat, Kernel, TerminalObject
  <2> QED
    BY <2>2, <2>3, <2>4, ModeSetIs
<1> QED
  BY <1>1, <1>2

LEMMA SetInputModeIs ==
  ASSUME NEW s \in Seat, NEW t, t = SetInputMode(s)
  PROVE  ModeSet(s, t)
BY SetDisabledInputIs, SetUnbufferedInputIs DEF SetInputMode

-----------------------------------------------------------------------------
(* A hasty user ends the daemon, which changes nothing else.                *)
LEMMA UnreadyIs ==
  ASSUME NEW s \in Seat, NEW t, t = Unready(s)
  PROVE  /\ t \in Seat /\ t.kernel = s.kernel /\ t.terminal = s.terminal
         /\ t.card = s.card /\ t.renderer = s.renderer /\ t.missed = s.missed
         /\ t.fault \in {s.fault, s.fault \cup {"unready"}}
<1>1. PICK f : f = IF s.kernel.process /\ s.kernel.hasty THEN s.fault \cup {"unready"}
                                                        ELSE s.fault
  OBVIOUS
<1>2. f \subseteq {"killed", "unready", "open twice", "freed watch", "no buffer"}
  BY <1>1, SeatIs
<1>3. t = [s EXCEPT !.fault = f]
  BY <1>1 DEF Unready, Fault, Seat
<1> QED
  BY <1>1, <1>2, <1>3 DEF Seat

LEMMA WatchForVtChangesIs ==
  ASSUME NEW s \in Seat, NEW t, t = WatchForVtChanges(s)
  PROVE  /\ ~s.terminal.fd \/ s.terminal.watching => t = s
         /\ s.terminal.fd /\ ~s.terminal.watching =>
                /\ t.terminal = [s.terminal EXCEPT !.watching = TRUE]
                /\ t.kernel = [s.kernel EXCEPT !.process = TRUE]
         /\ t \in Seat
         /\ t.card = s.card /\ t.renderer = s.renderer /\ t.missed = s.missed
         /\ t.fault \in {s.fault, s.fault \cup {"unready"}}
<1>1. CASE ~s.terminal.fd \/ s.terminal.watching
  BY <1>1 DEF WatchForVtChanges
<1>2. CASE s.terminal.fd /\ ~s.terminal.watching
  <2>1. PICK k, e : /\ k = [s.kernel EXCEPT !.process = TRUE]
                    /\ e = [s.terminal EXCEPT !.watching = TRUE]
    OBVIOUS
  <2>2. k \in Kernel /\ e \in TerminalObject
    BY <2>1 DEF Seat, Kernel, TerminalObject
  <2>3. PICK u : u = [s EXCEPT !.kernel = k, !.terminal = e]
    OBVIOUS
  <2>4. /\ u \in Seat /\ u.kernel = k /\ u.terminal = e /\ u.card = s.card
        /\ u.renderer = s.renderer /\ u.missed = s.missed /\ u.fault = s.fault
    BY <2>2, <2>3 DEF Seat
  <2>5. t = Unready(u)
    BY <1>2, <2>1, <2>3 DEF WatchForVtChanges, Seat
  <2> QED
    BY <1>2, <2>1, <2>4, <2>5, UnreadyIs
<1> QED
  BY <1>1, <1>2

LEMMA StopWatchingIs ==
  ASSUME NEW s \in Seat, NEW t, t = StopWatchingForVtChanges(s)
  PROVE  /\ ~s.terminal.watching => t = s
         /\ s.terminal.watching => t.kernel.signals = <<>>
         /\ s.terminal.watching /\ s.terminal.fd => ~t.kernel.process /\ ~t.kernel.leaving
         /\ s.terminal.watching /\ ~s.terminal.fd => "auto" \in t.missed
         /\ \A x \in {"enable", "reopen", "listen"} : x \in s.missed => x \in t.missed
         /\ s.fault # {} /\ "auto" \in s.missed => "auto" \in t.missed
         /\ t.kernel.process => s.kernel.process
         /\ t.kernel.leaving => s.kernel.leaving
         /\ t \in Seat
         /\ t.card = s.card /\ t.renderer = s.renderer
         /\ t.fault \in {s.fault, s.fault \cup {"unready"}}
         /\ t.kernel.tty = s.kernel.tty /\ t.kernel.vt = s.kernel.vt
         /\ t.kernel.keys = s.kernel.keys /\ t.kernel.raw = s.kernel.raw
         /\ ~t.terminal.watching /\ t.terminal.fd = s.terminal.fd
         /\ t.terminal.watch = s.terminal.watch /\ t.terminal.open = s.terminal.open
         /\ t.terminal.active = s.terminal.active
         /\ t.terminal.disabled = s.terminal.disabled
         /\ t.terminal.tries = s.terminal.tries /\ t.terminal.timers = s.terminal.timers
         /\ t.terminal.gaveUp = s.terminal.gaveUp
<1>1. CASE ~s.terminal.watching
  BY <1>1 DEF StopWatchingForVtChanges
<1>2. CASE s.terminal.watching
  <2>1. PICK r : r = Unready(s)
    OBVIOUS
  <2>2. /\ r \in Seat /\ r.kernel = s.kernel /\ r.terminal = s.terminal
        /\ r.card = s.card /\ r.renderer = s.renderer /\ r.missed = s.missed
        /\ r.fault \in {s.fault, s.fault \cup {"unready"}}
    BY <2>1, UnreadyIs
  <2>3. PICK k, e, m :
            /\ k = IF s.terminal.fd
                   THEN [s.kernel EXCEPT !.signals = <<>>, !.process = FALSE,
                                         !.leaving = FALSE]
                   ELSE [s.kernel EXCEPT !.signals = <<>>]
            /\ e = [s.terminal EXCEPT !.watching = FALSE]
            /\ m = IF ~s.terminal.fd THEN s.missed \cup {"auto"}
                   ELSE IF r.fault # {} THEN s.missed ELSE s.missed \ {"auto", "release"}
    OBVIOUS
  <2>4. /\ k \in Kernel /\ e \in TerminalObject
        /\ k.signals = <<>> /\ k.tty = s.kernel.tty /\ k.vt = s.kernel.vt
        /\ k.keys = s.kernel.keys /\ k.raw = s.kernel.raw
        /\ s.terminal.fd => ~k.process /\ ~k.leaving
        /\ k.process => s.kernel.process
        /\ k.leaving => s.kernel.leaving
    <3>1. <<>> \in Seq({"leave", "enter"})
      OBVIOUS
    <3> QED
      BY <2>3, <3>1 DEF Seat, Kernel, TerminalObject
  <2>5. /\ m \in SUBSET Missed
        /\ ~s.terminal.fd => "auto" \in m
        /\ \A x \in {"enable", "reopen", "listen"} : x \in s.missed => x \in m
        /\ s.fault # {} /\ "auto" \in s.missed => "auto" \in m
    BY <2>2, <2>3, SeatIs DEF Missed
  <2>6. t = [r EXCEPT !.kernel = k, !.terminal = e, !.missed = m]
    <3>1. PICK v : v = [r EXCEPT !.terminal.watching = FALSE, !.kernel.signals = <<>>]
      OBVIOUS
    <3>2. v = [r EXCEPT !.kernel = [s.kernel EXCEPT !.signals = <<>>], !.terminal = e]
      BY <2>2, <2>3, <3>1 DEF Seat
    <3>3. v.fault = r.fault /\ v.missed = s.missed
      BY <2>2, <3>1 DEF Seat
    <3>4. CASE ~s.terminal.fd
      <4>1. t = Miss(v, "auto")
        BY <1>2, <2>1, <3>1, <3>4 DEF StopWatchingForVtChanges
      <4> QED
        BY <2>2, <2>3, <3>2, <3>3, <3>4, <4>1 DEF Miss, Seat
    <3>5. CASE s.terminal.fd
      <4>1. PICK w : w = [v EXCEPT !.kernel.process = FALSE, !.kernel.leaving = FALSE]
        OBVIOUS
      <4>2. t = MakeUp(w, {"auto", "release"})
        BY <1>2, <2>1, <3>1, <3>5, <4>1 DEF StopWatchingForVtChanges
      <4>3. w = [r EXCEPT !.kernel = k, !.terminal = e]
        BY <2>2, <2>3, <3>2, <3>5, <4>1 DEF Seat, Kernel
      <4>4. w.fault = r.fault /\ w.missed = s.missed
        BY <2>2, <4>3 DEF Seat
      <4> QED
        BY <2>2, <2>3, <3>5, <4>2, <4>3, <4>4 DEF MakeUp, Seat
    <3> QED
      BY <3>4, <3>5
  <2>7. /\ t.kernel = k /\ t.terminal = e /\ t \in Seat /\ t.card = s.card
        /\ t.renderer = s.renderer /\ t.fault = r.fault /\ t.missed = m
    BY <2>2, <2>4, <2>5, <2>6 DEF Seat
  <2>8. /\ ~e.watching /\ e.fd = s.terminal.fd
        /\ e.watch = s.terminal.watch /\ e.open = s.terminal.open
        /\ e.active = s.terminal.active /\ e.disabled = s.terminal.disabled
        /\ e.tries = s.terminal.tries /\ e.timers = s.terminal.timers
        /\ e.gaveUp = s.terminal.gaveUp
    BY <2>3 DEF Seat, TerminalObject
  <2> QED
    BY <1>2, <2>2, <2>4, <2>5, <2>7, <2>8
<1> QED
  BY <1>1, <1>2

(* No screen of another VT is taken from it.                                *)
LEMMA GoToIs ==
  ASSUME NEW s \in Seat, NEW vt \in Vt, NEW t, t = GoTo(s, vt), Ordered(s)
  PROVE  /\ t \in Seat /\ Ordered(t)
         /\ t.terminal = s.terminal /\ t.renderer = s.renderer
         /\ t.kernel.tty = s.kernel.tty /\ t.kernel.process = s.kernel.process
         /\ t.kernel.keys = s.kernel.keys /\ t.kernel.raw = s.kernel.raw
         /\ t.card.master = s.card.master
         /\ t.card.scan \in {s.card.scan, {}}
         /\ t.kernel.vt \in {s.kernel.vt, "ours"} \/ t.card.scan = {}
         /\ vt = "ours" => t.kernel.vt \in {s.kernel.vt, "ours"}
         /\ t.missed = s.missed
         /\ t.fault \in {s.fault, s.fault \cup {"killed"}}
         /\ (s.kernel.process => s.terminal.watching) => t.fault = s.fault
<1>1. ASSUME NEW what \in {"leave", "enter"}, NEW u \in Seat, NEW v, v = Signal(u, what)
      PROVE  /\ v \in Seat
             /\ v.terminal = u.terminal /\ v.renderer = u.renderer /\ v.card = u.card
             /\ v.missed = u.missed
             /\ v.fault \in {u.fault, u.fault \cup {"killed"}}
             /\ (u.kernel.process => u.terminal.watching) => v.fault = u.fault
             /\ u.kernel.process /\ u.terminal.watching =>
                    v.kernel = [u.kernel EXCEPT !.signals = Append(@, what)]
             /\ ~(u.kernel.process /\ u.terminal.watching) => v.kernel = u.kernel
  <2>1. CASE ~u.kernel.process
    BY <1>1, <2>1 DEF Signal
  <2>2. CASE u.kernel.process /\ u.terminal.watching
    <3>1. PICK q : q = Append(u.kernel.signals, what)
      OBVIOUS
    <3>2. q \in Seq({"leave", "enter"})
      <4>1. PICK r : r = u.kernel.signals
        OBVIOUS
      <4>2. r \in Seq({"leave", "enter"})
        BY <1>1, <4>1 DEF Seat, Kernel
      <4> QED
        BY <1>1, <3>1, <4>1, <4>2
    <3>3. PICK k : k = [u.kernel EXCEPT !.signals = q]
      OBVIOUS
    <3>4. k \in Kernel
      BY <1>1, <3>2, <3>3 DEF Seat, Kernel
    <3>5. v = [u EXCEPT !.kernel = k]
      BY <1>1, <2>2, <3>1, <3>3 DEF Signal
    <3> QED
      BY <1>1, <2>2, <3>1, <3>3, <3>4, <3>5 DEF Seat
  <2>3. CASE u.kernel.process /\ ~u.terminal.watching
    <3>1. PICK f : f = u.fault \cup {"killed"}
      OBVIOUS
    <3>2. f \subseteq {"killed", "unready", "open twice", "freed watch", "no buffer"}
      BY <1>1, <3>1, SeatIs
    <3>3. v = [u EXCEPT !.fault = f]
      BY <1>1, <2>3, <3>1 DEF Signal, Fault
    <3> QED
      BY <1>1, <2>3, <3>1, <3>2, <3>3 DEF Seat
  <2> QED
    BY <2>1, <2>2, <2>3
<1>2. ASSUME NEW v \in Vt, NEW u, u = ShowVt(s, v)
      PROVE  /\ u \in Seat /\ u.terminal = s.terminal /\ u.renderer = s.renderer
             /\ u.fault = s.fault /\ u.missed = s.missed
             /\ u.kernel.vt = v
             /\ u.kernel.tty = s.kernel.tty /\ u.kernel.process = s.kernel.process
             /\ u.kernel.leaving = s.kernel.leaving
             /\ u.kernel.signals = s.kernel.signals
             /\ u.kernel.keys = s.kernel.keys /\ u.kernel.raw = s.kernel.raw
             /\ u.card.master = s.card.master
             /\ u.card.scan = IF v = "ours" THEN s.card.scan ELSE {}
  <2>1. PICK c : c = IF v = "ours" THEN s.card.scan ELSE {}
    OBVIOUS
  <2>2. PICK k, d : k = [s.kernel EXCEPT !.vt = v] /\ d = [s.card EXCEPT !.scan = c]
    OBVIOUS
  <2>3. /\ k \in Kernel /\ d \in Card
        /\ k.vt = v /\ k.tty = s.kernel.tty /\ k.process = s.kernel.process
        /\ k.leaving = s.kernel.leaving /\ k.signals = s.kernel.signals
        /\ k.keys = s.kernel.keys /\ k.raw = s.kernel.raw
        /\ d.master = s.card.master /\ d.scan = c
    BY <1>2, <2>1, <2>2 DEF Seat, Kernel, Card
  <2>4. u = [s EXCEPT !.kernel = k, !.card = d]
    BY <1>2, <2>1, <2>2 DEF ShowVt, Seat
  <2> QED
    BY <2>1, <2>3, <2>4 DEF Seat
<1>3. CASE s.kernel.vt = vt \/ s.kernel.leaving
  BY <1>3 DEF GoTo
<1>4. CASE s.kernel.vt # vt /\ ~s.kernel.leaving /\ vt = "ours"
  <2>1. PICK u : u = ShowVt(s, "ours")
    OBVIOUS
  <2>2. t = Signal(u, "enter")
    BY <1>4, <2>1 DEF GoTo
  <2>3. s.kernel.signals = <<>> /\ s.kernel.vt = "other"
    BY <1>4, SeatIs DEF Ordered, Vt
  <2>4. /\ u \in Seat /\ u.terminal = s.terminal /\ u.renderer = s.renderer
        /\ u.fault = s.fault /\ u.missed = s.missed /\ u.kernel.vt = "ours"
        /\ u.kernel.tty = s.kernel.tty /\ u.kernel.process = s.kernel.process
        /\ ~u.kernel.leaving /\ u.kernel.signals = <<>>
        /\ u.kernel.keys = s.kernel.keys /\ u.kernel.raw = s.kernel.raw
        /\ u.card.master = s.card.master /\ u.card.scan = s.card.scan
    BY <1>2, <1>4, <2>1, <2>3 DEF Vt
  <2>5. /\ t \in Seat /\ t.terminal = s.terminal /\ t.renderer = s.renderer
        /\ t.card.master = s.card.master /\ t.card.scan = s.card.scan
        /\ t.missed = s.missed
        /\ t.fault \in {s.fault, s.fault \cup {"killed"}}
        /\ (s.kernel.process => s.terminal.watching) => t.fault = s.fault
    BY <1>1, <2>2, <2>4, ZenonT(60)
  <2>6. CASE u.kernel.process /\ u.terminal.watching
    <3>1. t.kernel = [u.kernel EXCEPT !.signals = Append(@, "enter")]
      BY <1>1, <2>2, <2>4, <2>6, ZenonT(60)
    <3>2. PICK q : q = Append(u.kernel.signals, "enter")
      OBVIOUS
    <3>3. q # <<>> /\ \A i \in 1 .. Len(q) : q[i] # "leave"
      BY <2>4, <3>2
    <3>4. /\ t.kernel.signals = q /\ t.kernel.vt = "ours"
          /\ t.kernel.tty = s.kernel.tty /\ t.kernel.process = s.kernel.process
          /\ ~t.kernel.leaving
          /\ t.kernel.keys = s.kernel.keys /\ t.kernel.raw = s.kernel.raw
      BY <2>4, <3>1, <3>2 DEF Seat, Kernel
    <3> QED
      <4>1. Ordered(t)
        BY <2>3, <2>4, <2>5, <2>6, <3>3, <3>4 DEF Ordered
      <4> QED
        BY <1>4, <2>5, <3>4, <4>1
  <2>7. CASE ~(u.kernel.process /\ u.terminal.watching)
    <3>1. t.kernel = u.kernel
      BY <1>1, <2>2, <2>4, <2>7
    <3> QED
      BY <1>4, <2>3, <2>4, <2>5, <2>7, <3>1 DEF Ordered
  <2> QED
    BY <2>6, <2>7
<1>5. CASE s.kernel.vt # vt /\ ~s.kernel.leaving /\ vt = "other" /\ s.kernel.process
  <2>1. PICK k : k = [s.kernel EXCEPT !.leaving = TRUE]
    OBVIOUS
  <2>2. PICK u : u = [s EXCEPT !.kernel = k]
    OBVIOUS
  <2>3. t = Signal(u, "leave")
    BY <1>5, <2>1, <2>2 DEF GoTo
  <2>4. /\ s.kernel.vt = "ours"
        /\ \A i \in 1 .. Len(s.kernel.signals) : s.kernel.signals[i] # "leave"
    BY <1>5, SeatIs DEF Ordered, Vt
  <2>5. /\ k \in Kernel /\ k.vt = "ours" /\ k.leaving
        /\ k.tty = s.kernel.tty /\ k.process = s.kernel.process
        /\ k.signals = s.kernel.signals
        /\ k.keys = s.kernel.keys /\ k.raw = s.kernel.raw
    BY <2>1, <2>4, SeatIs DEF Kernel
  <2>6. /\ u \in Seat /\ u.terminal = s.terminal /\ u.renderer = s.renderer
        /\ u.fault = s.fault /\ u.missed = s.missed /\ u.card = s.card /\ u.kernel = k
    BY <2>2, <2>5 DEF Seat
  <2>7. /\ t \in Seat /\ t.terminal = s.terminal /\ t.renderer = s.renderer
        /\ t.card.master = s.card.master /\ t.card.scan = s.card.scan
        /\ t.missed = s.missed
        /\ t.fault \in {s.fault, s.fault \cup {"killed"}}
        /\ (s.kernel.process => s.terminal.watching) => t.fault = s.fault
    BY <1>1, <2>3, <2>5, <2>6, ZenonT(60)
  <2>8. CASE u.kernel.process /\ u.terminal.watching
    <3>1. t.kernel = [u.kernel EXCEPT !.signals = Append(@, "leave")]
      BY <1>1, <2>3, <2>6, <2>8
    <3>2. PICK q : q = Append(u.kernel.signals, "leave")
      OBVIOUS
    <3>3. \A i \in 1 .. Len(q) : q[i] = "leave" => i = Len(q)
      <4>1. PICK r : r = s.kernel.signals
        OBVIOUS
      <4>2. r \in Seq({"leave", "enter"}) /\ q = Append(r, "leave")
        BY <2>5, <2>6, <3>2, <4>1 DEF Seat, Kernel
      <4>3. \A i \in 1 .. Len(r) : r[i] # "leave"
        BY <2>4, <4>1
      <4> QED
        BY <4>2, <4>3
    <3>4. /\ t.kernel.signals = q /\ t.kernel.vt = "ours" /\ t.kernel.leaving
          /\ t.kernel.tty = s.kernel.tty /\ t.kernel.process = s.kernel.process
          /\ t.kernel.keys = s.kernel.keys /\ t.kernel.raw = s.kernel.raw
      BY <2>5, <2>6, <3>1, <3>2 DEF Kernel
    <3> QED
      BY <1>5, <2>4, <2>5, <2>6, <2>7, <2>8, <3>3, <3>4 DEF Ordered
  <2>9. CASE ~(u.kernel.process /\ u.terminal.watching)
    <3>1. t.kernel = u.kernel
      <4>1. u \in Seat /\ "leave" \in {"leave", "enter"}
        BY <2>6
      <4> QED
        BY <1>1, <2>3, <2>9, <4>1, ZenonT(60)
    <3>2. Ordered(t)
      BY <2>4, <2>5, <2>6, <2>7, <2>9, <3>1 DEF Ordered
    <3> QED
      BY <1>5, <2>4, <2>5, <2>6, <2>7, <3>1, <3>2
  <2> QED
    BY <2>8, <2>9
<1>6. CASE s.kernel.vt # vt /\ ~s.kernel.leaving /\ vt = "other" /\ ~s.kernel.process
  <2>1. t = ShowVt(s, "other")
    BY <1>6 DEF GoTo
  <2> QED
    BY <1>2, <1>6, <2>1 DEF Ordered, Vt
<1> QED
  BY <1>3, <1>4, <1>5, <1>6 DEF Vt

-----------------------------------------------------------------------------
(* What a release of the console leaves alone. The scan-out buffers of      *)
(* another VT are not ours.                                                 *)
Releases(s, t) ==
    /\ t \in Seat /\ t.renderer = s.renderer
    /\ Ordered(s) => Ordered(t)
    /\ Wired(s) => Wired(t)
    /\ Ordered(s) /\ Wired(s) /\ Explained(s) /\ ~s.renderer.source => Explained(t)
    /\ t.terminal.open => s.terminal.open
    /\ t.terminal.tries = s.terminal.tries
    /\ t.card.scan \subseteq s.card.scan
    /\ t.kernel.vt \in {s.kernel.vt, "ours"} \/ t.card.scan = {}

LEMMA ReleaseIsTransitive ==
  ASSUME NEW s \in Seat, NEW t, NEW u, Ordered(s), Releases(s, t), Releases(t, u)
  PROVE  Releases(s, u)
BY DEF Releases

LEMMA SetBufferedReleases ==
  ASSUME NEW s \in Seat, NEW t, t = SetBufferedInput(s)
  PROVE  Releases(s, t) /\ SameTerminal(s, t)
<1>1. ModeSet(s, t)
  BY SetBufferedInputIs
<1> QED
  BY <1>1, ZenonT(60) DEF ModeSet, SameVt, SameTerminal, SameMode, Releases, Ordered, Wired, Explained

LEMMA StopWatchingReleases ==
  ASSUME NEW s \in Seat, NEW t, t = StopWatchingForVtChanges(s)
  PROVE  Releases(s, t) /\ ~t.terminal.watching
<1>1. /\ t \in Seat /\ t.renderer = s.renderer /\ t.card = s.card
      /\ t.fault \in {s.fault, s.fault \cup {"unready"}}
      /\ ~t.terminal.watching /\ t.terminal.open = s.terminal.open
      /\ t.terminal.tries = s.terminal.tries
  BY StopWatchingIs
<1>2. Ordered(s) => Ordered(t)
  <2>1. CASE ~s.terminal.watching
    BY <2>1, StopWatchingIs
  <2>2. CASE s.terminal.watching
    <3>1. t.kernel.signals = <<>> /\ Len(t.kernel.signals) = 0
      BY <2>2, StopWatchingIs
    <3>2. /\ t.kernel.leaving => s.kernel.leaving
          /\ t.kernel.process => s.kernel.process
          /\ t.kernel.vt = s.kernel.vt
          /\ t.terminal.active = s.terminal.active
      BY StopWatchingIs
    <3> QED
      BY <1>1, <3>1, <3>2 DEF Ordered
  <2> QED
    BY <2>1, <2>2
<1>3. Wired(s) => Wired(t)
  BY <1>1, StopWatchingIs DEF Wired
<1>4. Explained(s) => Explained(t)
  <2>1. SUFFICES ASSUME Explained(s) PROVE Explained(t)
    OBVIOUS
  <2>2. CASE ~s.terminal.watching
    <3>1. t = s
      BY <2>2, StopWatchingIs
    <3> QED
      BY <2>1, <3>1
  <2>3. CASE s.terminal.watching
    <3>1. t.kernel.process => "auto" \in t.missed
      BY <2>3, StopWatchingIs
    <3>2. "killed" \in t.fault => "auto" \in t.missed
      <4>1. SUFFICES ASSUME "killed" \in t.fault PROVE "auto" \in t.missed
        OBVIOUS
      <4>2. "killed" \in s.fault
        BY <1>1, <4>1
      <4> QED
        BY <2>1, <4>2, StopWatchingIs DEF Explained
    <3>3. /\ t.kernel.keys = s.kernel.keys /\ t.kernel.raw = s.kernel.raw
          /\ t.terminal.fd = s.terminal.fd
          /\ t.terminal.disabled = s.terminal.disabled
          /\ t.terminal.timers = s.terminal.timers
          /\ "enable" \in s.missed => "enable" \in t.missed
          /\ "reopen" \in s.missed => "reopen" \in t.missed
          /\ "listen" \in s.missed => "listen" \in t.missed
      BY StopWatchingIs
    <3>4. /\ "open twice" \in t.fault => "open twice" \in s.fault
          /\ "freed watch" \in t.fault => "freed watch" \in s.fault
      BY <1>1
    <3> QED
      BY <1>1, <2>1, <3>1, <3>2, <3>3, <3>4 DEF Explained, KeysFit
  <2> QED
    BY <2>2, <2>3
<1> QED
  BY <1>1, <1>2, <1>3, <1>4, StopWatchingIs DEF Releases

LEMMA DeactivateVtReleases ==
  ASSUME NEW s \in Seat, NEW t, t = DeactivateVt(s), Ordered(s)
  PROVE  Releases(s, t)
<1>1. CASE s.terminal.initial = "ours"
  BY <1>1 DEF DeactivateVt, Releases
<1>2. CASE s.terminal.initial # "ours"
  <2>1. PICK u : u = StopWatchingForVtChanges(s)
    OBVIOUS
  <2>2. Releases(s, u) /\ ~u.terminal.watching
    BY <2>1, StopWatchingReleases
  <2>3. CASE ~(u.terminal.active /\ u.terminal.fd)
    <3>1. t = u
      BY <1>2, <2>1, <2>3 DEF DeactivateVt, Then
    <3> QED
      BY <2>2, <3>1
  <2>4. CASE u.terminal.active /\ u.terminal.fd
    <3>1. t = GoTo(u, "other")
      BY <1>2, <2>1, <2>4 DEF DeactivateVt, Then
    <3>2. u \in Seat /\ Ordered(u) /\ "other" \in Vt
      BY <2>2 DEF Releases, Vt
    <3>3. /\ t \in Seat /\ Ordered(t)
          /\ t.terminal = u.terminal /\ t.renderer = u.renderer
          /\ t.kernel.tty = u.kernel.tty /\ t.kernel.process = u.kernel.process
          /\ t.kernel.keys = u.kernel.keys /\ t.kernel.raw = u.kernel.raw
          /\ t.card.scan \subseteq u.card.scan
          /\ t.kernel.vt \in {u.kernel.vt, "ours"} \/ t.card.scan = {}
          /\ t.missed = u.missed
          /\ t.fault \in {u.fault, u.fault \cup {"killed"}}
          /\ (u.kernel.process => u.terminal.watching) => t.fault = u.fault
      <4>1. t.card.scan \in {u.card.scan, {}}
        BY <3>1, <3>2, GoToIs
      <4> QED
        BY <3>1, <3>2, <4>1, GoToIs
    <3>4. Explained(u) => Explained(t)
      BY <3>3 DEF Explained, KeysFit
    <3>5. Releases(u, t)
      BY <3>3, <3>4 DEF Releases, Wired
    <3> QED
      BY <2>2, <3>5, ReleaseIsTransitive
  <2> QED
    BY <2>3, <2>4
<1> QED
  BY <1>1, <1>2

LEMMA CloseReleases ==
  ASSUME NEW s \in Seat, NEW t, t = Close(s), Ordered(s), Wired(s)
  PROVE  Releases(s, t) /\ ~t.terminal.open /\ ~t.terminal.watching
<1>1. CASE ~s.terminal.open
  BY <1>1 DEF Close, Releases, Wired
<1>2. CASE s.terminal.open
  <2>1. PICK u : u = StopWatchingForVtChanges(s)
    OBVIOUS
  <2>2. Releases(s, u) /\ ~u.terminal.watching
    BY <2>1, StopWatchingReleases
  <2>3. PICK e : e = [u.terminal EXCEPT !.open = FALSE, !.watch = FALSE]
    OBVIOUS
  <2>4. PICK v : v = [u EXCEPT !.terminal = e]
    OBVIOUS
  <2>5. PICK w : w = SetBufferedInput(v)
    OBVIOUS
  <2>6. t = [(IF w.terminal.timers = 0 THEN w ELSE Miss(w, "reopen")) EXCEPT
                  !.terminal.fd = FALSE]
    <3>1. v = [u EXCEPT !.terminal.open = FALSE, !.terminal.watch = FALSE]
      BY <2>2, <2>3, <2>4 DEF Releases, Seat
    <3> QED
      BY <1>2, <2>1, <2>5, <3>1 DEF Close, Then
  <2>7. /\ v \in Seat /\ v.renderer = u.renderer /\ v.card = u.card /\ v.fault = u.fault
        /\ v.kernel = u.kernel /\ v.missed = u.missed
        /\ ~v.terminal.watch /\ ~v.terminal.open /\ ~v.terminal.watching
        /\ v.terminal.fd = u.terminal.fd /\ v.terminal.active = u.terminal.active
        /\ v.terminal.disabled = u.terminal.disabled
        /\ v.terminal.tries = u.terminal.tries /\ v.terminal.timers = u.terminal.timers
        /\ v.terminal.gaveUp = u.terminal.gaveUp
    BY <2>2, <2>3, <2>4 DEF Releases, Seat, TerminalObject
  <2>8. /\ ModeSet(v, w)
        /\ v.terminal.fd => ~w.kernel.raw
        /\ KeysFit(v) => w.kernel.keys \/ "enable" \in w.missed
    BY <2>5, <2>7, SetBufferedInputIs
  <2>9. PICK f, m : /\ f = [w.terminal EXCEPT !.fd = FALSE]
                    /\ m = IF w.terminal.timers = 0 THEN w.missed
                                                    ELSE w.missed \cup {"reopen"}
    OBVIOUS
  <2>10. /\ f \in TerminalObject
         /\ ~f.fd /\ f.watch = w.terminal.watch
         /\ f.open = w.terminal.open /\ f.active = w.terminal.active
         /\ f.watching = w.terminal.watching
         /\ f.tries = w.terminal.tries /\ f.timers = w.terminal.timers
         /\ f.gaveUp = w.terminal.gaveUp
    BY <2>8, <2>9 DEF ModeSet, Seat, TerminalObject
  <2>11. w \in Seat /\ m \in SUBSET Missed
    BY <2>8, <2>9, SeatIs DEF ModeSet, Missed
  <2>12. t = [w EXCEPT !.terminal = f, !.missed = m]
    BY <2>6, <2>9, <2>11 DEF Miss, Seat
  <2>13. /\ t \in Seat /\ t.renderer = w.renderer /\ t.card = w.card /\ t.fault = w.fault
         /\ t.kernel = w.kernel /\ t.missed = m
         /\ ~t.terminal.fd /\ t.terminal.watch = w.terminal.watch
         /\ t.terminal.open = w.terminal.open /\ t.terminal.active = w.terminal.active
         /\ t.terminal.watching = w.terminal.watching
         /\ t.terminal.tries = w.terminal.tries /\ t.terminal.timers = w.terminal.timers
         /\ t.terminal.gaveUp = w.terminal.gaveUp
    BY <2>10, <2>11, <2>12 DEF Seat
  <2>14. /\ ~t.terminal.watch /\ ~t.terminal.open /\ ~t.terminal.watching
         /\ t.terminal.active = u.terminal.active
         /\ t.terminal.tries = u.terminal.tries /\ t.terminal.timers = u.terminal.timers
         /\ t.renderer = u.renderer /\ t.card = u.card /\ t.fault = u.fault
         /\ SameVt(u, t)
    BY <2>7, <2>8, <2>13 DEF ModeSet, SameTerminal, SameVt
  <2>15. Ordered(u) => Ordered(t)
    BY <2>14, <2>2 DEF SameVt, Ordered
  <2>16. Wired(u) => Wired(t)
    BY <2>13, <2>14 DEF Wired
  <2>17. ASSUME Explained(u) PROVE Explained(t)
    <3>1. \A x \in Missed : x \in w.missed => x \in t.missed
      BY <2>9, <2>13
    <3>2. /\ "auto" \in u.missed => "auto" \in t.missed
          /\ "reopen" \in u.missed => "reopen" \in t.missed
          /\ "listen" \in u.missed => "listen" \in t.missed
      BY <2>7, <2>8, <3>1 DEF ModeSet, SameMode, Missed
    <3>3. t.terminal.timers > 0 => "reopen" \in t.missed
      <4>1. w.terminal.timers \in Nat
        BY <2>11, SeatIs
      <4>2. t.terminal.timers > 0 => w.terminal.timers # 0
        BY <2>13, <4>1
      <4> QED
        BY <2>9, <2>13, <4>2
    <3>4. KeysFit(v)
      BY <2>7, <2>17 DEF Explained, KeysFit
    <3>5. t.kernel.keys \/ "enable" \in t.missed
      BY <2>8, <2>13, <3>1, <3>4 DEF Missed
    <3>6. ~t.kernel.raw
      BY <2>7, <2>8, <2>13, <2>17 DEF ModeSet, SameMode, Explained
    <3>7. t.kernel.process => "auto" \in t.missed
      BY <2>2, <2>14, <2>17, <3>2 DEF Explained, SameVt
    <3>8. t.terminal.timers > 1 => t.terminal.timers > 0
      <4>1. t.terminal.timers \in Nat
        BY <2>13, SeatIs
      <4> QED
        BY <4>1
    <3> QED
      BY <2>13, <2>14, <2>17, <3>2, <3>3, <3>5, <3>6, <3>7, <3>8
         DEF Explained, KeysFit
  <2>18. Releases(u, t)
    BY <2>13, <2>14, <2>15, <2>16, <2>17 DEF Releases, SameVt
  <2> QED
    BY <2>2, <2>14, <2>18, ReleaseIsTransitive
<1> QED
  BY <1>1, <1>2


-----------------------------------------------------------------------------
(* What opening the device leaves alone                                     *)
Opens(s, t) ==
    /\ t \in Seat /\ SameVt(s, t) /\ t.card = s.card /\ t.renderer = s.renderer
    /\ t.terminal.open = s.terminal.open /\ t.terminal.active = s.terminal.active
    /\ t.terminal.watching = s.terminal.watching
    /\ t.terminal.fd <=> t.terminal.watch
    /\ s.terminal.fd => t.terminal.fd
    /\ KeysFit(s) => KeysFit(t)
    /\ ~t.terminal.fd =>
           /\ t.kernel.keys = s.kernel.keys /\ t.kernel.raw = s.kernel.raw
           /\ "enable" \in s.missed => "enable" \in t.missed
    /\ "auto" \in s.missed => "auto" \in t.missed
    /\ "reopen" \in s.missed => "reopen" \in t.missed
    /\ "listen" \in s.missed => "listen" \in t.missed
    /\ t.fault = IF s.terminal.fd THEN s.fault \cup {"open twice"} ELSE s.fault

LEMMA TriesAre ==
  /\ 0 \in 0 .. Retries /\ 0 < Retries
  /\ \A n \in 0 .. Retries : n < Retries => n + 1 \in 0 .. Retries /\ n + 1 # 0
BY RetriesAssumption

LEMMA OpenDeviceIs ==
  ASSUME NEW s \in Seat, NEW t, t = OpenDevice(s), s.terminal.fd <=> s.terminal.watch
  PROVE  /\ Opens(s, t)
         /\ t.terminal.gaveUp = s.terminal.gaveUp
         /\ t.terminal.timers = s.terminal.timers
         /\ t.terminal.tries \in {s.terminal.tries, 0}
         /\ ~s.terminal.fd /\ t.terminal.fd => t.terminal.tries = 0
<1>1. CASE s.terminal.fd
  <2>1. PICK f : f = s.fault \cup {"open twice"}
    OBVIOUS
  <2>2. f \subseteq {"killed", "unready", "open twice", "freed watch", "no buffer"} /\ f # {}
    BY <2>1 DEF Seat
  <2>3. t = [s EXCEPT !.fault = f]
    BY <1>1, <2>1 DEF OpenDevice, Fault
  <2> QED
    BY <1>1, <2>1, <2>2, <2>3 DEF Seat, Opens, SameVt, KeysFit
<1>2. CASE ~s.terminal.fd /\ s.kernel.tty = "good"
  <2>1. PICK e : e = [s.terminal EXCEPT !.fd = TRUE, !.watch = TRUE, !.tries = 0]
    OBVIOUS
  <2>2. /\ e \in TerminalObject /\ e.fd /\ e.watch /\ e.tries = 0
        /\ e.open = s.terminal.open /\ e.active = s.terminal.active
        /\ e.watching = s.terminal.watching /\ e.gaveUp = s.terminal.gaveUp
        /\ e.timers = s.terminal.timers /\ e.disabled = s.terminal.disabled
    BY <2>1, TriesAre DEF Seat, TerminalObject
  <2>3. PICK u : u = [s EXCEPT !.terminal = e]
    OBVIOUS
  <2>4. /\ u \in Seat /\ u.kernel = s.kernel /\ u.terminal = e /\ u.card = s.card
        /\ u.renderer = s.renderer /\ u.fault = s.fault /\ u.missed = s.missed
    BY <2>2, <2>3 DEF Seat
  <2>5. t = SetUnbufferedInput(u)
    <3>1. u = [s EXCEPT !.terminal.fd = TRUE, !.terminal.watch = TRUE,
                        !.terminal.tries = 0]
      BY <2>1, <2>3 DEF Seat
    <3> QED
      BY <1>2, <3>1 DEF OpenDevice
  <2>6. ModeSet(u, t)
    BY <2>4, <2>5, SetUnbufferedInputIs
  <2>7. KeysFit(s) => KeysFit(t)
    BY <2>2, <2>4, <2>6 DEF ModeSet, SameMode, KeysFit
  <2> QED
    BY <1>2, <2>2, <2>4, <2>6, <2>7 DEF ModeSet, SameMode, SameVt, SameTerminal, Opens
<1>3. CASE ~s.terminal.fd /\ s.kernel.tty = "gone"
  <2>1. PICK e : e = [s.terminal EXCEPT !.tries = 0]
    OBVIOUS
  <2>2. /\ e \in TerminalObject /\ e.fd = s.terminal.fd /\ e.watch = s.terminal.watch
        /\ e.tries = 0
        /\ e.open = s.terminal.open /\ e.active = s.terminal.active
        /\ e.watching = s.terminal.watching /\ e.gaveUp = s.terminal.gaveUp
        /\ e.timers = s.terminal.timers /\ e.disabled = s.terminal.disabled
    BY <2>1, TriesAre DEF Seat, TerminalObject
  <2>3. t = [s EXCEPT !.terminal = e]
    BY <1>3, <2>1 DEF OpenDevice
  <2> QED
    BY <1>3, <2>2, <2>3 DEF Seat, Opens, SameVt, KeysFit
<1>4. CASE ~s.terminal.fd /\ s.kernel.tty \notin {"good", "gone"}
  BY <1>4 DEF OpenDevice, Opens, SameVt
<1> QED
  BY <1>1, <1>2, <1>3, <1>4

(* A device that is not open afterwards is tried again or was given up.     *)
LEMMA ReopenDeviceIs ==
  ASSUME NEW s \in Seat, NEW t, t = ReopenDevice(s), s.terminal.fd <=> s.terminal.watch,
         s.terminal.tries < Retries
  PROVE  /\ Opens(s, t)
         /\ ~t.terminal.fd => t.terminal.timers > 0 \/ t.terminal.gaveUp
         /\ t.terminal.fd => t.terminal.timers = s.terminal.timers
         /\ t.terminal.timers \in {s.terminal.timers, s.terminal.timers + 1}
         /\ t.fault = {} => t.terminal.tries < Retries
<1>1. PICK n : n = s.terminal.tries + 1
  OBVIOUS
<1>2. PICK d : d = [s.terminal EXCEPT !.tries = n]
  OBVIOUS
<1>3. n \in 0 .. Retries
  BY <1>1, TriesAre, SeatIs
<1>4. /\ d \in TerminalObject /\ d.tries = n
      /\ d.fd = s.terminal.fd /\ d.watch = s.terminal.watch
      /\ d.open = s.terminal.open /\ d.active = s.terminal.active
      /\ d.watching = s.terminal.watching /\ d.gaveUp = s.terminal.gaveUp
      /\ d.timers = s.terminal.timers /\ d.disabled = s.terminal.disabled
  BY <1>2, <1>3 DEF Seat, TerminalObject
<1>5. PICK v : v = [s EXCEPT !.terminal = d]
  OBVIOUS
<1>6. /\ v \in Seat /\ v.kernel = s.kernel /\ v.terminal = d /\ v.card = s.card
      /\ v.renderer = s.renderer /\ v.fault = s.fault /\ v.missed = s.missed
  BY <1>4, <1>5 DEF Seat
<1>7. PICK u : u = OpenDevice(v)
  OBVIOUS
<1>8. /\ Opens(v, u)
      /\ u.terminal.gaveUp = v.terminal.gaveUp
      /\ u.terminal.timers = v.terminal.timers
      /\ u.terminal.tries \in {v.terminal.tries, 0}
      /\ ~v.terminal.fd /\ u.terminal.fd => u.terminal.tries = 0
  BY <1>4, <1>6, <1>7, OpenDeviceIs
<1>9. /\ Opens(s, u) /\ u \in Seat
      /\ u.terminal.timers = s.terminal.timers /\ u.terminal.gaveUp = s.terminal.gaveUp
      /\ u.terminal.tries \in {n, 0}
      /\ ~s.terminal.fd /\ u.terminal.fd => u.terminal.tries = 0
      /\ s.terminal.fd => u.terminal.fd /\ u.fault # {}
  BY <1>4, <1>6, <1>8 DEF Opens, SameVt, KeysFit
<1>10. t = IF u.terminal.fd THEN u
           ELSE IF u.kernel.tty = "gone" THEN [u EXCEPT !.terminal.gaveUp = TRUE]
           ELSE IF u.terminal.tries < Retries
           THEN [u EXCEPT !.terminal.timers = @ + 1]
           ELSE [u EXCEPT !.terminal.tries = 0, !.terminal.gaveUp = TRUE]
  <2>1. v = [s EXCEPT !.terminal.tries = @ + 1]
    BY <1>1, <1>2, <1>5
  <2> QED
    BY <1>7, <2>1 DEF ReopenDevice
<1>11. CASE u.terminal.fd
  <2>1. t = u
    BY <1>10, <1>11
  <2>2. u.fault = {} => u.terminal.tries < Retries
    BY <1>9, <1>11, TriesAre
  <2> QED
    BY <1>9, <1>11, <2>1, <2>2
<1>12. CASE ~u.terminal.fd /\ u.kernel.tty = "gone"
  <2>1. u.terminal.tries = 0
    <3>1. v.terminal.fd = s.terminal.fd /\ ~s.terminal.fd /\ v.kernel.tty = "gone"
      BY <1>4, <1>6, <1>9, <1>12 DEF Opens, SameVt
    <3>2. u = [v EXCEPT !.terminal.tries = 0]
      BY <1>4, <1>6, <1>7, <3>1 DEF OpenDevice
    <3> QED
      BY <1>6, <3>2 DEF Seat, TerminalObject
  <2>2. PICK e : e = [u.terminal EXCEPT !.gaveUp = TRUE]
    OBVIOUS
  <2>3. t = [u EXCEPT !.terminal = e]
    BY <1>10, <1>12, <2>2
  <2>4. /\ e \in TerminalObject /\ e.tries = 0
        /\ e.fd = u.terminal.fd /\ e.watch = u.terminal.watch
        /\ e.open = u.terminal.open /\ e.active = u.terminal.active
        /\ e.watching = u.terminal.watching /\ e.gaveUp
        /\ e.timers = u.terminal.timers /\ e.disabled = u.terminal.disabled
    BY <1>9, <2>1, <2>2 DEF Seat, TerminalObject
  <2>5. /\ t \in Seat /\ t.kernel = u.kernel /\ t.terminal = e /\ t.card = u.card
        /\ t.renderer = u.renderer /\ t.fault = u.fault /\ t.missed = u.missed
    BY <1>9, <2>3, <2>4 DEF Seat
  <2> QED
    BY <1>9, <1>12, <2>4, <2>5, TriesAre DEF Opens, SameVt, KeysFit
<1>13. CASE ~u.terminal.fd /\ u.kernel.tty # "gone" /\ u.terminal.tries < Retries
  <2>1. PICK n2 : n2 = u.terminal.timers + 1
    OBVIOUS
  <2>2. n2 \in Nat /\ n2 > 0
    <3>1. u.terminal.timers \in Nat
      BY <1>9 DEF Seat, TerminalObject
    <3> QED
      BY <2>1, <3>1
  <2>3. PICK e : e = [u.terminal EXCEPT !.timers = n2]
    OBVIOUS
  <2>4. t = [u EXCEPT !.terminal = e]
    BY <1>10, <1>13, <2>1, <2>3
  <2>5. /\ e \in TerminalObject /\ e.tries = u.terminal.tries
        /\ e.fd = u.terminal.fd /\ e.watch = u.terminal.watch
        /\ e.open = u.terminal.open /\ e.active = u.terminal.active
        /\ e.watching = u.terminal.watching /\ e.timers = n2
        /\ e.disabled = u.terminal.disabled
    BY <1>9, <2>2, <2>3 DEF Seat, TerminalObject
  <2>6. /\ t \in Seat /\ t.kernel = u.kernel /\ t.terminal = e /\ t.card = u.card
        /\ t.renderer = u.renderer /\ t.fault = u.fault /\ t.missed = u.missed
    BY <1>9, <2>4, <2>5 DEF Seat
  <2> QED
    BY <1>9, <1>13, <2>1, <2>2, <2>5, <2>6 DEF Opens, SameVt, KeysFit
<1>14. CASE ~u.terminal.fd /\ u.kernel.tty # "gone" /\ ~(u.terminal.tries < Retries)
  <2>1. PICK e : e = [u.terminal EXCEPT !.tries = 0, !.gaveUp = TRUE]
    OBVIOUS
  <2>2. t = [u EXCEPT !.terminal = e]
    BY <1>9, <1>10, <1>14, <2>1 DEF Seat
  <2>3. /\ e \in TerminalObject /\ e.tries = 0
        /\ e.fd = u.terminal.fd /\ e.watch = u.terminal.watch
        /\ e.open = u.terminal.open /\ e.active = u.terminal.active
        /\ e.watching = u.terminal.watching /\ e.gaveUp
        /\ e.timers = u.terminal.timers /\ e.disabled = u.terminal.disabled
    BY <1>9, <2>1, TriesAre DEF Seat, TerminalObject
  <2>4. /\ t \in Seat /\ t.kernel = u.kernel /\ t.terminal = e /\ t.card = u.card
        /\ t.renderer = u.renderer /\ t.fault = u.fault /\ t.missed = u.missed
    BY <1>9, <2>2, <2>3 DEF Seat
  <2> QED
    BY <1>9, <1>14, <2>3, <2>4, TriesAre DEF Opens, SameVt, KeysFit
<1> QED
  BY <1>11, <1>12, <1>13, <1>14

(* A terminal that hung up is opened again at once if the device is there.  *)
LEMMA OnTtyDisconnectedIs ==
  ASSUME NEW s \in Seat, NEW t, t = OnTtyDisconnected(s)
  PROVE  /\ t \in Seat /\ SameVt(s, t) /\ t.card = s.card /\ t.renderer = s.renderer
         /\ t.terminal.open = s.terminal.open /\ t.terminal.active = s.terminal.active
         /\ t.terminal.watching = s.terminal.watching
         /\ t.terminal.fd <=> t.terminal.watch
         /\ ~t.terminal.fd => t.terminal.timers > 0 \/ t.terminal.gaveUp
         /\ t.fault = {} => t.terminal.tries < Retries
         /\ t.fault = s.fault
         /\ ~s.kernel.raw /\ s.terminal.fd /\ Explained(s) => Explained(t)
         /\ "listen" \in s.missed => "listen" \in t.missed
<1>1. PICK e : e = [s.terminal EXCEPT !.watch = FALSE, !.fd = FALSE, !.tries = 0]
  OBVIOUS
<1>2. /\ e \in TerminalObject /\ ~e.fd /\ ~e.watch /\ e.tries = 0
      /\ e.open = s.terminal.open /\ e.active = s.terminal.active
      /\ e.watching = s.terminal.watching /\ e.gaveUp = s.terminal.gaveUp
      /\ e.timers = s.terminal.timers /\ e.disabled = s.terminal.disabled
  BY <1>1, TriesAre DEF Seat, TerminalObject
<1>3. PICK u : u = [s EXCEPT !.terminal = e]
  OBVIOUS
<1>4. /\ u \in Seat /\ u.kernel = s.kernel /\ u.terminal = e /\ u.card = s.card
      /\ u.renderer = s.renderer /\ u.fault = s.fault /\ u.missed = s.missed
  BY <1>2, <1>3 DEF Seat
<1>5. t = ReopenDevice(u)
  <2>1. u = [s EXCEPT !.terminal.watch = FALSE, !.terminal.fd = FALSE,
                      !.terminal.tries = 0]
    BY <1>1, <1>3 DEF Seat
  <2> QED
    BY <2>1 DEF OnTtyDisconnected
<1>6. /\ Opens(u, t)
      /\ ~t.terminal.fd => t.terminal.timers > 0 \/ t.terminal.gaveUp
      /\ t.terminal.fd => t.terminal.timers = u.terminal.timers
      /\ t.terminal.timers \in {u.terminal.timers, u.terminal.timers + 1}
      /\ t.fault = {} => t.terminal.tries < Retries
  BY <1>2, <1>4, <1>5, TriesAre, ReopenDeviceIs
<1>7. ASSUME ~s.kernel.raw, s.terminal.fd, Explained(s) PROVE Explained(t)
  <2>1. KeysFit(t)
    BY <1>2, <1>4, <1>6, <1>7 DEF Opens, Explained, KeysFit
  <2>2. /\ t.terminal.timers > 0 =>
              (t.terminal.open /\ ~t.terminal.fd) \/ "reopen" \in t.missed
        /\ t.terminal.timers > 1 => "reopen" \in t.missed
    <3>1. CASE "reopen" \in s.missed
      BY <1>4, <1>6, <3>1 DEF Opens
    <3>2. CASE "reopen" \notin s.missed
      <4>1. ~(s.terminal.timers > 0) /\ s.terminal.timers \in Nat /\ s.terminal.open
        BY <1>7, <3>2, SeatIs DEF Explained
      <4>2. t.terminal.open = s.terminal.open
        BY <1>2, <1>4, <1>6 DEF Opens
      <4> QED
        BY <1>2, <1>4, <1>6, <4>1, <4>2
    <3> QED
      BY <3>1, <3>2
  <2>3. /\ t.terminal.fd => t.terminal.open \/ "reopen" \in t.missed
        /\ t.kernel.process => t.terminal.watching \/ "auto" \in t.missed
        /\ t.renderer.watch = "freed" => "listen" \in t.missed
        /\ ~t.terminal.fd => ~t.kernel.raw
    BY <1>2, <1>4, <1>6, <1>7 DEF Opens, SameVt, Explained
  <2>4. ~t.terminal.fd /\ ~t.terminal.open => "reopen" \in t.missed
    BY <1>2, <1>4, <1>6, <1>7 DEF Opens, Explained
  <2> QED
    BY <1>2, <1>4, <1>6, <1>7, <2>1, <2>2, <2>3, <2>4 DEF Opens, Explained
<1> QED
  BY <1>2, <1>4, <1>6, <1>7 DEF Opens, SameVt

(* A console that is taken back knows the VT on the screen.                 *)
LEMMA OpenIs ==
  ASSUME NEW s \in Seat, NEW t, t = Open(s), ~s.terminal.open, s.fault = {},
         Wired(s), Ordered(s), s.terminal.tries < Retries
  PROVE  /\ t \in Seat /\ t.card = s.card /\ t.renderer = s.renderer
         /\ t.kernel.vt = s.kernel.vt /\ t.kernel.tty = s.kernel.tty
         /\ Wired(t) /\ Ordered(t)
         /\ t.terminal.open => t.terminal.watching
         /\ t.terminal.tries < Retries
         /\ ~t.terminal.open /\ t.fault = {} => ~t.terminal.fd
         /\ Explained(s) => Explained(t)
         /\ "listen" \in s.missed => "listen" \in t.missed
<1>1. PICK u : u = OpenDevice(s)
  OBVIOUS
<1>2. /\ Opens(s, u)
      /\ u.terminal.gaveUp = s.terminal.gaveUp
      /\ u.terminal.timers = s.terminal.timers
      /\ u.terminal.tries \in {s.terminal.tries, 0}
      /\ ~s.terminal.fd /\ u.terminal.fd => u.terminal.tries = 0
  BY <1>1, OpenDeviceIs DEF Wired
<1>3. t = IF ~u.terminal.fd \/ u.fault # {} THEN u
          ELSE [WatchForVtChanges(u) EXCEPT
                   !.terminal.active = u.kernel.vt = "ours", !.terminal.open = TRUE]
  BY <1>1 DEF Open, Then
<1>4. Wired(u) /\ Ordered(u) /\ ~u.terminal.open /\ ~u.terminal.watching
  <2>1. ~s.terminal.watching
    BY DEF Wired
  <2> QED
    BY <1>2, <2>1 DEF Opens, SameVt, Wired, Ordered
<1>5. u.terminal.tries < Retries
  BY <1>2, TriesAre
<1>6. ASSUME Explained(s)
      PROVE  /\ KeysFit(u)
             /\ u.terminal.timers > 0 => "reopen" \in u.missed
             /\ u.terminal.timers > 1 => "reopen" \in u.missed
             /\ s.terminal.fd => "reopen" \in u.missed
             /\ u.kernel.process => "auto" \in u.missed
             /\ u.renderer.watch = "freed" => "listen" \in u.missed
             /\ ~u.terminal.fd =>
                    /\ ~u.kernel.raw
                    /\ u.kernel.keys \/ "enable" \in u.missed \/ "reopen" \in u.missed
  BY <1>2, <1>4, <1>6 DEF Opens, SameVt, Explained, Wired
<1>7. CASE ~u.terminal.fd \/ u.fault # {}
  <2>1. t = u
    BY <1>3, <1>7
  <2>2. Explained(s) => Explained(u)
    <3>1. u.fault = (IF s.terminal.fd THEN {"open twice"} ELSE {})
      BY <1>2 DEF Opens
    <3>2. u.terminal.fd => s.terminal.fd
      BY <1>7, <3>1
    <3>3. /\ "killed" \notin u.fault /\ "freed watch" \notin u.fault
          /\ "open twice" \in u.fault => s.terminal.fd
      <4>1. PICK f : f = u.fault
        OBVIOUS
      <4>2. f = {} \/ (f = {"open twice"} /\ s.terminal.fd)
        BY <3>1, <4>1
      <4>3. "killed" \notin f /\ "freed watch" \notin f /\ ("open twice" \in f => s.terminal.fd)
        BY ONLY <4>2
      <4> QED
        BY <4>1, <4>3
    <3> QED
      BY <1>4, <1>6, <3>2, <3>3 DEF Explained
  <2> QED
    BY <1>2, <1>4, <1>5, <1>7, <2>1, <2>2 DEF Opens, SameVt
<1>8. CASE u.terminal.fd /\ u.fault = {}
  <2>1. PICK v : v = WatchForVtChanges(u)
    OBVIOUS
  <2>2. /\ v \in Seat /\ v.card = u.card /\ v.renderer = u.renderer
        /\ v.missed = u.missed /\ v.fault \in {{}, {"unready"}}
        /\ v.terminal = [u.terminal EXCEPT !.watching = TRUE]
        /\ v.kernel = [u.kernel EXCEPT !.process = TRUE]
    <3>1. u \in Seat
      BY <1>2 DEF Opens
    <3>2. /\ v \in Seat /\ v.card = u.card /\ v.renderer = u.renderer
          /\ v.missed = u.missed /\ v.fault \in {u.fault, u.fault \cup {"unready"}}
          /\ v.terminal = [u.terminal EXCEPT !.watching = TRUE]
          /\ v.kernel = [u.kernel EXCEPT !.process = TRUE]
      BY <1>4, <1>8, <2>1, <3>1, WatchForVtChangesIs, ZenonT(60)
    <3> QED
      BY <1>8, <3>2
  <2>3. PICK a : a = (u.kernel.vt = "ours")
    OBVIOUS
  <2>4. a \in BOOLEAN /\ (a => u.kernel.vt = "ours")
    BY <2>3
  <2>5. PICK e : e = [v.terminal EXCEPT !.active = a, !.open = TRUE]
    OBVIOUS
  <2>6. /\ e \in TerminalObject /\ e.open /\ e.watching /\ e.active = a
        /\ e.fd = u.terminal.fd /\ e.watch = u.terminal.watch
        /\ e.gaveUp = u.terminal.gaveUp /\ e.disabled = u.terminal.disabled
        /\ e.timers = u.terminal.timers /\ e.tries = u.terminal.tries
    BY <1>2, <2>2, <2>4, <2>5, ZenonT(60) DEF Opens, Seat, TerminalObject
  <2>7. t = [v EXCEPT !.terminal = e]
    BY <1>3, <1>8, <2>1, <2>2, <2>3, <2>5 DEF Seat
  <2>8. /\ t \in Seat /\ t.kernel = v.kernel /\ t.terminal = e /\ t.card = v.card
        /\ t.renderer = v.renderer /\ t.fault = v.fault /\ t.missed = v.missed
    BY <2>2, <2>6, <2>7 DEF Seat
  <2>9. /\ t.kernel.process /\ t.kernel.vt = u.kernel.vt
        /\ t.kernel.leaving = u.kernel.leaving /\ t.kernel.signals = u.kernel.signals
        /\ t.kernel.tty = u.kernel.tty
        /\ t.kernel.keys = u.kernel.keys /\ t.kernel.raw = u.kernel.raw
    <3>1. u \in Seat
      BY <1>2 DEF Opens
    <3>2. u.kernel \in Kernel /\ t.kernel = [u.kernel EXCEPT !.process = TRUE]
      BY <2>2, <2>8, <3>1 DEF Seat
    <3> QED
      BY <3>2 DEF Kernel
  <2>10. Ordered(t)
    <3>1. e.active => t.kernel.vt # "other"
      BY <2>4, <2>6, <2>9
    <3>2. t.kernel.signals = <<>> /\ Len(t.kernel.signals) = 0
      BY <1>4, <2>9 DEF Ordered
    <3>3. t.kernel.vt = "other" => ~t.kernel.leaving
      BY <1>4, <2>9 DEF Ordered
    <3>4. t.kernel.process /\ t.terminal.watching /\ t.terminal.active = e.active
      BY <2>6, <2>8, <2>9
    <3> QED
      BY <3>1, <3>2, <3>3, <3>4 DEF Ordered
  <2>11. Wired(t)
    <3>1. u.terminal.watch /\ t.renderer = u.renderer
      BY <1>4, <1>8, <2>2, <2>8 DEF Wired
    <3>2. /\ t.terminal.fd /\ t.terminal.watch
          /\ t.terminal.watching /\ t.terminal.open
      BY <1>8, <2>6, <2>8, <3>1
    <3> QED
      BY <1>4, <3>1, <3>2 DEF Wired
  <2>12. ~s.terminal.fd
    BY <1>2, <1>8 DEF Opens
  <2>13. Explained(s) => Explained(t)
    <3>1. SUFFICES ASSUME Explained(s) PROVE Explained(t)
      OBVIOUS
    <3>2. KeysFit(t)
      BY <1>6, <2>2, <2>6, <2>8, <2>9, <3>1 DEF KeysFit
    <3>3. /\ t.terminal.fd /\ t.terminal.open /\ t.terminal.watching
          /\ t.terminal.timers = u.terminal.timers
          /\ t.renderer = u.renderer /\ t.missed = u.missed
      BY <1>8, <2>2, <2>6, <2>8
    <3>4. "killed" \notin t.fault /\ "open twice" \notin t.fault /\ "freed watch" \notin t.fault
      <4>1. PICK f : f = t.fault
        OBVIOUS
      <4>2. f \in {{}, {"unready"}}
        BY <2>2, <2>8, <4>1
      <4>3. "killed" \notin f /\ "open twice" \notin f /\ "freed watch" \notin f
        BY ONLY <4>2
      <4> QED
        BY <4>1, <4>3
    <3> QED
      BY <1>6, <3>1, <3>2, <3>3, <3>4 DEF Explained
  <2> QED
    BY <1>2, <1>5, <1>8, <2>2, <2>6, <2>8, <2>9, <2>10, <2>11, <2>13 DEF Opens, SameVt
<1> QED
  BY <1>7, <1>8


-----------------------------------------------------------------------------
(* What drawing leaves alone. While the terminal knows the VT on the screen *)
(* a DRM card scans more of our buffers out on our VT only.                 *)
Draws(s, t) ==
    /\ t \in Seat /\ SameTerminal(s, t) /\ SameInput(s, t)
    /\ t.renderer.plugin = s.renderer.plugin
    /\ t.renderer.opened = s.renderer.opened
    /\ t.renderer.heads = s.renderer.heads
    /\ s.renderer.mapped => t.renderer.mapped
    /\ t.kernel.vt \in {s.kernel.vt, "ours"}
    /\ Ordered(s) => Ordered(t)
    /\ s.renderer.opened /\ Wired(s) => Wired(t)
    /\ Ordered(s) /\ Explained(s) => Explained(t)
    /\ s.renderer.plugin = "drm" /\ (s.terminal.active => s.kernel.vt = "ours") =>
           t.card.scan \subseteq s.card.scan \/ t.kernel.vt = "ours"

LEMMA DrawingIsTransitive ==
  ASSUME NEW s \in Seat, NEW t, NEW u, Ordered(s), Draws(s, t), Draws(t, u)
  PROVE  Draws(s, u)
<1>1. t \in Seat /\ u \in Seat /\ SameTerminal(s, t) /\ SameTerminal(t, u)
  BY DEF Draws
<1>2. SameTerminal(s, u) /\ SameInput(s, u)
  BY DEF Draws, SameTerminal, SameInput
<1>3. u.kernel.vt \in {s.kernel.vt, "ours"} /\ (t.kernel.vt = "ours" => u.kernel.vt = "ours")
  BY DEF Draws
<1>4. ASSUME s.renderer.plugin = "drm", s.terminal.active => s.kernel.vt = "ours"
      PROVE  u.card.scan \subseteq s.card.scan \/ u.kernel.vt = "ours"
  <2>1. t.renderer.plugin = "drm" /\ (t.terminal.active => t.kernel.vt = "ours")
    BY <1>1, <1>4 DEF Draws, SameTerminal
  <2>2. t.card.scan \subseteq s.card.scan \/ t.kernel.vt = "ours"
    BY <1>4 DEF Draws
  <2>3. u.card.scan \subseteq t.card.scan \/ u.kernel.vt = "ours"
    BY <2>1 DEF Draws
  <2> QED
    BY <1>3, <2>2, <2>3
<1> QED
  BY <1>1, <1>2, <1>3, <1>4 DEF Draws

(* What drawing does to the objects of the renderer and the card only.      *)
LEMMA RedrawDraws ==
  ASSUME NEW s \in Seat, NEW t \in Seat,
         t.kernel = s.kernel, t.terminal = s.terminal, t.fault = s.fault,
         t.missed = s.missed,
         SameInput(s, t),
         t.renderer.plugin = s.renderer.plugin,
         t.renderer.opened = s.renderer.opened,
         t.renderer.heads = s.renderer.heads,
         s.renderer.mapped => t.renderer.mapped,
         t.renderer.scans => s.renderer.scans \/ s.renderer.opened,
         s.renderer.plugin = "drm" =>
             t.card.scan \subseteq s.card.scan \/ s.terminal.active
  PROVE  Draws(s, t)
<1>1. SameTerminal(s, t)
  BY DEF SameTerminal
<1>2. Ordered(s) => Ordered(t)
  BY DEF Ordered
<1>3. s.renderer.opened /\ Wired(s) => Wired(t)
  BY DEF Wired, SameInput
<1>4. Explained(s) => Explained(t)
  BY DEF Explained, KeysFit, SameInput
<1> QED
  BY <1>1, <1>2, <1>3, <1>4 DEF Draws

LEMMA ModeSetDraws ==
  ASSUME NEW s \in Seat, NEW t, ModeSet(s, t)
  PROVE  Draws(s, t)
<1>1. Ordered(s) => Ordered(t)
  BY DEF Ordered, ModeSet, SameVt, SameTerminal
<1>2. Wired(s) => Wired(t)
  BY DEF Wired, ModeSet, SameTerminal
<1>3. Explained(s) => Explained(t)
  BY DEF Explained, ModeSet, SameVt, SameTerminal, SameMode
<1> QED
  BY <1>1, <1>2, <1>3 DEF Draws, ModeSet, SameVt, SameInput

LEMMA MapHeadsDraws ==
  ASSUME NEW s \in Seat, NEW hs \in SUBSET Controller, NEW t, t = MapHeads(s, hs)
  PROVE  /\ Draws(s, t) /\ t.card = s.card /\ t.terminal = s.terminal
         /\ t.renderer.mapped = s.renderer.mapped
         /\ t.renderer.scans = s.renderer.scans
<1>1. PICK b, r : /\ b = s.renderer.buffers \cup (hs \ s.card.full)
                  /\ r = s.renderer.reset \cup (hs \ s.card.full)
  OBVIOUS
<1>2. b \in SUBSET Controller /\ r \in SUBSET Controller
  BY <1>1 DEF Seat, RendererObject
<1>3. PICK o : o = [s.renderer EXCEPT !.buffers = b, !.reset = r]
  OBVIOUS
<1>4. /\ o \in RendererObject /\ o.plugin = s.renderer.plugin
      /\ o.opened = s.renderer.opened /\ o.heads = s.renderer.heads
      /\ o.mapped = s.renderer.mapped /\ o.scans = s.renderer.scans
      /\ o.source = s.renderer.source /\ o.watch = s.renderer.watch
      /\ o.devices = s.renderer.devices /\ o.watched = s.renderer.watched
  BY <1>2, <1>3 DEF Seat, RendererObject
<1>5. t = [s EXCEPT !.renderer = o]
  BY <1>1, <1>3 DEF MapHeads, Seat
<1>6. /\ t \in Seat /\ t.renderer = o /\ t.card = s.card /\ t.terminal = s.terminal
      /\ t.kernel = s.kernel /\ t.fault = s.fault /\ t.missed = s.missed
  BY <1>4, <1>5 DEF Seat
<1> QED
  BY <1>4, <1>6, RedrawDraws DEF SameInput

LEMMA ResetScanOutBuffersDraws ==
  ASSUME NEW s \in Seat, NEW hs \in SUBSET Controller, NEW t,
         t = ResetScanOutBuffers(s, hs)
  PROVE  /\ Draws(s, t)
         /\ t.renderer.mapped = s.renderer.mapped
         /\ t.renderer.scans = s.renderer.scans
<1>1. PICK gs : gs = {h \in hs : h \in s.renderer.reset \/ h \notin s.card.scan}
  OBVIOUS
<1>2. gs \in SUBSET Controller
  BY <1>1
<1>3. CASE ~s.terminal.active \/ ~s.card.master
  <2>1. t = s
    BY <1>3 DEF ResetScanOutBuffers, SetScanOutBuffers
  <2> QED
    BY <2>1, RedrawDraws DEF SameInput
<1>4. CASE s.terminal.active /\ s.card.master
  <2>1. PICK c, r : c = s.card.scan \cup gs /\ r = s.renderer.reset \ gs
    OBVIOUS
  <2>2. c \in SUBSET Controller /\ r \in SUBSET Controller
    BY <1>2, <2>1 DEF Seat, RendererObject, Card
  <2>3. PICK d, o : d = [s.card EXCEPT !.scan = c] /\ o = [s.renderer EXCEPT !.reset = r]
    OBVIOUS
  <2>4. /\ o \in RendererObject /\ o.plugin = s.renderer.plugin
        /\ o.opened = s.renderer.opened /\ o.heads = s.renderer.heads
        /\ o.mapped = s.renderer.mapped /\ o.scans = s.renderer.scans
        /\ o.source = s.renderer.source /\ o.watch = s.renderer.watch
        /\ o.devices = s.renderer.devices /\ o.watched = s.renderer.watched
    BY <2>2, <2>3 DEF Seat, RendererObject
  <2>5. d \in Card
    BY <2>2, <2>3 DEF Seat, Card
  <2>6. t = [s EXCEPT !.card = d, !.renderer = o]
    <3>1. t = SetScanOutBuffers(s, gs)
      BY <1>1, <1>4 DEF ResetScanOutBuffers
    <3> QED
      BY <1>4, <2>1, <2>3, <3>1 DEF SetScanOutBuffers, Seat
  <2>7. /\ t \in Seat /\ t.renderer = o /\ t.terminal = s.terminal
        /\ t.kernel = s.kernel /\ t.fault = s.fault /\ t.missed = s.missed
    BY <2>4, <2>5, <2>6 DEF Seat
  <2> QED
    BY <1>4, <2>4, <2>7, RedrawDraws DEF SameInput
<1> QED
  BY <1>3, <1>4

LEMMA DrmFlushHeadsDraws ==
  ASSUME NEW s \in Seat, NEW hs \in SUBSET Controller, NEW t,
         t = DrmFlushHeads(s, hs), Ordered(s)
  PROVE  Draws(s, t) /\ (~s.renderer.scans => t = s)
<1>1. CASE ~s.renderer.scans \/ hs = {}
  <2>1. t = s
    BY <1>1 DEF DrmFlushHeads
  <2> QED
    BY <2>1, RedrawDraws DEF SameInput
<1>2. CASE s.renderer.scans /\ hs # {}
  <2>1. PICK u : u = SetInputMode(s)
    OBVIOUS
  <2>2. PICK v : v = MapHeads(u, hs \ s.renderer.buffers)
    OBVIOUS
  <2>3. PICK gs : gs = hs \cap v.renderer.buffers \cap v.renderer.dirty
    OBVIOUS
  <2>4. PICK w : w = ResetScanOutBuffers(v, gs)
    OBVIOUS
  <2>5. t = [w EXCEPT !.renderer.dirty = @ \ gs]
    BY <1>2, <2>1, <2>2, <2>3, <2>4 DEF DrmFlushHeads, Then
  <2>6. Draws(s, u) /\ u \in Seat /\ Ordered(u)
    <3>1. ModeSet(s, u)
      BY <2>1, SetInputModeIs
    <3>2. Draws(s, u)
      BY <3>1, ModeSetDraws
    <3> QED
      BY <3>2 DEF Draws
  <2>7. Draws(u, v) /\ v \in Seat /\ Ordered(v)
    <3>1. hs \ s.renderer.buffers \in SUBSET Controller
      OBVIOUS
    <3>2. Draws(u, v)
      BY <2>2, <2>6, <3>1, MapHeadsDraws
    <3> QED
      BY <2>6, <3>2 DEF Draws
  <2>8. Draws(v, w) /\ w \in Seat /\ Ordered(w)
    <3>1. gs \in SUBSET Controller
      BY <2>3
    <3>2. Draws(v, w)
      BY <2>4, <2>7, <3>1, ResetScanOutBuffersDraws
    <3> QED
      BY <2>7, <3>2 DEF Draws
  <2>9. Draws(w, t)
    <3>1. PICK r : r = w.renderer.dirty \ gs
      OBVIOUS
    <3>2. r \in SUBSET Controller
      BY <2>8, <3>1 DEF Seat, RendererObject
    <3>3. PICK o : o = [w.renderer EXCEPT !.dirty = r]
      OBVIOUS
    <3>4. /\ o \in RendererObject /\ o.plugin = w.renderer.plugin
          /\ o.opened = w.renderer.opened /\ o.heads = w.renderer.heads
          /\ o.mapped = w.renderer.mapped /\ o.scans = w.renderer.scans
          /\ o.source = w.renderer.source /\ o.watch = w.renderer.watch
          /\ o.devices = w.renderer.devices /\ o.watched = w.renderer.watched
      BY <2>8, <3>2, <3>3 DEF Seat, RendererObject
    <3>5. t = [w EXCEPT !.renderer = o]
      BY <2>5, <3>1, <3>3
    <3>6. /\ t \in Seat /\ t.renderer = o /\ t.terminal = w.terminal
          /\ t.kernel = w.kernel /\ t.fault = w.fault /\ t.missed = w.missed /\ t.card = w.card
      BY <2>8, <3>4, <3>5 DEF Seat
    <3> QED
      BY <2>8, <3>4, <3>6, RedrawDraws DEF SameInput
  <2>10. Draws(s, v)
    BY <2>6, <2>7, DrawingIsTransitive
  <2>11. Draws(s, w)
    BY <2>8, <2>10, DrawingIsTransitive
  <2> QED
    BY <1>2, <2>9, <2>11, DrawingIsTransitive
<1> QED
  BY <1>1, <1>2

LEMMA FrameBufferFlushHeadsDraws ==
  ASSUME NEW s \in Seat, NEW hs \in SUBSET Controller, NEW t,
         t = FrameBufferFlushHeads(s, hs), Ordered(s), s.renderer.plugin # "drm"
  PROVE  Draws(s, t) /\ (~s.renderer.scans => t = s)
<1>1. CASE ~s.renderer.scans \/ hs = {}
  <2>1. t = s
    BY <1>1 DEF FrameBufferFlushHeads
  <2> QED
    BY <2>1, RedrawDraws DEF SameInput
<1>2. CASE s.renderer.scans /\ hs # {}
  <2>1. PICK w : w = SetInputMode(s)
    OBVIOUS
  <2>2. ModeSet(s, w) /\ w \in Seat
    BY <2>1, SetInputModeIs DEF ModeSet
  <2>3. Draws(s, w)
    BY <2>2, ModeSetDraws
  <2>4. PICK r, c : /\ r = w.renderer.dirty \ hs
                    /\ c = w.card.scan \cup (hs \cap s.renderer.buffers)
    OBVIOUS
  <2>5. r \in SUBSET Controller /\ c \in SUBSET Controller
    BY <2>2, <2>4 DEF Seat, RendererObject, Card
  <2>6. PICK o, d : o = [w.renderer EXCEPT !.dirty = r] /\ d = [w.card EXCEPT !.scan = c]
    OBVIOUS
  <2>7. /\ o \in RendererObject /\ o.plugin = w.renderer.plugin
        /\ o.opened = w.renderer.opened /\ o.heads = w.renderer.heads
        /\ o.mapped = w.renderer.mapped /\ o.scans = w.renderer.scans
        /\ o.source = w.renderer.source /\ o.watch = w.renderer.watch
        /\ o.devices = w.renderer.devices /\ o.watched = w.renderer.watched
    BY <2>2, <2>5, <2>6 DEF Seat, RendererObject
  <2>8. d \in Card
    BY <2>2, <2>5, <2>6 DEF Seat, Card
  <2>9. t = [w EXCEPT !.renderer = o, !.card = d]
    <3>1. t = [w EXCEPT !.renderer.dirty = @ \ hs,
                        !.card.scan = @ \cup (hs \cap s.renderer.buffers)]
      BY <1>2, <2>1 DEF FrameBufferFlushHeads
    <3> QED
      BY <2>2, <2>4, <2>6, <3>1 DEF Seat
  <2>10. /\ t \in Seat /\ t.renderer = o /\ t.terminal = w.terminal
         /\ t.kernel = w.kernel /\ t.fault = w.fault /\ t.missed = w.missed
    BY <2>2, <2>7, <2>8, <2>9 DEF Seat
  <2>11. w.renderer.plugin # "drm"
    BY <2>3 DEF Draws
  <2>12. Draws(w, t)
    BY <2>2, <2>7, <2>10, <2>11, RedrawDraws DEF SameInput
  <2> QED
    BY <1>2, <2>3, <2>12, DrawingIsTransitive
<1> QED
  BY <1>1, <1>2

LEMMA SwitchDraws ==
  ASSUME NEW s \in Seat, NEW o \in RendererObject, NEW d \in Card,
         NEW t, t = [s EXCEPT !.renderer = o, !.card = d],
         o.plugin = s.renderer.plugin, o.opened = s.renderer.opened,
         o.heads = s.renderer.heads, s.renderer.mapped => o.mapped,
         o.source = s.renderer.source, o.watch = s.renderer.watch,
         o.devices = s.renderer.devices, o.watched = s.renderer.watched,
         o.scans => s.renderer.scans \/ s.renderer.opened,
         d.scan = s.card.scan
  PROVE  /\ Draws(s, t) /\ t \in Seat /\ t.renderer = o /\ t.card = d
         /\ t.terminal = s.terminal /\ t.kernel = s.kernel /\ t.fault = s.fault
        /\ t.missed = s.missed
<1>1. /\ t \in Seat /\ t.renderer = o /\ t.card = d /\ t.terminal = s.terminal
      /\ t.kernel = s.kernel /\ t.fault = s.fault /\ t.missed = s.missed
  BY DEF Seat
<1> QED
  BY <1>1, RedrawDraws DEF SameInput

LEMMA HeadsAre ==
  ASSUME NEW s \in Seat
  PROVE  s.renderer.heads \in SUBSET Controller
BY DEF Seat, RendererObject

LEMMA NothingDraws ==
  ASSUME NEW s \in Seat
  PROVE  Draws(s, s)
BY RedrawDraws DEF SameInput

LEMMA FlushHeadsDraws ==
  ASSUME NEW s \in Seat, NEW hs \in SUBSET Controller, NEW t, t = FlushHeads(s, hs),
         Ordered(s)
  PROVE  Draws(s, t) /\ (~s.renderer.scans => t = s)
BY DrmFlushHeadsDraws, FrameBufferFlushHeadsDraws DEF FlushHeads

LEMMA ActivateDraws ==
  ASSUME NEW s \in Seat, NEW t, t = Activate(s), Ordered(s), s.renderer.opened
  PROVE  Draws(s, t)
<1>1. PICK o : o = [s.renderer EXCEPT !.scans = TRUE]
  OBVIOUS
<1>2. /\ o \in RendererObject /\ o.plugin = s.renderer.plugin
      /\ o.opened = s.renderer.opened /\ o.heads = s.renderer.heads
      /\ o.mapped = s.renderer.mapped /\ o.scans
      /\ o.source = s.renderer.source /\ o.watch = s.renderer.watch
      /\ o.devices = s.renderer.devices /\ o.watched = s.renderer.watched
  BY <1>1 DEF Seat, RendererObject
<1>3. CASE s.renderer.plugin = "drm"
  <2>1. PICK d : d = [s.card EXCEPT !.master = TRUE]
    OBVIOUS
  <2>2. d \in Card /\ d.scan = s.card.scan
    BY <2>1 DEF Seat, Card
  <2>3. PICK u : u = [s EXCEPT !.renderer = o, !.card = d]
    OBVIOUS
  <2>4. Draws(s, u) /\ u \in Seat
    BY <1>2, <2>2, <2>3, SwitchDraws
  <2>5. Ordered(u)
    BY <2>4 DEF Draws
  <2>6. t = DrmFlushHeads(u, s.renderer.heads)
    <3>1. u = [s EXCEPT !.renderer.scans = TRUE, !.card.master = TRUE]
      BY <1>1, <2>1, <2>3 DEF Seat
    <3> QED
      BY <1>3, <3>1 DEF Activate, DrmActivate
  <2>7. Draws(u, t)
    BY <2>4, <2>5, <2>6, HeadsAre, DrmFlushHeadsDraws
  <2> QED
    BY <2>4, <2>7, DrawingIsTransitive
<1>4. CASE s.renderer.plugin # "drm"
  <2>1. PICK u : u = [s EXCEPT !.renderer = o]
    OBVIOUS
  <2>2. /\ u \in Seat /\ u.renderer = o /\ u.card = s.card /\ u.terminal = s.terminal
        /\ u.kernel = s.kernel /\ u.fault = s.fault /\ u.missed = s.missed
    BY <1>2, <2>1 DEF Seat
  <2>3. Draws(s, u)
    BY <1>2, <2>2, RedrawDraws DEF SameInput
  <2>4. Ordered(u)
    BY <2>3 DEF Draws
  <2>5. t = IF s.renderer.buffers = {} THEN u
            ELSE FrameBufferFlushHeads(u, s.renderer.heads)
    BY <1>1, <1>4, <2>1 DEF Activate, FrameBufferActivate
  <2>6. Draws(u, t)
    <3>1. CASE s.renderer.buffers = {}
      <4>1. t = u
        BY <2>5, <3>1
      <4> QED
        BY <2>2, <4>1, NothingDraws
    <3>2. CASE s.renderer.buffers # {}
      <4>1. t = FrameBufferFlushHeads(u, s.renderer.heads)
        BY <2>5, <3>2
      <4>2. u.renderer.plugin # "drm"
        BY <1>2, <1>4, <2>2
      <4> QED
        BY <2>2, <2>4, <4>1, <4>2, HeadsAre, FrameBufferFlushHeadsDraws
    <3> QED
      BY <3>1, <3>2
  <2> QED
    BY <2>3, <2>6, DrawingIsTransitive
<1> QED
  BY <1>3, <1>4

LEMMA DeactivateDraws ==
  ASSUME NEW s \in Seat, NEW t, t = Deactivate(s)
  PROVE  /\ Draws(s, t) /\ ~t.renderer.scans
         /\ t.renderer.mapped = s.renderer.mapped
         /\ t.card.scan = s.card.scan
<1>1. PICK o, d : /\ o = [s.renderer EXCEPT !.scans = FALSE]
                  /\ d = [s.card EXCEPT !.master = FALSE]
  OBVIOUS
<1>2. /\ o \in RendererObject /\ o.plugin = s.renderer.plugin
      /\ o.opened = s.renderer.opened /\ o.heads = s.renderer.heads
      /\ o.mapped = s.renderer.mapped /\ ~o.scans
      /\ o.source = s.renderer.source /\ o.watch = s.renderer.watch
      /\ o.devices = s.renderer.devices /\ o.watched = s.renderer.watched
      /\ d \in Card /\ d.scan = s.card.scan
  BY <1>1 DEF Seat, RendererObject, Card
<1>3. t = [s EXCEPT !.renderer = o, !.card = d]
  BY <1>1 DEF Deactivate, Seat
<1>4. /\ t \in Seat /\ t.renderer = o /\ t.card = d /\ t.terminal = s.terminal
      /\ t.kernel = s.kernel /\ t.fault = s.fault /\ t.missed = s.missed
  BY <1>2, <1>3 DEF Seat
<1>5. Draws(s, t)
  BY <1>2, <1>4, RedrawDraws DEF SameInput
<1> QED
  BY <1>2, <1>4, <1>5

LEMMA ActivateVtDraws ==
  ASSUME NEW s \in Seat, NEW t, t = ActivateVt(s), Ordered(s)
  PROVE  Draws(s, t)
<1>1. CASE s.terminal.active \/ ~s.terminal.fd
  <2>1. t = s
    BY <1>1 DEF ActivateVt
  <2> QED
    BY <2>1, NothingDraws
<1>2. CASE ~s.terminal.active /\ s.terminal.fd
  <2>1. t = GoTo(s, "ours") /\ "ours" \in Vt
    BY <1>2 DEF ActivateVt, Vt
  <2>2. /\ t \in Seat /\ Ordered(t)
        /\ t.terminal = s.terminal /\ t.renderer = s.renderer
        /\ t.kernel.tty = s.kernel.tty /\ t.kernel.process = s.kernel.process
        /\ t.kernel.keys = s.kernel.keys /\ t.kernel.raw = s.kernel.raw
        /\ t.card.scan \in {s.card.scan, {}}
        /\ t.kernel.vt \in {s.kernel.vt, "ours"}
        /\ t.missed = s.missed
        /\ t.fault \in {s.fault, s.fault \cup {"killed"}}
        /\ (s.kernel.process => s.terminal.watching) => t.fault = s.fault
    BY <2>1, GoToIs
  <2>3. t.card.scan \subseteq s.card.scan
    BY <2>2
  <2>4. Wired(s) => Wired(t)
    BY <2>2 DEF Wired
  <2>5. Explained(s) => Explained(t)
    BY <2>2 DEF Explained, KeysFit
  <2> QED
    BY <2>2, <2>3, <2>4, <2>5 DEF Draws, SameTerminal, SameInput
<1> QED
  BY <1>1, <1>2

LEMMA OnActiveVtChangedDraws ==
  ASSUME NEW s \in Seat, NEW t, t = OnActiveVtChanged(s), Ordered(s)
  PROVE  Draws(s, t)
BY NothingDraws, ActivateDraws, DeactivateDraws DEF OnActiveVtChanged

LEMMA MapToDeviceDraws ==
  ASSUME NEW s \in Seat, NEW t, t = MapToDevice(s), Ordered(s), s.renderer.opened
  PROVE  Draws(s, t)
<1>1. PICK u : u = MapHeads(s, s.renderer.heads)
  OBVIOUS
<1>2. Draws(s, u)
  BY <1>1, HeadsAre, MapHeadsDraws
<1>3. u \in Seat /\ Ordered(u) /\ u.renderer.opened
  BY <1>2 DEF Draws
<1>4. \/ t = u
      \/ t = IF u.terminal.active THEN Activate(u) ELSE ActivateVt(u)
  BY <1>1 DEF MapToDevice, Then
<1>5. Draws(u, t)
  BY <1>3, <1>4, NothingDraws, ActivateDraws, ActivateVtDraws
<1> QED
  BY <1>2, <1>5, DrawingIsTransitive

LEMMA RendererMapToDeviceDraws ==
  ASSUME NEW s \in Seat, NEW t, t = RendererMapToDevice(s), Ordered(s),
         s.renderer.opened
  PROVE  Draws(s, t) /\ (s.renderer.mapped => t = s)
<1>1. CASE s.renderer.mapped
  <2>1. t = s
    BY <1>1 DEF RendererMapToDevice
  <2> QED
    BY <2>1, NothingDraws
<1>2. CASE ~s.renderer.mapped
  <2>1. PICK u : u = MapToDevice(s)
    OBVIOUS
  <2>2. Draws(s, u) /\ u \in Seat
    BY <2>1, MapToDeviceDraws DEF Draws
  <2>3. PICK m : m = ~(u.renderer.heads \subseteq u.card.full)
    OBVIOUS
  <2>4. m \in BOOLEAN
    BY <2>3
  <2>5. PICK o : o = [u.renderer EXCEPT !.mapped = m]
    OBVIOUS
  <2>6. /\ o \in RendererObject /\ o.plugin = u.renderer.plugin
        /\ o.opened = u.renderer.opened /\ o.heads = u.renderer.heads
        /\ o.scans = u.renderer.scans
        /\ o.source = u.renderer.source /\ o.watch = u.renderer.watch
        /\ o.devices = u.renderer.devices /\ o.watched = u.renderer.watched
    BY <2>2, <2>4, <2>5 DEF Seat, RendererObject
  <2>7. t = [u EXCEPT !.renderer = o]
    BY <1>2, <2>1, <2>3, <2>5 DEF RendererMapToDevice, Then
  <2>8. /\ t \in Seat /\ t.renderer = o /\ t.card = u.card /\ t.terminal = u.terminal
        /\ t.kernel = u.kernel /\ t.fault = u.fault /\ t.missed = u.missed
    BY <2>2, <2>6, <2>7 DEF Seat
  <2>9. /\ SameTerminal(u, t)
        /\ Ordered(u) => Ordered(t)
        /\ Explained(u) => Explained(t)
    <3>1. SameTerminal(u, t)
      BY <2>8 DEF SameTerminal
    <3>2. Ordered(u) => Ordered(t)
      BY <2>8 DEF Ordered
    <3>3. Explained(u) => Explained(t)
      BY <2>6, <2>8 DEF Explained, KeysFit
    <3> QED
      BY <3>1, <3>2, <3>3
  <2>10. Wired(u) => Wired(t)
    BY <2>6, <2>8 DEF Wired
  <2>11. /\ SameTerminal(s, t) /\ SameInput(s, t)
         /\ t.renderer.plugin = s.renderer.plugin
         /\ t.renderer.opened = s.renderer.opened
         /\ t.renderer.heads = s.renderer.heads
         /\ t.kernel.vt = u.kernel.vt /\ t.card = u.card
    BY <2>2, <2>6, <2>8 DEF Draws, SameTerminal, SameInput
  <2> QED
    BY <1>2, <2>2, <2>8, <2>9, <2>10, <2>11 DEF Draws
<1> QED
  BY <1>1, <1>2

(* A renderer that drew and was deactivated draws no more.                  *)
LEMMA FlushDraws ==
  ASSUME NEW s \in Seat, NEW hs \in SUBSET Controller, NEW t, t = Flush(s, hs),
         Ordered(s), s.renderer.opened
  PROVE  Draws(s, t) /\ (s.renderer.mapped /\ ~s.renderer.scans => t = s)
<1>1. CASE hs = {}
  <2>1. t = s
    BY <1>1 DEF Flush
  <2> QED
    BY <2>1, NothingDraws
<1>2. CASE hs # {}
  <2>1. PICK u : u = RendererMapToDevice(s)
    OBVIOUS
  <2>2. /\ Draws(s, u) /\ u \in Seat /\ Ordered(u)
        /\ s.renderer.mapped => u = s
    BY <2>1, RendererMapToDeviceDraws DEF Draws
  <2>3. t = IF u.renderer.mapped THEN FlushHeads(u, hs) ELSE u
    BY <1>2, <2>1 DEF Flush, Then
  <2>4. Draws(u, t) /\ (~u.renderer.scans => t = u)
    BY <2>2, <2>3, NothingDraws, FlushHeadsDraws
  <2> QED
    BY <2>2, <2>4, DrawingIsTransitive
<1> QED
  BY <1>1, <1>2

LEMMA ActiveDraws ==
  ASSUME NEW s \in Seat, NEW a \in BOOLEAN, NEW t,
         t = [s EXCEPT !.renderer.active = a]
  PROVE  /\ Draws(s, t) /\ t.card = s.card
         /\ t.renderer.scans = s.renderer.scans
         /\ t.renderer.mapped = s.renderer.mapped
<1>1. PICK o : o = [s.renderer EXCEPT !.active = a]
  OBVIOUS
<1>2. /\ o \in RendererObject /\ o.plugin = s.renderer.plugin
      /\ o.opened = s.renderer.opened /\ o.heads = s.renderer.heads
      /\ o.mapped = s.renderer.mapped /\ o.scans = s.renderer.scans
      /\ o.source = s.renderer.source /\ o.watch = s.renderer.watch
      /\ o.devices = s.renderer.devices /\ o.watched = s.renderer.watched
  BY <1>1 DEF Seat, RendererObject
<1>3. t = [s EXCEPT !.renderer = o]
  BY <1>1
<1>4. /\ t \in Seat /\ t.renderer = o /\ t.card = s.card /\ t.terminal = s.terminal
      /\ t.kernel = s.kernel /\ t.fault = s.fault /\ t.missed = s.missed
  BY <1>2, <1>3 DEF Seat
<1> QED
  BY <1>2, <1>4, RedrawDraws DEF SameInput

LEMMA RendererActivateDraws ==
  ASSUME NEW s \in Seat, NEW t, t = RendererActivate(s), Ordered(s)
  PROVE  Draws(s, t)
<1>1. CASE s.renderer.active \/ ~s.renderer.opened
  <2>1. t = s
    BY <1>1 DEF RendererActivate
  <2> QED
    BY <2>1, NothingDraws
<1>2. CASE ~s.renderer.active /\ s.renderer.opened
  <2>1. PICK u : u = Activate(s)
    OBVIOUS
  <2>2. Draws(s, u) /\ u \in Seat
    BY <1>2, <2>1, ActivateDraws DEF Draws
  <2>3. t = [u EXCEPT !.renderer.active = TRUE]
    BY <1>2, <2>1 DEF RendererActivate
  <2>4. Draws(u, t)
    BY <2>2, <2>3, ActiveDraws
  <2> QED
    BY <2>2, <2>4, DrawingIsTransitive
<1> QED
  BY <1>1, <1>2

LEMMA RendererDeactivateDraws ==
  ASSUME NEW s \in Seat, NEW t, t = RendererDeactivate(s), Ordered(s)
  PROVE  /\ Draws(s, t)
         /\ s.renderer.opened => ~t.renderer.scans
         /\ t.renderer.mapped = s.renderer.mapped
         /\ t.card.scan = s.card.scan
<1>1. CASE ~s.renderer.opened
  <2>1. t = s
    BY <1>1 DEF RendererDeactivate
  <2> QED
    BY <1>1, <2>1, NothingDraws
<1>2. CASE s.renderer.opened
  <2>1. PICK u : u = Deactivate(s)
    OBVIOUS
  <2>2. /\ Draws(s, u) /\ ~u.renderer.scans
        /\ u.renderer.mapped = s.renderer.mapped /\ u.card.scan = s.card.scan
    BY <2>1, DeactivateDraws
  <2>3. u \in Seat
    BY <2>2 DEF Draws
  <2>4. t = [u EXCEPT !.renderer.active = FALSE]
    BY <1>2, <2>1 DEF RendererDeactivate
  <2>5. /\ Draws(u, t) /\ t.card = u.card
        /\ t.renderer.scans = u.renderer.scans
        /\ t.renderer.mapped = u.renderer.mapped
    BY <2>3, <2>4, ActiveDraws
  <2> QED
    BY <2>2, <2>5, DrawingIsTransitive
<1> QED
  BY <1>1, <1>2

-----------------------------------------------------------------------------
(* What the input source leaves alone                                       *)
SameScreen(s, t) ==
    /\ t.renderer.plugin = s.renderer.plugin
    /\ t.renderer.opened = s.renderer.opened
    /\ t.renderer.mapped = s.renderer.mapped
    /\ t.renderer.scans = s.renderer.scans
    /\ t.renderer.heads = s.renderer.heads

Listens(s, t) ==
    /\ t \in Seat /\ SameVt(s, t) /\ SameTerminal(s, t) /\ SameScreen(s, t)
    /\ t.card = s.card
    /\ Ordered(s) => Ordered(t)
    /\ Wired(s) => Wired(t)
    /\ Explained(s) => Explained(t)

(* The input mode and what the renderer keeps of its keyboards changed.     *)
LEMMA InputListens ==
  ASSUME NEW s \in Seat, NEW t \in Seat,
         SameVt(s, t), SameTerminal(s, t), SameMode(s, t), SameScreen(s, t),
         t.card = s.card, t.fault \in {s.fault, s.fault \cup {"freed watch"}},
         Explained(s) => /\ t.renderer.watch = "freed" => "listen" \in t.missed
                         /\ "freed watch" \in t.fault => "listen" \in t.missed,
         Wired(s) => /\ t.renderer.watch # "none" => t.renderer.source
                     /\ t.renderer.source => t.renderer.watched = t.renderer.devices
                     /\ ~t.renderer.source => t.renderer.watched = {}
  PROVE  Listens(s, t)
<1>1. Ordered(s) => Ordered(t)
  BY DEF Ordered, SameVt, SameTerminal
<1>2. Wired(s) => Wired(t)
  BY DEF Wired, SameTerminal, SameScreen
<1>3. Explained(s) => Explained(t)
  <2>1. /\ "killed" \in t.fault => "killed" \in s.fault
        /\ "open twice" \in t.fault => "open twice" \in s.fault
    OBVIOUS
  <2> QED
    BY <2>1 DEF Explained, SameVt, SameTerminal, SameMode
<1> QED
  BY <1>1, <1>2, <1>3 DEF Listens

LEMMA WatchInputDevicesIs ==
  ASSUME NEW s \in Seat, NEW is \in SUBSET Input, NEW t, t = WatchInputDevices(s, is)
  PROVE  /\ t \in Seat /\ SameVt(s, t) /\ SameTerminal(s, t) /\ SameMode(s, t)
         /\ SameScreen(s, t) /\ t.card = s.card /\ t.fault = s.fault
         /\ "listen" \in s.missed => "listen" \in t.missed
         /\ t.renderer.source = s.renderer.source
         /\ t.renderer.watch = s.renderer.watch
         /\ t.renderer.devices = s.renderer.devices
         /\ t.renderer.watched = s.renderer.watched \cup is
<1>1. CASE is = {}
  BY <1>1 DEF WatchInputDevices, SameVt, SameTerminal, SameMode, SameScreen
<1>2. CASE is # {}
  <2>1. PICK w : w = s.renderer.watched \cup is
    OBVIOUS
  <2>2. w \in SUBSET Input
    BY <2>1 DEF Seat, RendererObject
  <2>3. PICK o : o = [s.renderer EXCEPT !.watched = w]
    OBVIOUS
  <2>4. /\ o \in RendererObject /\ o.plugin = s.renderer.plugin
        /\ o.opened = s.renderer.opened /\ o.heads = s.renderer.heads
        /\ o.mapped = s.renderer.mapped /\ o.scans = s.renderer.scans
        /\ o.source = s.renderer.source /\ o.watch = s.renderer.watch
        /\ o.devices = s.renderer.devices /\ o.watched = w
    BY <2>2, <2>3 DEF Seat, RendererObject
  <2>5. PICK u : u = [s EXCEPT !.renderer = o]
    OBVIOUS
  <2>6. /\ u \in Seat /\ u.renderer = o /\ u.card = s.card /\ u.terminal = s.terminal
        /\ u.kernel = s.kernel /\ u.fault = s.fault /\ u.missed = s.missed
    BY <2>4, <2>5 DEF Seat
  <2>7. t = SetDisabledInput(u)
    BY <1>2, <2>1, <2>3, <2>5 DEF WatchInputDevices
  <2>8. ModeSet(u, t)
    BY <2>6, <2>7, SetDisabledInputIs
  <2>9. /\ t.renderer = o /\ t.card = s.card /\ t.fault = s.fault /\ t \in Seat
        /\ "listen" \in s.missed => "listen" \in t.missed
    BY <2>6, <2>8 DEF ModeSet
  <2>10. SameVt(s, t) /\ SameTerminal(s, t)
    BY <2>6, <2>8 DEF ModeSet, SameVt, SameTerminal
  <2>11. SameMode(s, t)
    <3>1. KeysFit(s) => KeysFit(u)
      BY <2>6 DEF KeysFit
    <3> QED
      BY <2>6, <2>8, <3>1 DEF ModeSet, SameMode
  <2> QED
    BY <2>1, <2>4, <2>9, <2>10, <2>11 DEF SameScreen
<1> QED
  BY <1>1, <1>2

LEMMA OpenInputSourceListens ==
  ASSUME NEW s \in Seat, NEW t, t = OpenInputSource(s)
  PROVE  /\ Listens(s, t) /\ t.fault = s.fault
         /\ SameMode(s, t) /\ t.renderer.source /\ Hears(t)
         /\ s.terminal.fd => t.renderer.watch = "set"
         /\ ~s.terminal.fd => "listen" \in t.missed
         /\ s.fault # {} /\ "listen" \in s.missed => "listen" \in t.missed
<1>1. PICK u : u = IF s.renderer.source THEN s
                   ELSE WatchInputDevices(s, s.renderer.devices)
  OBVIOUS
<1>2. /\ u \in Seat /\ SameVt(s, u) /\ SameTerminal(s, u) /\ SameMode(s, u)
      /\ SameScreen(s, u) /\ u.card = s.card /\ u.fault = s.fault
      /\ "listen" \in s.missed => "listen" \in u.missed
      /\ u.renderer.source = s.renderer.source
      /\ u.renderer.watch = s.renderer.watch
      /\ u.renderer.devices = s.renderer.devices
      /\ s.renderer.source => u.renderer.watched = s.renderer.watched
      /\ ~s.renderer.source =>
             u.renderer.watched = s.renderer.watched \cup s.renderer.devices
  <2>1. CASE s.renderer.source
    <3>1. u = s
      BY <1>1, <2>1
    <3> QED
      BY <2>1, <3>1 DEF SameVt, SameTerminal, SameMode, SameScreen
  <2>2. CASE ~s.renderer.source
    <3>1. u = WatchInputDevices(s, s.renderer.devices)
      BY <1>1, <2>2
    <3>2. s.renderer.devices \in SUBSET Input
      BY DEF Seat, RendererObject
    <3> QED
      BY <2>2, <3>1, <3>2, WatchInputDevicesIs
  <2> QED
    BY <2>1, <2>2
<1>3. PICK w : w = IF u.terminal.fd THEN "set" ELSE u.renderer.watch
  OBVIOUS
<1>4. w \in {"none", "set", "freed"}
  BY <1>2, <1>3, SeatIs
<1>5. PICK o : o = [u.renderer EXCEPT !.watch = w, !.source = TRUE]
  OBVIOUS
<1>6. /\ o \in RendererObject /\ o.plugin = u.renderer.plugin
      /\ o.opened = u.renderer.opened /\ o.heads = u.renderer.heads
      /\ o.mapped = u.renderer.mapped /\ o.scans = u.renderer.scans
      /\ o.source /\ o.watch = w
      /\ o.devices = u.renderer.devices /\ o.watched = u.renderer.watched
  BY <1>2, <1>4, <1>5 DEF Seat, RendererObject
<1>7. PICK m : m = IF ~u.terminal.fd THEN u.missed \cup {"listen"}
                   ELSE IF u.fault # {} THEN u.missed ELSE u.missed \ {"listen"}
  OBVIOUS
<1>8. /\ m \in SUBSET Missed
      /\ \A x \in {"auto", "reopen", "enable"} : x \in m <=> x \in u.missed
  BY <1>2, <1>7, SeatIs DEF Missed
<1>9. t = [u EXCEPT !.renderer = o, !.missed = m]
  <2>1. PICK v : v = IF u.terminal.fd
                     THEN MakeUp([u EXCEPT !.renderer.watch = "set"], {"listen"})
                     ELSE Miss(u, "listen")
    OBVIOUS
  <2>2. t = [v EXCEPT !.renderer.source = TRUE]
    BY <1>1, <2>1 DEF OpenInputSource
  <2>3. CASE u.terminal.fd
    <3>1. PICK d : d = [u.renderer EXCEPT !.watch = "set"]
      OBVIOUS
    <3>2. PICK x : x = [u EXCEPT !.renderer = d]
      OBVIOUS
    <3>3. x.fault = u.fault /\ x.missed = u.missed
      BY <1>2, <3>2 DEF Seat
    <3>4. v = MakeUp(x, {"listen"})
      BY <2>1, <2>3, <3>1, <3>2
    <3>5. v = [u EXCEPT !.renderer = d, !.missed = m]
      BY <1>2, <1>7, <2>3, <3>2, <3>3, <3>4 DEF MakeUp, Seat
    <3>6. o = [d EXCEPT !.source = TRUE]
      BY <1>2, <1>3, <1>5, <2>3, <3>1 DEF Seat, RendererObject
    <3> QED
      BY <1>2, <2>2, <3>5, <3>6 DEF Seat
  <2>4. CASE ~u.terminal.fd
    <3>1. o = [u.renderer EXCEPT !.source = TRUE]
      BY <1>2, <1>3, <1>5, <2>4 DEF Seat, RendererObject
    <3> QED
      BY <1>2, <1>7, <2>1, <2>2, <2>4, <3>1 DEF Miss, Seat
  <2> QED
    BY <2>3, <2>4
<1>10. /\ t \in Seat /\ t.renderer = o /\ t.card = u.card /\ t.terminal = u.terminal
       /\ t.kernel = u.kernel /\ t.fault = u.fault /\ t.missed = m
  BY <1>2, <1>6, <1>8, <1>9 DEF Seat
<1>11. SameVt(s, t) /\ SameTerminal(s, t) /\ SameScreen(s, t)
  BY <1>2, <1>6, <1>10 DEF SameVt, SameTerminal, SameScreen
<1>12. SameMode(s, t)
  BY <1>2, <1>10, <1>8 DEF SameMode, KeysFit
<1>13. Wired(s) => t.renderer.watched = t.renderer.devices
  <2>1. t.renderer.watched = u.renderer.watched /\ t.renderer.devices = s.renderer.devices
    BY <1>2, <1>6, <1>10
  <2>2. CASE s.renderer.source
    BY <1>2, <2>1, <2>2 DEF Wired
  <2>3. CASE ~s.renderer.source
    BY <1>2, <2>1, <2>3 DEF Wired
  <2> QED
    BY <2>2, <2>3
<1>14. u.terminal.fd = s.terminal.fd
  BY <1>2 DEF SameTerminal
<1>15. /\ s.terminal.fd => t.renderer.watch = "set"
       /\ ~s.terminal.fd => "listen" \in t.missed
       /\ s.fault # {} /\ "listen" \in s.missed => "listen" \in t.missed
  BY <1>2, <1>3, <1>6, <1>7, <1>10, <1>14
<1>16. Hears(t)
  BY <1>10, <1>14, <1>15 DEF Hears
<1>17. t.fault = s.fault /\ t.renderer.source
  BY <1>2, <1>6, <1>10
<1>18. ASSUME Explained(s)
       PROVE  /\ t.renderer.watch = "freed" => "listen" \in t.missed
              /\ "freed watch" \in t.fault => "listen" \in t.missed
  BY <1>15, <1>17, <1>18 DEF Explained
<1>19. Listens(s, t)
  BY <1>10, <1>11, <1>12, <1>2, <1>13, <1>17, <1>18, InputListens
<1> QED
  BY <1>12, <1>15, <1>16, <1>17, <1>19

LEMMA ActivateKeyboardsListens ==
  ASSUME NEW s \in Seat, NEW t, t = ActivateKeyboards(s)
  PROVE  /\ Listens(s, t) /\ t.fault = s.fault
         /\ Hears(s) => Hears(t)
<1>1. CASE s.renderer.source \/ ~s.renderer.opened
  <2>1. t = s
    BY <1>1 DEF ActivateKeyboards
  <2> QED
    BY <2>1 DEF Listens, SameVt, SameTerminal, SameScreen
<1>2. CASE ~s.renderer.source /\ s.renderer.opened
  <2>1. t = OpenInputSource(s)
    BY <1>2 DEF ActivateKeyboards
  <2> QED
    BY <2>1, OpenInputSourceListens
<1> QED
  BY <1>1, <1>2

(* The watch that was freed is watched again if the terminal is open.       *)
LEMMA OnInputSourceDisconnectedListens ==
  ASSUME NEW s \in Seat, NEW t, t = OnInputSourceDisconnected(s), Wired(s), Ordered(s)
  PROVE  /\ Listens(s, t) /\ t.fault = s.fault
         /\ t.renderer.source = s.renderer.source
         /\ (s.renderer.source /\ s.renderer.watch = "none" => "listen" \in s.missed)
                => Hears(t)
<1>1. CASE s.renderer.watch = "none"
  <2>1. t = s
    BY <1>1 DEF OnInputSourceDisconnected
  <2> QED
    BY <1>1, <2>1 DEF Listens, SameVt, SameTerminal, SameScreen, Hears
<1>2. CASE s.renderer.watch # "none"
  <2>1. PICK o : o = [s.renderer EXCEPT !.watch = "freed"]
    OBVIOUS
  <2>2. /\ o \in RendererObject /\ o.plugin = s.renderer.plugin
        /\ o.opened = s.renderer.opened /\ o.heads = s.renderer.heads
        /\ o.mapped = s.renderer.mapped /\ o.scans = s.renderer.scans
        /\ o.source = s.renderer.source /\ o.watch = "freed"
        /\ o.devices = s.renderer.devices /\ o.watched = s.renderer.watched
    BY <2>1 DEF Seat, RendererObject
  <2>3. PICK u : u = [s EXCEPT !.renderer = o]
    OBVIOUS
  <2>4. /\ u \in Seat /\ u.renderer = o /\ u.card = s.card /\ u.terminal = s.terminal
        /\ u.kernel = s.kernel /\ u.fault = s.fault /\ u.missed = s.missed
    BY <2>2, <2>3 DEF Seat
  <2>5. t = OpenInputSource(u)
    BY <1>2, <2>1, <2>3 DEF OnInputSourceDisconnected
  <2>6. /\ Listens(u, t) /\ t.fault = u.fault /\ t.renderer.source
        /\ SameMode(u, t) /\ Hears(t)
        /\ u.terminal.fd => t.renderer.watch = "set"
        /\ ~u.terminal.fd => "listen" \in t.missed
        /\ u.fault # {} /\ "listen" \in u.missed => "listen" \in t.missed
    BY <2>4, <2>5, OpenInputSourceListens
  <2>7. s.renderer.source
    BY <1>2 DEF Wired
  <2>8. Wired(u)
    BY <2>2, <2>4, <2>7 DEF Wired
  <2>9. /\ SameVt(s, t) /\ SameTerminal(s, t) /\ SameScreen(s, t)
        /\ t \in Seat /\ t.card = s.card /\ t.fault = s.fault /\ Wired(t)
    BY <2>2, <2>4, <2>6, <2>8 DEF Listens, SameVt, SameTerminal, SameScreen
  <2>10. SameMode(s, t)
    BY <2>4, <2>6 DEF SameMode, KeysFit
  <2>11. ASSUME Explained(s)
         PROVE  /\ t.renderer.watch = "freed" => "listen" \in t.missed
                /\ "freed watch" \in t.fault => "listen" \in t.missed
    BY <2>4, <2>6, <2>9, <2>11 DEF Explained
  <2>12. /\ t.renderer.watch # "none" => t.renderer.source
         /\ t.renderer.source => t.renderer.watched = t.renderer.devices
         /\ ~t.renderer.source => t.renderer.watched = {}
    BY <2>9 DEF Wired
  <2>13. Listens(s, t)
    BY <2>9, <2>10, <2>11, <2>12, InputListens
  <2> QED
    BY <2>6, <2>7, <2>9, <2>13
<1> QED
  BY <1>1, <1>2

LEMMA CloseInputSourceListens ==
  ASSUME NEW s \in Seat, NEW t, t = CloseInputSource(s)
  PROVE  /\ Listens(s, t)
         /\ ~t.renderer.source
         /\ "listen" \in s.missed => "listen" \in t.missed
         /\ Wired(s) => t.renderer.watch = "none"
<1>1. CASE ~s.renderer.source
  <2>1. t = s
    BY <1>1 DEF CloseInputSource
  <2> QED
    BY <1>1, <2>1 DEF Listens, SameVt, SameTerminal, SameScreen, Wired
<1>2. CASE s.renderer.source
  <2>1. PICK o : o = [s.renderer EXCEPT !.watched = {}]
    OBVIOUS
  <2>2. PICK v : v = [s EXCEPT !.renderer = o]
    OBVIOUS
  <2>3. PICK u : u = IF s.renderer.devices = {} THEN s ELSE SetUnbufferedInput(v)
    OBVIOUS
  <2>4. /\ o \in RendererObject /\ o.plugin = s.renderer.plugin
        /\ o.opened = s.renderer.opened /\ o.heads = s.renderer.heads
        /\ o.mapped = s.renderer.mapped /\ o.scans = s.renderer.scans
        /\ o.watch = s.renderer.watch
        /\ o.devices = s.renderer.devices /\ o.watched = {}
    BY <2>1 DEF Seat, RendererObject
  <2>5. /\ v \in Seat /\ v.renderer = o /\ v.card = s.card /\ v.terminal = s.terminal
        /\ v.kernel = s.kernel /\ v.fault = s.fault /\ v.missed = s.missed
    BY <2>2, <2>4 DEF Seat
  <2>6. /\ u \in Seat /\ SameVt(s, u) /\ SameTerminal(s, u) /\ SameMode(s, u)
        /\ SameScreen(s, u) /\ u.card = s.card /\ u.fault = s.fault
        /\ "listen" \in s.missed => "listen" \in u.missed
        /\ u.renderer.watch = s.renderer.watch
        /\ u.renderer.watched = IF s.renderer.devices = {} THEN s.renderer.watched
                                                           ELSE {}
    <3>1. CASE s.renderer.devices = {}
      BY <2>3, <3>1 DEF SameVt, SameTerminal, SameMode, SameScreen
    <3>2. CASE s.renderer.devices # {}
      <4>1. ModeSet(v, u)
        BY <2>3, <2>5, <3>2, SetUnbufferedInputIs
      <4>2. /\ u.renderer = o /\ u.card = s.card /\ u.fault = s.fault /\ u \in Seat
            /\ "listen" \in s.missed => "listen" \in u.missed
        BY <2>5, <4>1 DEF ModeSet
      <4>3. SameVt(s, u) /\ SameTerminal(s, u) /\ SameScreen(s, u)
        BY <2>4, <2>5, <4>1, <4>2 DEF ModeSet, SameVt, SameTerminal, SameScreen
      <4>4. SameMode(s, u)
        BY <2>5, <4>1 DEF ModeSet, SameMode, KeysFit
      <4> QED
        BY <2>4, <3>2, <4>2, <4>3, <4>4
    <3> QED
      BY <3>1, <3>2
  <2>7. PICK f : f = IF u.renderer.watch = "freed" THEN u.fault \cup {"freed watch"}
                     ELSE u.fault
    OBVIOUS
  <2>8. f \subseteq {"killed", "unready", "open twice", "freed watch", "no buffer"}
    BY <2>6, <2>7, SeatIs
  <2>9. PICK q : q = [u.renderer EXCEPT !.watch = "none", !.source = FALSE]
    OBVIOUS
  <2>10. /\ q \in RendererObject /\ q.plugin = u.renderer.plugin
         /\ q.opened = u.renderer.opened /\ q.heads = u.renderer.heads
         /\ q.mapped = u.renderer.mapped /\ q.scans = u.renderer.scans
         /\ ~q.source /\ q.watch = "none"
         /\ q.watched = u.renderer.watched
    BY <2>6, <2>9 DEF Seat, RendererObject
  <2>11. t = [u EXCEPT !.renderer = q, !.fault = f]
    <3>1. v = [s EXCEPT !.renderer.watched = {}]
      BY <2>1, <2>2
    <3>2. PICK w : w = IF u.renderer.watch = "freed" THEN Fault(u, "freed watch") ELSE u
      OBVIOUS
    <3>3. t = [w EXCEPT !.renderer.watch = "none", !.renderer.source = FALSE]
      BY <1>2, <2>3, <3>1, <3>2 DEF CloseInputSource
    <3>4. w = [u EXCEPT !.fault = f]
      BY <2>6, <2>7, <3>2 DEF Fault, Seat
    <3> QED
      BY <2>6, <2>8, <2>9, <3>3, <3>4 DEF Seat
  <2>12. /\ t \in Seat /\ t.renderer = q /\ t.card = u.card /\ t.terminal = u.terminal
         /\ t.kernel = u.kernel /\ t.fault = f /\ t.missed = u.missed
    BY <2>6, <2>8, <2>10, <2>11 DEF Seat
  <2>13. SameVt(s, t) /\ SameTerminal(s, t) /\ SameScreen(s, t)
    BY <2>6, <2>10, <2>12 DEF SameVt, SameTerminal, SameScreen
  <2>14. SameMode(s, t)
    BY <2>6, <2>12 DEF SameMode, KeysFit
  <2>15. t.fault \in {s.fault, s.fault \cup {"freed watch"}}
    BY <2>6, <2>7, <2>12
  <2>16. "listen" \in s.missed => "listen" \in t.missed
    BY <2>6, <2>12
  <2>17. ASSUME Explained(s)
         PROVE  /\ t.renderer.watch = "freed" => "listen" \in t.missed
                /\ "freed watch" \in t.fault => "listen" \in t.missed
    <3>1. t.renderer.watch = "none"
      BY <2>10, <2>12
    <3>2. "freed watch" \in t.fault =>
              "freed watch" \in s.fault \/ s.renderer.watch = "freed"
      BY <2>6, <2>7, <2>12
    <3> QED
      BY <2>16, <2>17, <3>1, <3>2 DEF Explained
  <2>18. Wired(s) => t.renderer.watched = {}
    BY <1>2, <2>6, <2>10, <2>12 DEF Wired
  <2> QED
    <3>1. ~t.renderer.source /\ t.renderer.watch = "none" /\ t.card = s.card
      BY <2>6, <2>10, <2>12
    <3>2. Listens(s, t)
      BY <2>12, <2>13, <2>14, <2>15, <2>18, <2>17, <3>1, InputListens
    <3> QED
      BY <2>16, <3>1, <3>2
<1> QED
  BY <1>1, <1>2

LEMMA AddInputDeviceListens ==
  ASSUME NEW s \in Seat, NEW i \in Input, NEW t, t = AddInputDevice(s, i)
  PROVE  /\ Listens(s, t) /\ t.fault = s.fault
         /\ t.renderer.source = s.renderer.source
         /\ t.renderer.watch = s.renderer.watch
         /\ "listen" \in s.missed => "listen" \in t.missed
<1>1. PICK ds : ds = s.renderer.devices \cup {i}
  OBVIOUS
<1>2. ds \in SUBSET Input
  BY <1>1 DEF Seat, RendererObject
<1>3. PICK o : o = [s.renderer EXCEPT !.devices = ds]
  OBVIOUS
<1>4. /\ o \in RendererObject /\ o.plugin = s.renderer.plugin
      /\ o.opened = s.renderer.opened /\ o.heads = s.renderer.heads
      /\ o.mapped = s.renderer.mapped /\ o.scans = s.renderer.scans
      /\ o.source = s.renderer.source /\ o.watch = s.renderer.watch
      /\ o.devices = ds /\ o.watched = s.renderer.watched
  BY <1>2, <1>3 DEF Seat, RendererObject
<1>5. PICK u : u = [s EXCEPT !.renderer = o]
  OBVIOUS
<1>6. /\ u \in Seat /\ u.renderer = o /\ u.card = s.card /\ u.terminal = s.terminal
      /\ u.kernel = s.kernel /\ u.fault = s.fault /\ u.missed = s.missed
  BY <1>4, <1>5 DEF Seat
<1>7. t = IF s.renderer.source THEN WatchInputDevices(u, {i}) ELSE u
  BY <1>1, <1>3, <1>5 DEF AddInputDevice
<1>8. /\ t \in Seat /\ SameVt(u, t) /\ SameTerminal(u, t) /\ SameMode(u, t)
      /\ SameScreen(u, t) /\ t.card = u.card /\ t.fault = u.fault
      /\ "listen" \in u.missed => "listen" \in t.missed
      /\ t.renderer.source = u.renderer.source
      /\ t.renderer.watch = u.renderer.watch
      /\ t.renderer.devices = u.renderer.devices
      /\ s.renderer.source => t.renderer.watched = u.renderer.watched \cup {i}
      /\ ~s.renderer.source => t.renderer.watched = u.renderer.watched
  <2>1. CASE s.renderer.source
    BY <1>6, <1>7, <2>1, WatchInputDevicesIs
  <2>2. CASE ~s.renderer.source
    BY <1>6, <1>7, <2>2 DEF SameVt, SameTerminal, SameMode, SameScreen
  <2> QED
    BY <2>1, <2>2
<1>9. SameVt(s, t) /\ SameTerminal(s, t) /\ SameScreen(s, t)
  BY <1>4, <1>6, <1>8 DEF SameVt, SameTerminal, SameScreen
<1>10. SameMode(s, t)
  BY <1>6, <1>8 DEF SameMode, KeysFit
<1>11. t.renderer.source = s.renderer.source /\ t.renderer.watch = s.renderer.watch
  BY <1>4, <1>6, <1>8
<1>12. /\ s.renderer.source => t.renderer.watched = s.renderer.watched \cup {i}
       /\ ~s.renderer.source => t.renderer.watched = s.renderer.watched
       /\ t.renderer.devices = s.renderer.devices \cup {i}
  BY <1>1, <1>4, <1>6, <1>8
<1>13. Wired(s) => /\ t.renderer.watch # "none" => t.renderer.source
                   /\ t.renderer.source => t.renderer.watched = t.renderer.devices
                   /\ ~t.renderer.source => t.renderer.watched = {}
  BY <1>11, <1>12 DEF Wired
<1>14. "listen" \in s.missed => "listen" \in t.missed
  BY <1>6, <1>8
<1>15. t.fault = s.fault /\ t.card = s.card /\ t \in Seat
  BY <1>6, <1>8
<1>16. Explained(s) => /\ t.renderer.watch = "freed" => "listen" \in t.missed
                       /\ "freed watch" \in t.fault => "listen" \in t.missed
  BY <1>11, <1>14, <1>15 DEF Explained
<1>17. Listens(s, t)
  BY <1>9, <1>10, <1>13, <1>15, <1>16, InputListens
<1> QED
  BY <1>11, <1>14, <1>15, <1>17

LEMMA RemoveInputDeviceListens ==
  ASSUME NEW s \in Seat, NEW i \in Input, NEW t, t = RemoveInputDevice(s, i)
  PROVE  /\ Listens(s, t) /\ t.fault = s.fault
         /\ t.renderer.source = s.renderer.source
         /\ t.renderer.watch = s.renderer.watch
         /\ "listen" \in s.missed => "listen" \in t.missed
<1>1. PICK ds, ws : /\ ds = s.renderer.devices \ {i}
                    /\ ws = s.renderer.watched \ {i}
  OBVIOUS
<1>2. ds \in SUBSET Input /\ ws \in SUBSET Input
  BY <1>1 DEF Seat, RendererObject
<1>3. PICK o : o = [s.renderer EXCEPT !.devices = ds, !.watched = ws]
  OBVIOUS
<1>4. /\ o \in RendererObject /\ o.plugin = s.renderer.plugin
      /\ o.opened = s.renderer.opened /\ o.heads = s.renderer.heads
      /\ o.mapped = s.renderer.mapped /\ o.scans = s.renderer.scans
      /\ o.source = s.renderer.source /\ o.watch = s.renderer.watch
      /\ o.devices = ds /\ o.watched = ws
  BY <1>2, <1>3 DEF Seat, RendererObject
<1>5. t = [s EXCEPT !.renderer = o]
  BY <1>1, <1>3 DEF RemoveInputDevice, Seat
<1>6. /\ t \in Seat /\ t.renderer = o /\ t.card = s.card /\ t.terminal = s.terminal
      /\ t.kernel = s.kernel /\ t.fault = s.fault /\ t.missed = s.missed
  BY <1>4, <1>5 DEF Seat
<1>7. SameVt(s, t) /\ SameTerminal(s, t) /\ SameScreen(s, t) /\ SameMode(s, t)
  BY <1>4, <1>6 DEF SameVt, SameTerminal, SameScreen, SameMode, KeysFit
<1>8. Wired(s) => /\ t.renderer.watch # "none" => t.renderer.source
                  /\ t.renderer.source => t.renderer.watched = t.renderer.devices
                  /\ ~t.renderer.source => t.renderer.watched = {}
  BY <1>1, <1>4, <1>6 DEF Wired
<1>9. Explained(s) => /\ t.renderer.watch = "freed" => "listen" \in t.missed
                      /\ "freed watch" \in t.fault => "listen" \in t.missed
  BY <1>4, <1>6 DEF Explained
<1>10. Listens(s, t)
  BY <1>6, <1>7, <1>8, <1>9, InputListens
<1> QED
  BY <1>4, <1>6, <1>10

-----------------------------------------------------------------------------
(* What the daemon does with the seat while the terminal stays as it is     *)
Works(s, t) ==
    /\ t \in Seat /\ SameTerminal(s, t)
    /\ t.renderer.plugin = s.renderer.plugin
    /\ t.kernel.vt \in {s.kernel.vt, "ours"}
    /\ Ordered(t) /\ Wired(t)
    /\ Explained(s) => Explained(t)
    /\ s.renderer.plugin = "drm" /\ (s.terminal.active => s.kernel.vt = "ours") =>
           t.card.scan \subseteq s.card.scan \/ t.kernel.vt = "ours"

LEMMA WorkIsTransitive ==
  ASSUME NEW s \in Seat, NEW t, NEW u, Works(s, t), Works(t, u)
  PROVE  Works(s, u)
<1>1. SameTerminal(s, u)
  BY DEF Works, SameTerminal
<1>2. u.kernel.vt \in {s.kernel.vt, "ours"} /\ (t.kernel.vt = "ours" => u.kernel.vt = "ours")
  BY DEF Works
<1>3. ASSUME s.renderer.plugin = "drm", s.terminal.active => s.kernel.vt = "ours"
      PROVE  u.card.scan \subseteq s.card.scan \/ u.kernel.vt = "ours"
  <2>1. t.renderer.plugin = "drm" /\ (t.terminal.active => t.kernel.vt = "ours")
    BY <1>3 DEF Works, SameTerminal
  <2>2. t.card.scan \subseteq s.card.scan \/ t.kernel.vt = "ours"
    BY <1>3 DEF Works
  <2>3. u.card.scan \subseteq t.card.scan \/ u.kernel.vt = "ours"
    BY <2>1 DEF Works
  <2> QED
    BY <1>2, <2>2, <2>3
<1> QED
  BY <1>1, <1>2, <1>3 DEF Works

LEMMA DrawingWorks ==
  ASSUME NEW s \in Seat, NEW t, Draws(s, t), Ordered(s), Wired(s), Wired(t)
  PROVE  Works(s, t)
BY DEF Draws, Works

LEMMA ListeningWorks ==
  ASSUME NEW s \in Seat, NEW t, Listens(s, t), Ordered(s), Wired(s)
  PROVE  Works(s, t)
<1>1. t.renderer.plugin = s.renderer.plugin /\ t.kernel.vt = s.kernel.vt
  BY DEF Listens, SameScreen, SameVt
<1> QED
  BY <1>1 DEF Listens, Works

LEMMA ModeWorks ==
  ASSUME NEW s \in Seat, NEW t, ModeSet(s, t), Ordered(s), Wired(s)
  PROVE  Works(s, t)
<1>1. Draws(s, t)
  BY ModeSetDraws
<1>2. Wired(t)
  BY DEF ModeSet, Wired, SameTerminal
<1> QED
  BY <1>1, <1>2, DrawingWorks

LEMMA RendererActivateWorks ==
  ASSUME NEW s \in Seat, NEW t, t = RendererActivate(s), Ordered(s), Wired(s)
  PROVE  Works(s, t) /\ SameInput(s, t)
<1>1. Draws(s, t)
  BY RendererActivateDraws
<1>2. Wired(t)
  <2>1. CASE s.renderer.opened
    BY <1>1, <2>1 DEF Draws
  <2>2. CASE ~s.renderer.opened
    BY <2>2 DEF RendererActivate
  <2> QED
    BY <2>1, <2>2
<1> QED
  BY <1>1, <1>2, DrawingWorks DEF Draws

LEMMA RendererDeactivateWorks ==
  ASSUME NEW s \in Seat, NEW t, t = RendererDeactivate(s), Ordered(s), Wired(s)
  PROVE  /\ Works(s, t) /\ SameInput(s, t)
         /\ ~t.renderer.scans
         /\ t.renderer.opened = s.renderer.opened
         /\ t.renderer.heads = s.renderer.heads
         /\ t.renderer.mapped = s.renderer.mapped
         /\ t.card.scan = s.card.scan
<1>1. Draws(s, t) /\ t.renderer.mapped = s.renderer.mapped /\ t.card.scan = s.card.scan
  BY RendererDeactivateDraws
<1>2. CASE s.renderer.opened
  BY <1>1, <1>2, RendererDeactivateDraws, DrawingWorks DEF Draws
<1>3. CASE ~s.renderer.opened
  <2>1. t = s
    BY <1>3 DEF RendererDeactivate
  <2>2. ~s.renderer.scans
    BY <1>3 DEF Wired
  <2> QED
    BY <1>1, <2>1, <2>2, DrawingWorks DEF Draws
<1> QED
  BY <1>2, <1>3

LEMMA ActivateKeyboardsWorks ==
  ASSUME NEW s \in Seat, NEW t, t = ActivateKeyboards(s), Ordered(s), Wired(s)
  PROVE  /\ Works(s, t) /\ t.card = s.card
         /\ Hears(s) => Hears(t)
<1>1. Listens(s, t)
  BY ActivateKeyboardsListens
<1>2. Works(s, t)
  BY <1>1, ListeningWorks
<1> QED
  BY <1>1, <1>2, ActivateKeyboardsListens DEF Listens

LEMMA CloseInputSourceWorks ==
  ASSUME NEW s \in Seat, NEW t, t = CloseInputSource(s), Ordered(s), Wired(s)
  PROVE  /\ Works(s, t) /\ t.card = s.card /\ SameScreen(s, t)
         /\ ~t.renderer.source /\ t.renderer.watch = "none"
<1>1. Listens(s, t) /\ ~t.renderer.source /\ t.renderer.watch = "none"
  BY CloseInputSourceListens
<1>2. Works(s, t)
  BY <1>1, ListeningWorks
<1> QED
  BY <1>1, <1>2 DEF Listens

LEMMA HideSplashWorks ==
  ASSUME NEW s \in Seat, NEW t, t = HideSplash(s), Ordered(s), Wired(s)
  PROVE  /\ Works(s, t) /\ SameInput(s, t)
         /\ (s.renderer.opened => s.renderer.mapped) \/ ~shown =>
                t.card.scan = s.card.scan
<1>1. CASE shown /\ s.renderer.opened
  <2>1. PICK u : u = RendererDeactivate(s)
    OBVIOUS
  <2>2. PICK v : v = Flush(u, s.renderer.heads)
    OBVIOUS
  <2>3. t = SetBufferedInput(v)
    BY <1>1, <2>1, <2>2 DEF HideSplash, Then
  <2>4. /\ Works(s, u) /\ SameInput(s, u) /\ ~u.renderer.scans
        /\ u.renderer.opened = s.renderer.opened
        /\ u.renderer.mapped = s.renderer.mapped
        /\ u.card.scan = s.card.scan
    BY <2>1, RendererDeactivateWorks
  <2>5. u \in Seat /\ Ordered(u) /\ Wired(u) /\ u.renderer.opened
    BY <1>1, <2>4 DEF Works
  <2>6. Draws(u, v) /\ (u.renderer.mapped => v = u)
    BY <2>2, <2>4, <2>5, HeadsAre, FlushDraws
  <2>7. Works(u, v) /\ SameInput(u, v)
    BY <2>5, <2>6, DrawingWorks DEF Draws
  <2>8. v \in Seat /\ Ordered(v) /\ Wired(v)
    BY <2>7 DEF Works
  <2>9. ModeSet(v, t)
    BY <2>3, <2>8, SetBufferedInputIs
  <2>10. Works(v, t) /\ SameInput(v, t) /\ t.card = v.card
    BY <2>8, <2>9, ModeWorks DEF ModeSet, SameInput
  <2>11. Works(s, t)
    BY <2>4, <2>5, <2>7, <2>10, WorkIsTransitive
  <2>12. SameInput(s, t)
    BY <2>4, <2>7, <2>10 DEF SameInput
  <2> QED
    BY <1>1, <2>4, <2>6, <2>10, <2>11, <2>12
<1>2. CASE ~(shown /\ s.renderer.opened)
  <2>1. t = SetBufferedInput(s)
    BY <1>2 DEF HideSplash, Then
  <2>2. ModeSet(s, t)
    BY <2>1, SetBufferedInputIs
  <2> QED
    BY <2>2, ModeWorks DEF ModeSet, SameInput
<1> QED
  BY <1>1, <1>2

LEMMA DumpDetailsWorks ==
  ASSUME NEW s \in Seat, NEW t, t = DumpDetails(s), Ordered(s), Wired(s)
  PROVE  /\ Works(s, t) /\ ~t.renderer.source /\ t.renderer.watch = "none"
         /\ (s.renderer.opened => s.renderer.mapped) \/ ~shown =>
                t.card.scan = s.card.scan
<1>1. PICK u : u = HideSplash(s)
  OBVIOUS
<1>2. PICK v : v = ActivateKeyboards(u)
  OBVIOUS
<1>3. PICK w : w = SetBufferedInput(v)
  OBVIOUS
<1>4. t = CloseInputSource(w)
  BY <1>1, <1>2, <1>3 DEF DumpDetails
<1>5. /\ Works(s, u)
      /\ (s.renderer.opened => s.renderer.mapped) \/ ~shown => u.card.scan = s.card.scan
  BY <1>1, HideSplashWorks
<1>6. Works(u, v) /\ v.card = u.card
  BY <1>2, <1>5, ActivateKeyboardsWorks DEF Works
<1>7. ModeSet(v, w)
  BY <1>3, <1>6, SetBufferedInputIs DEF Works
<1>8. Works(v, w) /\ w.card = v.card
  BY <1>6, <1>7, ModeWorks DEF Works, ModeSet
<1>9. /\ Works(w, t) /\ t.card = w.card
      /\ ~t.renderer.source /\ t.renderer.watch = "none"
  BY <1>4, <1>8, CloseInputSourceWorks DEF Works
<1>10. u \in Seat /\ v \in Seat /\ w \in Seat
  BY <1>5, <1>6, <1>8 DEF Works
<1>11. Works(s, t)
  BY <1>5, <1>6, <1>8, <1>9, <1>10, WorkIsTransitive
<1> QED
  BY <1>5, <1>6, <1>8, <1>9, <1>11

-----------------------------------------------------------------------------
(* Screens that come and go                                                 *)

LEMMA AddHeadWorks ==
  ASSUME NEW s \in Seat, NEW h \in Controller, NEW t, t = AddHead(s, h),
         Ordered(s), Wired(s), s.renderer.opened
  PROVE  /\ Works(s, t) /\ SameInput(s, t) /\ t.card.scan \subseteq s.card.scan
         /\ t.renderer.opened = s.renderer.opened
         /\ t.renderer.mapped = s.renderer.mapped
         /\ t.renderer.scans = s.renderer.scans
<1>1. PICK hs : hs = s.renderer.heads \cup {h}
  OBVIOUS
<1>2. hs \in SUBSET Controller
  BY <1>1, HeadsAre
<1>3. PICK o : o = [s.renderer EXCEPT !.heads = hs]
  OBVIOUS
<1>4. /\ o \in RendererObject /\ o.plugin = s.renderer.plugin
      /\ o.opened = s.renderer.opened
      /\ o.mapped = s.renderer.mapped /\ o.scans = s.renderer.scans
      /\ o.source = s.renderer.source /\ o.watch = s.renderer.watch
      /\ o.devices = s.renderer.devices /\ o.watched = s.renderer.watched
  BY <1>2, <1>3 DEF Seat, RendererObject
<1>5. t = [s EXCEPT !.renderer = o]
  BY <1>1, <1>3 DEF AddHead
<1>6. /\ t \in Seat /\ t.renderer = o /\ t.card = s.card /\ t.terminal = s.terminal
      /\ t.kernel = s.kernel /\ t.fault = s.fault /\ t.missed = s.missed
  BY <1>4, <1>5 DEF Seat
<1>7. SameTerminal(s, t) /\ SameInput(s, t)
  BY <1>4, <1>6 DEF SameTerminal, SameInput
<1>8. Ordered(t)
  BY <1>6 DEF Ordered
<1>9. Wired(t)
  BY <1>4, <1>6 DEF Wired
<1>10. Explained(s) => Explained(t)
  BY <1>4, <1>6 DEF Explained, KeysFit
<1> QED
  BY <1>4, <1>6, <1>7, <1>8, <1>9, <1>10 DEF Works

LEMMA RemoveHeadWorks ==
  ASSUME NEW s \in Seat, NEW h \in Controller, NEW t, t = RemoveHead(s, h),
         Ordered(s), Wired(s)
  PROVE  /\ Works(s, t) /\ SameInput(s, t) /\ t.card.scan \subseteq s.card.scan
         /\ t.renderer.opened = s.renderer.opened
         /\ t.renderer.mapped = s.renderer.mapped
         /\ t.renderer.scans = s.renderer.scans
<1>1. PICK hs, bs, rs, ds, c :
         /\ hs = s.renderer.heads \ {h} /\ bs = s.renderer.buffers \ {h}
         /\ rs = s.renderer.reset \ {h} /\ ds = s.renderer.dirty \ {h}
         /\ c = s.card.scan \ {h}
  OBVIOUS
<1>2. /\ hs \in SUBSET Controller /\ bs \in SUBSET Controller
      /\ rs \in SUBSET Controller /\ ds \in SUBSET Controller
      /\ c \in SUBSET Controller
  BY <1>1 DEF Seat, RendererObject, Card
<1>3. PICK o, d : /\ o = [s.renderer EXCEPT !.heads = hs, !.buffers = bs,
                                            !.reset = rs, !.dirty = ds]
                  /\ d = [s.card EXCEPT !.scan = c]
  OBVIOUS
<1>4. /\ o \in RendererObject /\ o.plugin = s.renderer.plugin
      /\ o.opened = s.renderer.opened /\ o.heads = hs
      /\ o.mapped = s.renderer.mapped /\ o.scans = s.renderer.scans
      /\ o.source = s.renderer.source /\ o.watch = s.renderer.watch
      /\ o.devices = s.renderer.devices /\ o.watched = s.renderer.watched
  BY <1>2, <1>3 DEF Seat, RendererObject
<1>5. d \in Card /\ d.scan = c
  BY <1>2, <1>3 DEF Seat, Card
<1>6. t = [s EXCEPT !.renderer = o, !.card = d]
  BY <1>1, <1>3 DEF RemoveHead, Seat, RendererObject
<1>7. /\ t \in Seat /\ t.renderer = o /\ t.card = d /\ t.terminal = s.terminal
      /\ t.kernel = s.kernel /\ t.fault = s.fault /\ t.missed = s.missed
  BY <1>4, <1>5, <1>6 DEF Seat
<1>8. SameTerminal(s, t) /\ SameInput(s, t)
  BY <1>4, <1>7 DEF SameTerminal, SameInput
<1>9. Ordered(t)
  BY <1>7 DEF Ordered
<1>10. Wired(t)
  <2>1. s.renderer.heads = {} => hs = {}
    BY <1>1
  <2> QED
    BY <1>4, <1>7, <2>1 DEF Wired
<1>11. Explained(s) => Explained(t)
  BY <1>4, <1>7 DEF Explained, KeysFit
<1>12. t.card.scan \subseteq s.card.scan
  BY <1>1, <1>5, <1>7
<1> QED
  BY <1>4, <1>7, <1>8, <1>9, <1>10, <1>11, <1>12 DEF Works

LEMMA RendererCloseWorks ==
  ASSUME NEW s \in Seat, NEW t, t = RendererClose(s), Ordered(s), Wired(s)
  PROVE  /\ Works(s, t) /\ SameInput(s, t) /\ t.card.scan = {}
         /\ ~t.renderer.opened /\ ~t.renderer.scans
<1>1. PICK f : f = IF /\ s.renderer.mapped /\ s.renderer.plugin = "drm"
                      /\ ~(s.renderer.heads \subseteq s.renderer.buffers)
                   THEN s.fault \cup {"no buffer"} ELSE s.fault
  OBVIOUS
<1>2. /\ f \subseteq {"killed", "unready", "open twice", "freed watch", "no buffer"}
      /\ f \subseteq s.fault \cup {"no buffer"}
  BY <1>1, SeatIs
<1>3. PICK o, d : /\ o = [s.renderer EXCEPT
                            !.mapped = FALSE, !.opened = FALSE, !.active = FALSE,
                            !.scans = FALSE, !.heads = {}, !.buffers = {},
                            !.reset = {}, !.dirty = {}]
                  /\ d = [s.card EXCEPT !.master = FALSE, !.scan = {}]
  OBVIOUS
<1>4. /\ o \in RendererObject /\ o.plugin = s.renderer.plugin
      /\ ~o.opened /\ o.heads = {} /\ ~o.scans
      /\ o.source = s.renderer.source /\ o.watch = s.renderer.watch
      /\ o.devices = s.renderer.devices /\ o.watched = s.renderer.watched
  BY <1>3 DEF Seat, RendererObject
<1>5. d \in Card /\ d.scan = {}
  BY <1>3 DEF Seat, Card
<1>6. t = [s EXCEPT !.renderer = o, !.card = d, !.fault = f]
  <2>1. PICK u : u = IF s.renderer.mapped THEN UnmapFromDevice(s) ELSE s
    OBVIOUS
  <2>2. t = [u EXCEPT !.renderer.mapped = FALSE, !.renderer.opened = FALSE,
                      !.renderer.active = FALSE, !.renderer.scans = FALSE,
                      !.renderer.heads = {}, !.renderer.buffers = {},
                      !.renderer.reset = {}, !.renderer.dirty = {},
                      !.card.master = FALSE, !.card.scan = {}]
    BY <2>1 DEF RendererClose
  <2>3. CASE s.renderer.mapped
    <3>1. PICK p : p = [s.renderer EXCEPT !.buffers = {}]
      OBVIOUS
    <3>2. u = [s EXCEPT !.renderer = p, !.fault = f]
      BY <1>1, <2>1, <2>3, <3>1 DEF UnmapFromDevice, Seat
    <3>3. /\ p \in RendererObject
          /\ o = [p EXCEPT !.mapped = FALSE, !.opened = FALSE, !.active = FALSE,
                           !.scans = FALSE, !.heads = {}, !.buffers = {},
                           !.reset = {}, !.dirty = {}]
      BY <1>3, <3>1 DEF Seat, RendererObject
    <3>4. /\ u \in Seat /\ u.renderer = p /\ u.fault = f /\ u.card = s.card
          /\ u.terminal = s.terminal /\ u.kernel = s.kernel
      BY <1>2, <3>2, <3>3 DEF Seat
    <3>5. t = [u EXCEPT !.renderer = o, !.card = d]
      <4>1. /\ o = [u.renderer EXCEPT
                      !.mapped = FALSE, !.opened = FALSE, !.active = FALSE,
                      !.scans = FALSE, !.heads = {}, !.buffers = {},
                      !.reset = {}, !.dirty = {}]
            /\ d = [u.card EXCEPT !.master = FALSE, !.scan = {}]
        BY <1>3, <3>3, <3>4
      <4>2. PICK v \in Seat : v = u
        BY <3>4
      <4> QED
        BY <2>2, <4>1, <4>2, ZenonT(60) DEF Seat
    <3> QED
      BY <3>2, <3>4, <3>5 DEF Seat
  <2>4. CASE ~s.renderer.mapped
    <3>1. u = s /\ f = s.fault
      BY <1>1, <2>1, <2>4
    <3>2. t = [s EXCEPT !.renderer = o, !.card = d]
      BY <1>3, <2>2, <3>1, ZenonT(60) DEF Seat
    <3> QED
      BY <3>1, <3>2 DEF Seat
  <2> QED
    BY <2>3, <2>4
<1>7. /\ t \in Seat /\ t.renderer = o /\ t.card = d /\ t.terminal = s.terminal
      /\ t.kernel = s.kernel /\ t.fault = f /\ t.missed = s.missed
  BY <1>2, <1>4, <1>5, <1>6 DEF Seat
<1>8. SameTerminal(s, t) /\ SameInput(s, t)
  BY <1>4, <1>7 DEF SameTerminal, SameInput
<1>9. Ordered(t)
  BY <1>7 DEF Ordered
<1>10. Wired(t)
  BY <1>4, <1>7 DEF Wired
<1>11. Explained(s) => Explained(t)
  BY <1>2, <1>4, <1>7 DEF Explained, KeysFit
<1> QED
  BY <1>4, <1>5, <1>7, <1>8, <1>9, <1>10, <1>11 DEF Works

-----------------------------------------------------------------------------
(* The console that is handed over, and the end of the program              *)

(* Where a hand-over of the seat s ends.                                    *)
Ends(s, t) ==
    /\ t \in Seat /\ Ordered(t) /\ Wired(t)
    /\ ~t.terminal.open /\ ~t.renderer.source
    /\ t.terminal.tries = s.terminal.tries
    /\ Explained(s) => Explained(t)
    /\ t.card.scan \subseteq s.card.scan
    /\ t.kernel.vt \in {s.kernel.vt, "ours"} \/ t.card.scan = {}

LEMMA DeactivateConsoleEnds ==
  ASSUME NEW s \in Seat, NEW t, t = DeactivateConsole(s), Ordered(s), Wired(s),
         ~s.renderer.source
  PROVE  Ends(s, t) /\ t.renderer = s.renderer
<1>1. PICK u : u = StopWatchingForVtChanges(s)
  OBVIOUS
<1>2. PICK v : v = SetBufferedInput(u)
  OBVIOUS
<1>3. t = Close(v)
  BY <1>1, <1>2 DEF DeactivateConsole
<1>4. Releases(s, u)
  BY <1>1, StopWatchingReleases
<1>5. u \in Seat /\ Ordered(u) /\ Wired(u)
  BY <1>4 DEF Releases
<1>6. Releases(u, v)
  BY <1>2, <1>5, SetBufferedReleases
<1>7. v \in Seat /\ Ordered(v) /\ Wired(v)
  BY <1>5, <1>6 DEF Releases
<1>8. Releases(v, t) /\ ~t.terminal.open
  BY <1>3, <1>7, CloseReleases
<1>9. Releases(s, t)
  BY <1>4, <1>5, <1>6, <1>8, ReleaseIsTransitive
<1> QED
  BY <1>8, <1>9 DEF Releases, Ends

LEMMA ReleaseConsoleEnds ==
  ASSUME NEW s \in Seat, NEW t, t = ReleaseConsole(s), Ordered(s), Wired(s),
         ~s.renderer.source
  PROVE  Ends(s, t)
<1>1. PICK u : u = DeactivateVt(s)
  OBVIOUS
<1>2. t = Close(u)
  BY <1>1 DEF ReleaseConsole
<1>3. Releases(s, u)
  BY <1>1, DeactivateVtReleases
<1>4. u \in Seat /\ Ordered(u) /\ Wired(u)
  BY <1>3 DEF Releases
<1>5. Releases(u, t) /\ ~t.terminal.open
  BY <1>2, <1>4, CloseReleases
<1>6. Releases(s, t)
  BY <1>3, <1>5, ReleaseIsTransitive
<1> QED
  BY <1>5, <1>6 DEF Releases, Ends

LEMMA QuitProgramEnds ==
  ASSUME NEW s \in Seat, NEW t, t = QuitProgram(s), Ordered(s), Wired(s),
         ~s.renderer.source
  PROVE  Ends(s, t)
<1>1. PICK u : u = Close(s)
  OBVIOUS
<1>2. Releases(s, u) /\ ~u.terminal.open
  BY <1>1, CloseReleases
<1>3. u \in Seat /\ Ordered(u) /\ Wired(u) /\ u.renderer = s.renderer
  BY <1>2 DEF Releases
<1>4. PICK n : n = IF u.terminal.tries > 0 THEN 0 ELSE u.terminal.timers
  OBVIOUS
<1>5. n \in {0, u.terminal.timers} /\ n \in Nat
  BY <1>3, <1>4 DEF Seat, TerminalObject
<1>6. PICK e, o, d : /\ e = [u.terminal EXCEPT !.timers = n]
                     /\ o = [u.renderer EXCEPT !.opened = FALSE, !.scans = FALSE,
                                               !.heads = {}, !.devices = {}]
                     /\ d = [u.card EXCEPT !.master = FALSE]
  OBVIOUS
<1>7. /\ e \in TerminalObject /\ e.timers = n
      /\ e.fd = u.terminal.fd /\ e.watch = u.terminal.watch
      /\ e.open = u.terminal.open /\ e.active = u.terminal.active
      /\ e.watching = u.terminal.watching /\ e.gaveUp = u.terminal.gaveUp
      /\ e.disabled = u.terminal.disabled /\ e.tries = u.terminal.tries
  BY <1>3, <1>5, <1>6 DEF Seat, TerminalObject
<1>8. /\ o \in RendererObject /\ ~o.opened /\ ~o.scans /\ o.heads = {}
      /\ o.source = u.renderer.source /\ o.watch = u.renderer.watch
      /\ o.watched = u.renderer.watched
  BY <1>3, <1>6 DEF Seat, RendererObject
<1>9. d \in Card /\ d.scan = u.card.scan
  BY <1>3, <1>6 DEF Seat, Card
<1>10. t = [u EXCEPT !.terminal = e, !.renderer = o, !.card = d]
  <2>1. t = [u EXCEPT !.terminal.timers = IF u.terminal.tries > 0 THEN 0 ELSE @,
                      !.renderer.opened = FALSE, !.renderer.scans = FALSE,
                      !.renderer.heads = {}, !.renderer.devices = {},
                      !.card.master = FALSE]
    BY <1>1 DEF QuitProgram
  <2> QED
    BY <1>3, <1>4, <1>6, <2>1 DEF Seat
<1>11. /\ t \in Seat /\ t.terminal = e /\ t.renderer = o /\ t.card = d
       /\ t.kernel = u.kernel /\ t.fault = u.fault /\ t.missed = u.missed
  BY <1>3, <1>7, <1>8, <1>9, <1>10 DEF Seat
<1>12. Ordered(t)
  BY <1>3, <1>7, <1>11 DEF Ordered
<1>13. Wired(t)
  BY <1>2, <1>3, <1>7, <1>8, <1>11 DEF Wired
<1>14. Explained(s) => Explained(t)
  <2>1. Explained(s) => Explained(u)
    BY <1>2 DEF Releases
  <2>2. ASSUME Explained(u) PROVE Explained(t)
    <3>1. /\ t.terminal.timers > 0 => u.terminal.timers > 0
          /\ t.terminal.timers > 1 => u.terminal.timers > 1
      BY <1>5, <1>7, <1>11
    <3>2. /\ t.terminal.fd = u.terminal.fd /\ t.terminal.open = u.terminal.open
          /\ t.terminal.watching = u.terminal.watching
          /\ t.terminal.disabled = u.terminal.disabled
          /\ t.renderer.watch = u.renderer.watch
      BY <1>7, <1>8, <1>11
    <3> QED
      BY <1>11, <2>2, <3>1, <3>2 DEF Explained, KeysFit
  <2> QED
    BY <2>1, <2>2
<1> QED
  BY <1>2, <1>3, <1>7, <1>8, <1>9, <1>11, <1>12, <1>13, <1>14 DEF Ends, Releases

LEMMA EndIsTransitive ==
  ASSUME NEW s \in Seat, NEW t, NEW u, Ends(s, t), Ends(t, u)
  PROVE  Ends(s, u)
BY DEF Ends

(* A daemon that is active hands over what it did last.                     *)
LEMMA WorkEnds ==
  ASSUME NEW s \in Seat, NEW t, NEW u, Works(s, t), Ends(t, u)
  PROVE  /\ u \in Seat /\ Ordered(u) /\ Wired(u)
         /\ ~u.terminal.open /\ ~u.renderer.source
         /\ u.terminal.tries = s.terminal.tries
         /\ Explained(s) => Explained(u)
         /\ u.card.scan \subseteq t.card.scan
         /\ s.renderer.plugin = "drm" /\ (s.terminal.active => s.kernel.vt = "ours") =>
                u.card.scan \subseteq s.card.scan \/ u.kernel.vt = "ours"
BY DEF Works, Ends, SameTerminal

(* The screen of a splash that was drawn before stays as it is.             *)
LEMMA QuitEnds ==
  ASSUME NEW s \in Seat, NEW keep \in BOOLEAN, NEW t, t = Quit(s, keep),
         Ordered(s), Wired(s)
  PROVE  \E u : /\ Works(s, u) /\ Ends(u, t)
                /\ (s.renderer.opened => s.renderer.mapped) \/ ~shown =>
                       u.card.scan = s.card.scan
<1>1. PICK v : v = IF keep THEN s ELSE HideSplash(s)
  OBVIOUS
<1>2. PICK u : u = CloseInputSource(v)
  OBVIOUS
<1>3. PICK w : w = IF keep THEN u ELSE ReleaseConsole(u)
  OBVIOUS
<1>4. t = QuitProgram(w)
  BY <1>1, <1>2, <1>3 DEF Quit
<1>5. /\ v \in Seat /\ Ordered(v) /\ Wired(v)
      /\ v = s \/ Works(s, v)
      /\ (s.renderer.opened => s.renderer.mapped) \/ ~shown => v.card.scan = s.card.scan
  <2>1. CASE keep
    BY <1>1, <2>1
  <2>2. CASE ~keep
    BY <1>1, <2>2, HideSplashWorks DEF Works
  <2> QED
    BY <2>1, <2>2
<1>6. Works(v, u) /\ u.card = v.card /\ ~u.renderer.source
  BY <1>2, <1>5, CloseInputSourceWorks
<1>7. Works(s, u)
  BY <1>5, <1>6, WorkIsTransitive
<1>8. u \in Seat /\ Ordered(u) /\ Wired(u)
  BY <1>7 DEF Works
<1>9. Ends(u, t)
  <2>1. CASE keep
    BY <1>3, <1>4, <1>6, <1>8, <2>1, QuitProgramEnds
  <2>2. CASE ~keep
    <3>1. Ends(u, w)
      BY <1>3, <1>6, <1>8, <2>2, ReleaseConsoleEnds
    <3>2. Ends(w, t)
      BY <1>4, <3>1, QuitProgramEnds DEF Ends
    <3> QED
      BY <1>8, <3>1, <3>2, EndIsTransitive
  <2> QED
    BY <2>1, <2>2
<1> QED
  BY <1>5, <1>6, <1>7, <1>9

-----------------------------------------------------------------------------
(* The steps                                                                *)

OnlyOnOurVt ==
    seat.renderer.plugin = "drm" /\ ~strayed' =>
        seat'.card.scan \subseteq seat.card.scan \/ seat'.kernel.vt = "ours"

Counted ==
    /\ count \in [DOMAIN Bound -> Nat]
    /\ \A k \in DOMAIN Bound : count[k] \in 0 .. Bound[k]

Typed ==
    /\ {shown, retain, strayed} \subseteq BOOLEAN
    /\ phase \in {"active", "deactivating", "inactive", "quitting", "quit"}
    /\ Counted

LEMMA TypedIs ==
  IInv => seat \in Seat /\ Typed
BY DEF IInv, TypeOK, Typed, Counted

LEMMA CountIs ==
  ASSUME IInv, NEW k \in DOMAIN Bound, Count(k)
  PROVE  Counted'
<1>1. PICK b : b = Bound[k]
  OBVIOUS
<1>2. b \in Nat
  BY <1>1, SeatAssumption DEF Bound
<1>3. PICK c, d : c = count /\ d = count'
  OBVIOUS
<1>4. c \in [DOMAIN Bound -> Nat] /\ \A j \in DOMAIN Bound : c[j] \in 0 .. Bound[j]
  BY <1>3 DEF IInv, TypeOK
<1>5. c[k] < b /\ d = [c EXCEPT ![k] = @ + 1]
  BY <1>1, <1>3 DEF Count
<1>6. d \in [DOMAIN Bound -> Nat]
  BY <1>4, <1>5
<1>7. d[k] \in 0 .. Bound[k]
  BY <1>1, <1>2, <1>4, <1>5
<1>8. \A j \in DOMAIN Bound : j # k => d[j] = c[j]
  BY <1>4, <1>5
<1>9. \A j \in DOMAIN Bound : d[j] \in 0 .. Bound[j]
  BY <1>4, <1>7, <1>8
<1>10. DOMAIN Bound' = DOMAIN Bound /\ Bound' = Bound
  BY DEF Bound
<1> QED
  BY <1>3, <1>6, <1>9, <1>10 DEF Counted

LEMMA StepKeeps ==
  ASSUME IInv, NEW s, NEW t, s = seat, t = seat', Typed',
         t \in Seat, Wired(t), Ordered(t),
         t.terminal.open => t.terminal.watching,
         t.fault = {} => t.terminal.tries < Retries,
         Explained(t) /\ Hears(t),
         HandedOver',
         s.renderer.plugin = "drm" /\ ~strayed' =>
             t.card.scan \subseteq s.card.scan \/ t.kernel.vt = "ours"
  PROVE  IInv' /\ OnlyOnOurVt
<1>1. TypeOK' /\ (count \in [DOMAIN Bound -> Nat])'
  BY DEF TypeOK, Typed, Counted
<1> QED
  BY <1>1 DEF IInv, OnlyOnOurVt

(* The hand-over is not touched.                                            *)
LEMMA HandedOverStays ==
  ASSUME HandedOver, NEW s, NEW t, s = seat, t = seat',
         phase' = phase, shown' = shown, strayed' = strayed,
         t.terminal.open = s.terminal.open,
         t.renderer.source = s.renderer.source,
         ~t.terminal.open /\ shown /\ ~strayed /\ ~s.renderer.scans
             /\ (s.renderer.opened => s.renderer.mapped) =>
                 ~t.renderer.scans /\ (t.renderer.opened => t.renderer.mapped)
  PROVE  HandedOver'
BY DEF HandedOver

(* While the terminal is open it knows the VT on the screen.                *)
LEMMA OpenKnowsVt ==
  ASSUME NEW s \in Seat, Ordered(s), s.terminal.open => s.terminal.watching,
         s.terminal.open
  PROVE  s.terminal.active => s.kernel.vt = "ours"
BY SeatIs DEF Ordered, Vt

(* The terminal stays as it is.                                             *)
LEMMA WorkKeeps ==
  ASSUME IInv, Alive, NEW s, NEW t, s = seat, t = seat', Works(s, t), Typed',
         strayed' = strayed,
         Hears(t),
         \/ phase' = phase
         \/ phase = "active" /\ phase' = "deactivating"
         \/ phase' = "quitting",
         phase' # "active" => ~t.renderer.source,
         ~t.terminal.open /\ shown' /\ ~strayed =>
             ~t.renderer.scans /\ (t.renderer.opened => t.renderer.mapped),
         ~s.terminal.open /\ ~strayed => t.card.scan \subseteq s.card.scan
  PROVE  IInv' /\ OnlyOnOurVt
<1>1. s \in Seat /\ Ordered(s) /\ (s.terminal.open => s.terminal.watching)
  BY TypedIs DEF IInv
<1>2. /\ t.terminal.open = s.terminal.open /\ t.terminal.watching = s.terminal.watching
      /\ t.terminal.tries = s.terminal.tries
  BY DEF Works, SameTerminal
<1>3. t.terminal.tries < Retries
  BY <1>2 DEF IInv, Alive
<1>4. Explained(t)
  BY DEF IInv, Works
<1>5. HandedOver'
  BY <1>2 DEF IInv, HandedOver
<1>6. ASSUME s.renderer.plugin = "drm", ~strayed'
      PROVE  t.card.scan \subseteq s.card.scan \/ t.kernel.vt = "ours"
  <2>1. CASE s.terminal.open
    BY <1>1, <1>6, <2>1, OpenKnowsVt DEF Works
  <2>2. CASE ~s.terminal.open
    BY <1>6, <2>2
  <2> QED
    BY <2>1, <2>2
<1> QED
  BY <1>1, <1>2, <1>3, <1>4, <1>5, <1>6, StepKeeps DEF Works

(* The console is handed over or the program ends.                          *)
LEMMA EndKeeps ==
  ASSUME IInv, Alive, NEW s, NEW t, NEW u, s = seat, t = seat',
         Works(s, u), Ends(u, t), Typed',
         phase' \in {"inactive", "quit"},
         shown' /\ ~strayed' =>
             ~t.renderer.scans /\ (t.renderer.opened => t.renderer.mapped),
         ~s.terminal.open /\ ~strayed' => u.card.scan \subseteq s.card.scan
  PROVE  IInv' /\ OnlyOnOurVt
<1>1. s \in Seat /\ Ordered(s) /\ (s.terminal.open => s.terminal.watching)
  BY TypedIs DEF IInv
<1>2. /\ t \in Seat /\ Ordered(t) /\ Wired(t)
      /\ ~t.terminal.open /\ ~t.renderer.source
      /\ t.terminal.tries = s.terminal.tries
      /\ Explained(s) => Explained(t)
      /\ t.card.scan \subseteq u.card.scan
      /\ s.renderer.plugin = "drm" /\ (s.terminal.active => s.kernel.vt = "ours") =>
             t.card.scan \subseteq s.card.scan \/ t.kernel.vt = "ours"
  BY <1>1, WorkEnds
<1>3. t.terminal.tries < Retries
  BY <1>2 DEF IInv, Alive
<1>4. Explained(t) /\ Hears(t)
  BY <1>2 DEF IInv, Hears
<1>5. HandedOver'
  BY <1>2 DEF IInv, HandedOver
<1>6. ASSUME s.renderer.plugin = "drm", ~strayed'
      PROVE  t.card.scan \subseteq s.card.scan \/ t.kernel.vt = "ours"
  <2>1. CASE s.terminal.open
    BY <1>1, <1>2, <1>6, <2>1, OpenKnowsVt
  <2>2. CASE ~s.terminal.open
    BY <1>2, <1>6, <2>2
  <2> QED
    BY <2>1, <2>2
<1> QED
  BY <1>2, <1>3, <1>4, <1>5, <1>6, StepKeeps

-----------------------------------------------------------------------------
(* The kernel and the user                                                  *)

LEMMA SwitchVtKeeps ==
  ASSUME IInv, NEW vt \in Vt, SwitchVt(vt)
  PROVE  IInv' /\ OnlyOnOurVt
<1>1. PICK s, t : s = seat /\ t = seat'
  OBVIOUS
<1>2. t = GoTo(s, vt) /\ Alive
  BY <1>1 DEF SwitchVt, Become
<1>3. /\ strayed' = strayed /\ shown' = shown
      /\ phase' = phase /\ retain' = retain
  BY DEF SwitchVt, Daemon
<1>4. Typed'
  <2>1. Count("switches") /\ "switches" \in DOMAIN Bound
    BY DEF SwitchVt, Bound
  <2>2. Counted'
    BY <2>1, CountIs
  <2> QED
    BY <1>3, <2>2, TypedIs DEF Typed
<1>5. /\ s \in Seat /\ Ordered(s) /\ Wired(s) /\ HandedOver
      /\ s.terminal.open => s.terminal.watching
      /\ s.terminal.tries < Retries
      /\ Explained(s) /\ Hears(s)
  BY <1>1, <1>2, TypedIs DEF IInv, Alive
<1>6. /\ t \in Seat /\ Ordered(t)
      /\ t.terminal = s.terminal /\ t.renderer = s.renderer
      /\ t.kernel.tty = s.kernel.tty /\ t.kernel.process = s.kernel.process
      /\ t.kernel.keys = s.kernel.keys /\ t.kernel.raw = s.kernel.raw
      /\ t.card.scan \in {s.card.scan, {}}
      /\ t.missed = s.missed
      /\ t.fault \in {s.fault, s.fault \cup {"killed"}}
      /\ (s.kernel.process => s.terminal.watching) => t.fault = s.fault
  BY <1>2, <1>5, GoToIs
<1>7. Wired(t)
  BY <1>5, <1>6 DEF Wired
<1>8. Explained(t) /\ Hears(t)
  <2>1. /\ "open twice" \notin t.fault /\ "freed watch" \notin t.fault
        /\ "killed" \in t.fault => "auto" \in t.missed
    <3>1. s.fault = {} /\ (s.kernel.process => s.terminal.watching \/ "auto" \in s.missed)
      BY <1>1, <1>2, <1>5 DEF Alive, Explained
    <3> QED
      BY <1>6, <3>1
  <2> QED
    BY <1>5, <1>6, <2>1 DEF Explained, KeysFit, Hears
<1>9. HandedOver'
  BY <1>1, <1>3, <1>5, <1>6, HandedOverStays
<1>10. t.card.scan \subseteq s.card.scan
  BY <1>6
<1> QED
  BY <1>1, <1>3, <1>4, <1>5, <1>6, <1>7, <1>8, <1>9, <1>10, StepKeeps

(* What explains a state explains one that differs only in the rest.        *)
LEMMA ExplainedStays ==
  ASSUME NEW s, NEW t, Explained(s),
         t.terminal.fd = s.terminal.fd, t.terminal.open = s.terminal.open,
         t.terminal.timers = s.terminal.timers,
         t.terminal.watching = s.terminal.watching,
         t.terminal.disabled = s.terminal.disabled,
         t.renderer.watch = s.renderer.watch,
         t.kernel.process = s.kernel.process, t.kernel.keys = s.kernel.keys,
         t.kernel.raw = s.kernel.raw, t.fault = s.fault, t.missed = s.missed
  PROVE  Explained(t)
BY DEF Explained, KeysFit

LEMMA HurryVtKeeps ==
  ASSUME IInv, HurryVt
  PROVE  IInv' /\ OnlyOnOurVt
<1>1. PICK s, t : s = seat /\ t = seat'
  OBVIOUS
<1>2. /\ strayed' = strayed /\ shown' = shown
      /\ phase' = phase /\ retain' = retain
      /\ t = [s EXCEPT !.kernel.hasty = TRUE]
      /\ Alive
  BY <1>1 DEF HurryVt, Daemon, Become
<1>3. Typed'
  <2>1. Count("switches") /\ "switches" \in DOMAIN Bound
    BY DEF HurryVt, Bound
  <2>2. Counted'
    BY <2>1, CountIs
  <2> QED
    BY <1>2, <2>2, TypedIs DEF Typed
<1>4. /\ s \in Seat /\ Ordered(s) /\ Wired(s) /\ HandedOver
      /\ s.terminal.open => s.terminal.watching
      /\ s.terminal.tries < Retries
      /\ Explained(s) /\ Hears(s)
  BY <1>1, <1>2, TypedIs DEF IInv, Alive
<1>5. PICK k : k = [s.kernel EXCEPT !.hasty = TRUE]
  OBVIOUS
<1>6. /\ k \in Kernel /\ k.tty = s.kernel.tty /\ k.vt = s.kernel.vt
      /\ k.leaving = s.kernel.leaving /\ k.process = s.kernel.process
      /\ k.signals = s.kernel.signals /\ k.keys = s.kernel.keys
      /\ k.raw = s.kernel.raw
  BY <1>4, <1>5 DEF Seat, Kernel
<1>7. t = [s EXCEPT !.kernel = k]
  BY <1>2, <1>5
<1>8. /\ t \in Seat /\ t.kernel = k /\ t.terminal = s.terminal /\ t.card = s.card
      /\ t.renderer = s.renderer /\ t.fault = s.fault /\ t.missed = s.missed
  BY <1>4, <1>6, <1>7 DEF Seat
<1>9. Ordered(t) /\ Wired(t)
  BY <1>4, <1>6, <1>8 DEF Ordered, Wired
<1>10. Explained(t) /\ Hears(t)
  <2>1. Explained(t)
    BY <1>4, <1>6, <1>8, ExplainedStays
  <2>2. Hears(t)
    BY <1>4, <1>8 DEF Hears
  <2> QED
    BY <2>1, <2>2
<1>11. HandedOver'
  BY <1>1, <1>2, <1>4, <1>8, HandedOverStays
<1> QED
  BY <1>1, <1>2, <1>3, <1>4, <1>8, <1>9, <1>10, <1>11, StepKeeps

(* A hangup is told to the terminal, then to its input source.              *)
LEMMA TtyHangsUpKeeps ==
  ASSUME IInv, NEW tty \in {"good", "eio", "gone"}, TtyHangsUp(tty)
  PROVE  IInv' /\ OnlyOnOurVt
<1>1. PICK s, t : s = seat /\ t = seat'
  OBVIOUS
<1>2. /\ phase' = phase /\ shown' = shown /\ strayed' = strayed /\ retain' = retain
      /\ Alive /\ s.terminal.watch
  BY <1>1 DEF TtyHangsUp, Daemon
<1>3. Typed'
  <2>1. Count("hangups") /\ "hangups" \in DOMAIN Bound
    BY DEF TtyHangsUp, Bound
  <2>2. Counted'
    BY <2>1, CountIs
  <2> QED
    BY <1>2, <2>2, TypedIs DEF Typed
<1>4. /\ s \in Seat /\ Ordered(s) /\ Wired(s) /\ HandedOver
      /\ s.terminal.open => s.terminal.watching
      /\ Explained(s) /\ Hears(s)
  BY <1>1, TypedIs DEF IInv
<1>5. PICK k : k = [s.kernel EXCEPT !.tty = tty, !.raw = FALSE]
  OBVIOUS
<1>6. /\ k \in Kernel /\ k.tty = tty /\ k.vt = s.kernel.vt
      /\ k.leaving = s.kernel.leaving /\ k.process = s.kernel.process
      /\ k.signals = s.kernel.signals /\ k.keys = s.kernel.keys /\ ~k.raw
  BY <1>4, <1>5 DEF Seat, Kernel
<1>7. PICK u : u = [s EXCEPT !.kernel = k]
  OBVIOUS
<1>8. /\ u \in Seat /\ u.kernel = k /\ u.terminal = s.terminal /\ u.card = s.card
      /\ u.renderer = s.renderer /\ u.fault = s.fault /\ u.missed = s.missed
  BY <1>4, <1>6, <1>7 DEF Seat
<1>9. PICK v : v = OnTtyDisconnected(u)
  OBVIOUS
<1>10. t = OnInputSourceDisconnected(v)
  <2>1. u = [s EXCEPT !.kernel.tty = tty, !.kernel.raw = FALSE]
    BY <1>4, <1>5, <1>7 DEF Seat
  <2>2. PICK x : x = [seat EXCEPT !.kernel.tty = tty, !.kernel.raw = FALSE]
    OBVIOUS
  <2>3. seat' = Then(OnTtyDisconnected(x), OnInputSourceDisconnected)
    BY <2>2 DEF TtyHangsUp, Become
  <2>4. x = u
    BY <1>1, <2>1, <2>2
  <2> QED
    BY <1>1, <1>9, <2>3, <2>4 DEF Then
<1>11. /\ v \in Seat /\ SameVt(u, v) /\ v.card = u.card /\ v.renderer = u.renderer
       /\ v.terminal.open = u.terminal.open /\ v.terminal.active = u.terminal.active
       /\ v.terminal.watching = u.terminal.watching
       /\ v.terminal.fd <=> v.terminal.watch
       /\ ~v.terminal.fd => v.terminal.timers > 0 \/ v.terminal.gaveUp
       /\ v.fault = {} => v.terminal.tries < Retries
       /\ "listen" \in u.missed => "listen" \in v.missed
       /\ ~u.kernel.raw /\ u.terminal.fd /\ Explained(u) => Explained(v)
  BY <1>8, <1>9, OnTtyDisconnectedIs
<1>12. Wired(v)
  BY <1>4, <1>8, <1>11 DEF Wired
<1>13. Ordered(v)
  BY <1>4, <1>6, <1>8, <1>11 DEF Ordered, SameVt
<1>14. Explained(v)
  <2>1. Explained(u)
    BY <1>4, <1>6, <1>8 DEF Explained, KeysFit
  <2> QED
    BY <1>2, <1>4, <1>6, <1>8, <1>11, <2>1 DEF Wired
<1>15. s.renderer.source /\ s.renderer.watch = "none" => "listen" \in s.missed
  BY <1>4 DEF Hears
<1>16. /\ Listens(v, t) /\ t.fault = v.fault
       /\ t.renderer.source = v.renderer.source
       /\ Hears(t)
  BY <1>8, <1>10, <1>11, <1>12, <1>13, <1>15, OnInputSourceDisconnectedListens
<1>17. /\ t \in Seat /\ Wired(t) /\ Ordered(t) /\ Explained(t)
       /\ t.terminal.open = s.terminal.open /\ t.terminal.watching = s.terminal.watching
       /\ t.terminal.tries = v.terminal.tries
       /\ t.renderer.opened = s.renderer.opened /\ t.renderer.mapped = s.renderer.mapped
       /\ t.renderer.scans = s.renderer.scans /\ t.renderer.source = s.renderer.source
       /\ t.card = s.card
  BY <1>8, <1>11, <1>12, <1>13, <1>14, <1>16 DEF Listens, SameTerminal, SameScreen
<1>18. HandedOver'
  BY <1>1, <1>2, <1>4, <1>17, HandedOverStays
<1> QED
  BY <1>1, <1>3, <1>4, <1>11, <1>16, <1>17, <1>18, StepKeeps

LEMMA TtyComesBackKeeps ==
  ASSUME IInv, TtyComesBack
  PROVE  IInv' /\ OnlyOnOurVt
<1>1. PICK s, t : s = seat /\ t = seat'
  OBVIOUS
<1>2. /\ phase' = phase /\ shown' = shown /\ strayed' = strayed /\ retain' = retain
      /\ count' = count
      /\ t = [s EXCEPT !.kernel.tty = "good"]
      /\ Alive /\ s.kernel.tty = "eio"
  BY <1>1 DEF TtyComesBack, Daemon, Become
<1>3. Typed'
  BY <1>2, TypedIs DEF Typed, Counted, Bound
<1>4. /\ s \in Seat /\ Ordered(s) /\ Wired(s) /\ HandedOver
      /\ s.terminal.open => s.terminal.watching
      /\ s.terminal.tries < Retries
      /\ Explained(s) /\ Hears(s)
  BY <1>1, <1>2, TypedIs DEF IInv, Alive
<1>5. PICK k : k = [s.kernel EXCEPT !.tty = "good"]
  OBVIOUS
<1>6. /\ k \in Kernel /\ k.vt = s.kernel.vt
      /\ k.leaving = s.kernel.leaving /\ k.process = s.kernel.process
      /\ k.signals = s.kernel.signals /\ k.keys = s.kernel.keys
      /\ k.raw = s.kernel.raw
  BY <1>4, <1>5 DEF Seat, Kernel
<1>7. t = [s EXCEPT !.kernel = k]
  BY <1>2, <1>5
<1>8. /\ t \in Seat /\ t.kernel = k /\ t.terminal = s.terminal /\ t.card = s.card
      /\ t.renderer = s.renderer /\ t.fault = s.fault /\ t.missed = s.missed
  BY <1>4, <1>6, <1>7 DEF Seat
<1>9. Ordered(t)
  BY <1>4, <1>6, <1>8 DEF Ordered
<1>10. Wired(t)
  BY <1>4, <1>8 DEF Wired
<1>11. Explained(t) /\ Hears(t)
  <2>1. Explained(t)
    BY <1>4, <1>6, <1>8, ExplainedStays
  <2>2. Hears(t)
    BY <1>4, <1>8 DEF Hears
  <2> QED
    BY <2>1, <2>2
<1>12. HandedOver'
  BY <1>1, <1>2, <1>4, <1>8, HandedOverStays
<1> QED
  BY <1>1, <1>2, <1>3, <1>4, <1>8, <1>9, <1>10, <1>11, <1>12, StepKeeps

LEMMA PlugScreenKeeps ==
  ASSUME IInv, NEW h \in Controller, PlugScreen(h)
  PROVE  IInv' /\ OnlyOnOurVt
<1>1. PICK s, t : s = seat /\ t = seat'
  OBVIOUS
<1>2. /\ strayed' = strayed /\ shown' = shown
      /\ phase' = phase /\ retain' = retain
      /\ Alive /\ s.renderer.opened
      /\ t = IF h \in s.renderer.heads THEN RemoveHead(s, h) ELSE AddHead(s, h)
  BY <1>1 DEF PlugScreen, Daemon, Become, Watching
<1>3. Typed'
  <2>1. Count("plugs") /\ "plugs" \in DOMAIN Bound
    BY DEF PlugScreen, Bound
  <2>2. Counted'
    BY <2>1, CountIs
  <2> QED
    BY <1>2, <2>2, TypedIs DEF Typed
<1>4. /\ s \in Seat /\ Ordered(s) /\ Wired(s) /\ HandedOver
      /\ Hears(s)
  BY <1>1, TypedIs DEF IInv
<1>5. /\ Works(s, t) /\ SameInput(s, t) /\ t.card.scan \subseteq s.card.scan
      /\ t.renderer.opened = s.renderer.opened
      /\ t.renderer.mapped = s.renderer.mapped
      /\ t.renderer.scans = s.renderer.scans
  BY <1>2, <1>4, AddHeadWorks, RemoveHeadWorks, ZenonT(60)
<1>6. t.terminal.open = s.terminal.open /\ t.renderer.source = s.renderer.source
  BY <1>5 DEF Works, SameTerminal, SameInput
<1>7. Hears(t)
  BY <1>4, <1>5 DEF Hears, SameInput, Works, SameTerminal
<1>8. phase' # "active" => ~t.renderer.source
  BY <1>1, <1>2, <1>4, <1>6 DEF HandedOver
<1>9. ~t.terminal.open /\ shown' /\ ~strayed =>
          ~t.renderer.scans /\ (t.renderer.opened => t.renderer.mapped)
  BY <1>1, <1>2, <1>4, <1>5, <1>6 DEF HandedOver
<1> QED
  BY <1>1, <1>2, <1>3, <1>5, <1>7, <1>8, <1>9, WorkKeeps

(* A step of the input source that leaves it open or closed                 *)
LEMMA ListeningKeeps ==
  ASSUME IInv, Alive, NEW s, NEW t, s = seat, t = seat', Listens(s, t), Typed',
         t.renderer.source = s.renderer.source, Hears(s) => Hears(t),
         strayed' = strayed, shown' = shown, phase' = phase
  PROVE  IInv' /\ OnlyOnOurVt
<1>1. /\ s \in Seat /\ Ordered(s) /\ Wired(s) /\ HandedOver
      /\ Hears(s)
  BY TypedIs DEF IInv
<1>2. Works(s, t)
  BY <1>1, ListeningWorks
<1>3. SameScreen(s, t) /\ SameTerminal(s, t) /\ t.card = s.card
  BY DEF Listens
<1>4. Hears(t)
  BY <1>1
<1>5. phase' # "active" => ~t.renderer.source
  BY <1>1 DEF HandedOver
<1>6. ~t.terminal.open /\ shown' /\ ~strayed =>
          ~t.renderer.scans /\ (t.renderer.opened => t.renderer.mapped)
  BY <1>1, <1>3 DEF HandedOver, SameScreen, SameTerminal
<1> QED
  BY <1>2, <1>3, <1>4, <1>5, <1>6, WorkKeeps

LEMMA PlugKeyboardKeeps ==
  ASSUME IInv, NEW i \in Input, PlugKeyboard(i)
  PROVE  IInv' /\ OnlyOnOurVt
<1>1. PICK s, t : s = seat /\ t = seat'
  OBVIOUS
<1>2. /\ strayed' = strayed /\ shown' = shown
      /\ phase' = phase /\ retain' = retain
      /\ Alive /\ t = AddInputDevice(s, i)
  BY <1>1 DEF PlugKeyboard, Daemon, Become, Watching
<1>3. Typed'
  <2>1. Count("plugs") /\ "plugs" \in DOMAIN Bound
    BY DEF PlugKeyboard, Bound
  <2>2. Counted'
    BY <2>1, CountIs
  <2> QED
    BY <1>2, <2>2, TypedIs DEF Typed
<1>4. s \in Seat
  BY <1>1, TypedIs
<1>5. /\ Listens(s, t)
      /\ t.renderer.source = s.renderer.source /\ t.renderer.watch = s.renderer.watch
      /\ "listen" \in s.missed => "listen" \in t.missed
  BY <1>2, <1>4, AddInputDeviceListens
<1>6. Hears(s) => Hears(t)
  BY <1>5 DEF Listens, SameTerminal, Hears
<1> QED
  BY <1>1, <1>2, <1>3, <1>5, <1>6, ListeningKeeps

LEMMA UnplugKeyboardKeeps ==
  ASSUME IInv, NEW i \in Input, UnplugKeyboard(i)
  PROVE  IInv' /\ OnlyOnOurVt
<1>1. PICK s, t : s = seat /\ t = seat'
  OBVIOUS
<1>2. /\ strayed' = strayed /\ shown' = shown
      /\ phase' = phase /\ retain' = retain /\ count' = count
      /\ Alive /\ t = RemoveInputDevice(s, i)
  BY <1>1 DEF UnplugKeyboard, Daemon, Become
<1>3. Typed'
  BY <1>2, TypedIs DEF Typed, Counted, Bound
<1>4. s \in Seat
  BY <1>1, TypedIs
<1>5. /\ Listens(s, t)
      /\ t.renderer.source = s.renderer.source /\ t.renderer.watch = s.renderer.watch
      /\ "listen" \in s.missed => "listen" \in t.missed
  BY <1>2, <1>4, RemoveInputDeviceListens
<1>6. Hears(s) => Hears(t)
  BY <1>5 DEF Listens, SameTerminal, Hears
<1> QED
  BY <1>1, <1>2, <1>3, <1>5, <1>6, ListeningKeeps

LEMMA UnplugCardKeeps ==
  ASSUME IInv, UnplugCard
  PROVE  IInv' /\ OnlyOnOurVt
<1>1. PICK s, t : s = seat /\ t = seat'
  OBVIOUS
<1>2. PICK u, v : u = CloseInputSource(s) /\ v = RendererDeactivate(u)
  OBVIOUS
<1>3. /\ strayed' = strayed /\ shown' = shown
      /\ phase' = phase /\ retain' = retain
      /\ Alive /\ t = RendererClose(v)
  BY <1>1, <1>2 DEF UnplugCard, Daemon, Become, Watching
<1>4. Typed'
  <2>1. Count("plugs") /\ "plugs" \in DOMAIN Bound
    BY DEF UnplugCard, Bound
  <2>2. Counted'
    BY <2>1, CountIs
  <2> QED
    BY <1>3, <2>2, TypedIs DEF Typed
<1>5. s \in Seat /\ Ordered(s) /\ Wired(s)
  BY <1>1, TypedIs DEF IInv
<1>6. Works(s, u) /\ ~u.renderer.source
  BY <1>2, <1>5, CloseInputSourceWorks
<1>7. Works(u, v) /\ SameInput(u, v)
  BY <1>2, <1>6, RendererDeactivateWorks DEF Works
<1>8. /\ Works(v, t) /\ SameInput(v, t) /\ t.card.scan = {}
      /\ ~t.renderer.opened /\ ~t.renderer.scans
  BY <1>3, <1>7, RendererCloseWorks DEF Works
<1>9. Works(s, t)
  <2>1. u \in Seat /\ v \in Seat
    BY <1>6, <1>7 DEF Works
  <2> QED
    BY <1>5, <1>6, <1>7, <1>8, <2>1, WorkIsTransitive
<1>10. ~t.renderer.source
  BY <1>6, <1>7, <1>8 DEF SameInput
<1> QED
  BY <1>1, <1>3, <1>4, <1>8, <1>9, <1>10, WorkKeeps DEF Hears

-----------------------------------------------------------------------------
(* The handlers of the event loop                                           *)

(* What on_active_vt_changed does after the terminal was told.              *)
LEMMA VtSignalKeeps ==
  ASSUME IInv, Alive, NEW s, NEW u \in Seat, NEW t, s = seat, t = seat',
         t = OnActiveVtChanged(u), Typed',
         strayed' = strayed, shown' = shown, phase' = phase,
         s.terminal.open, s.terminal.watching,
         u.terminal.fd = s.terminal.fd, u.terminal.watch = s.terminal.watch,
         u.terminal.open = s.terminal.open,
         u.terminal.watching = s.terminal.watching,
         u.terminal.tries = s.terminal.tries, u.terminal.timers = s.terminal.timers,
         u.terminal.gaveUp = s.terminal.gaveUp,
         u.renderer = s.renderer, u.fault = s.fault, s.missed \subseteq u.missed,
         u.kernel.tty = s.kernel.tty, u.kernel.process = s.kernel.process,
         u.kernel.keys = s.kernel.keys, u.kernel.raw = s.kernel.raw,
         u.terminal.disabled = s.terminal.disabled,
         u.card.scan \subseteq s.card.scan,
         u.terminal.active => u.kernel.vt = "ours",
         Ordered(u)
  PROVE  IInv' /\ OnlyOnOurVt
<1>1. /\ s \in Seat /\ Ordered(s) /\ Wired(s) /\ HandedOver
      /\ Explained(s) /\ Hears(s)
      /\ s.terminal.tries < Retries
  BY TypedIs DEF IInv, Alive
<1>2. Wired(u)
  BY <1>1 DEF Wired
<1>3. Explained(u) /\ Hears(u)
  BY <1>1 DEF Explained, KeysFit, Hears
<1>4. Draws(u, t)
  BY OnActiveVtChangedDraws
<1>5. Wired(t)
  <2>1. CASE u.renderer.opened
    BY <1>2, <1>4, <2>1 DEF Draws
  <2>2. CASE ~u.renderer.opened
    BY <1>2, <2>2 DEF OnActiveVtChanged
  <2> QED
    BY <2>1, <2>2
<1>6. Works(u, t) /\ SameInput(u, t)
  BY <1>2, <1>4, <1>5, DrawingWorks DEF Draws
<1>7. /\ t.terminal.open /\ t.terminal.watching
      /\ t.terminal.tries < Retries
  BY <1>1, <1>6 DEF Works, SameTerminal
<1>8. Explained(t) /\ Hears(t)
  BY <1>3, <1>6 DEF Works, SameTerminal, SameInput, Hears
<1>9. HandedOver'
  <2>1. t.renderer.source = s.renderer.source
    BY <1>6 DEF SameInput
  <2> QED
    BY <1>1, <1>7, <2>1, HandedOverStays
<1>10. s.renderer.plugin = "drm" =>
           t.card.scan \subseteq s.card.scan \/ t.kernel.vt = "ours"
  BY <1>6 DEF Works
<1> QED
  BY <1>5, <1>6, <1>7, <1>8, <1>9, <1>10, StepKeeps DEF Works

(* The signal that is handled: it is there only while the daemon asks for   *)
(* VT switches, and a request to leave is the last one.                     *)
LEMMA SignalIs ==
  ASSUME NEW s \in Seat, Ordered(s), Wired(s), s.kernel.signals # <<>>,
         NEW u, u = [s EXCEPT !.kernel.signals = Tail(@)]
  PROVE  /\ u \in Seat /\ u.terminal = s.terminal /\ u.renderer = s.renderer
         /\ u.card = s.card /\ u.fault = s.fault /\ u.missed = s.missed
         /\ u.kernel.tty = s.kernel.tty /\ u.kernel.vt = s.kernel.vt
         /\ u.kernel.leaving = s.kernel.leaving /\ u.kernel.process = s.kernel.process
         /\ u.kernel.keys = s.kernel.keys /\ u.kernel.raw = s.kernel.raw
         /\ s.terminal.watching /\ s.terminal.open /\ s.kernel.process
         /\ s.kernel.vt = "ours"
         /\ Ordered(u)
         /\ Head(s.kernel.signals) = "leave" => u.kernel.signals = <<>>
<1>1. s.terminal.watching /\ s.terminal.open /\ s.kernel.process /\ s.kernel.vt = "ours"
  BY SeatIs DEF Ordered, Wired, Vt
<1>2. PICK q, r : q = s.kernel.signals /\ r = Tail(q)
  OBVIOUS
<1>3. q \in Seq({"leave", "enter"}) /\ q # <<>>
  BY <1>2 DEF Seat, Kernel
<1>4. r \in Seq({"leave", "enter"}) /\ Len(r) = Len(q) - 1 /\ Len(q) > 0
  BY <1>2, <1>3
<1>5. \A i \in 1 .. Len(r) : r[i] = q[i + 1] /\ i + 1 \in 1 .. Len(q)
  BY <1>2, <1>3, <1>4
<1>6. \A i \in 1 .. Len(q) : q[i] = "leave" => s.kernel.leaving /\ i = Len(q)
  BY <1>2 DEF Ordered
<1>7. \A i \in 1 .. Len(r) : r[i] = "leave" => s.kernel.leaving /\ i = Len(r)
  BY <1>4, <1>5, <1>6
<1>8. Head(q) = "leave" => r = <<>>
  <2>1. q[1] = Head(q) /\ 1 \in 1 .. Len(q)
    BY <1>3, <1>4
  <2>2. Head(q) = "leave" => Len(r) = 0
    BY <1>4, <1>6, <2>1
  <2> QED
    BY <1>4, <2>2
<1>9. PICK k : k = [s.kernel EXCEPT !.signals = r]
  OBVIOUS
<1>10. /\ k \in Kernel /\ k.signals = r
       /\ k.tty = s.kernel.tty /\ k.vt = s.kernel.vt
       /\ k.leaving = s.kernel.leaving /\ k.process = s.kernel.process
       /\ k.keys = s.kernel.keys /\ k.raw = s.kernel.raw
  BY <1>4, <1>9 DEF Seat, Kernel
<1>11. u = [s EXCEPT !.kernel = k]
  BY <1>2, <1>9
<1>12. /\ u \in Seat /\ u.kernel = k /\ u.terminal = s.terminal /\ u.card = s.card
       /\ u.renderer = s.renderer /\ u.fault = s.fault /\ u.missed = s.missed
  BY <1>10, <1>11 DEF Seat
<1>13. Ordered(u)
  BY <1>1, <1>7, <1>10, <1>12 DEF Ordered
<1> QED
  BY <1>1, <1>2, <1>8, <1>10, <1>12, <1>13

LEMMA OnEnterVtKeeps ==
  ASSUME IInv, OnEnterVt
  PROVE  IInv' /\ OnlyOnOurVt
<1>1. PICK s, t, u : s = seat /\ t = seat' /\ u = [s EXCEPT !.kernel.signals = Tail(@)]
  OBVIOUS
<1>2. PICK v : v = EnterVt(u)
  OBVIOUS
<1>3. /\ strayed' = strayed /\ shown' = shown
      /\ phase' = phase /\ retain' = retain /\ count' = count
      /\ Alive /\ s.kernel.signals # <<>>
      /\ t = OnActiveVtChanged(v)
  BY <1>1, <1>2 DEF OnEnterVt, OnVtSignal, Daemon, Become
<1>4. Typed'
  BY <1>3, TypedIs DEF Typed, Counted, Bound
<1>5. s \in Seat /\ Ordered(s) /\ Wired(s)
  BY <1>1, TypedIs DEF IInv
<1>6. /\ u \in Seat /\ u.terminal = s.terminal /\ u.renderer = s.renderer
      /\ u.card = s.card /\ u.fault = s.fault /\ u.missed = s.missed
      /\ u.kernel.tty = s.kernel.tty /\ u.kernel.vt = s.kernel.vt
      /\ u.kernel.leaving = s.kernel.leaving /\ u.kernel.process = s.kernel.process
      /\ u.kernel.keys = s.kernel.keys /\ u.kernel.raw = s.kernel.raw
      /\ s.terminal.watching /\ s.terminal.open /\ s.kernel.process
      /\ s.kernel.vt = "ours"
      /\ Ordered(u)
  BY <1>1, <1>3, <1>5, SignalIs, ZenonT(60)
<1>7. PICK e : e = [u.terminal EXCEPT !.active = TRUE]
  OBVIOUS
<1>8. /\ e \in TerminalObject /\ e.active
      /\ e.fd = u.terminal.fd /\ e.watch = u.terminal.watch
      /\ e.open = u.terminal.open /\ e.watching = u.terminal.watching
      /\ e.disabled = u.terminal.disabled /\ e.initial = u.terminal.initial
      /\ e.gaveUp = u.terminal.gaveUp
      /\ e.timers = u.terminal.timers /\ e.tries = u.terminal.tries
  BY <1>6, <1>7 DEF Seat, TerminalObject
<1>9. v = [u EXCEPT !.terminal = e]
  BY <1>2, <1>7 DEF EnterVt
<1>10. /\ v \in Seat /\ v.terminal = e /\ v.kernel = u.kernel /\ v.card = u.card
       /\ v.renderer = u.renderer /\ v.fault = u.fault /\ v.missed = u.missed
  BY <1>6, <1>8, <1>9 DEF Seat
<1>11. Ordered(v)
  BY <1>6, <1>8, <1>10, ZenonT(60) DEF Ordered
<1>12. /\ v.terminal.fd = s.terminal.fd /\ v.terminal.watch = s.terminal.watch
       /\ v.terminal.open = s.terminal.open
       /\ v.terminal.watching = s.terminal.watching
       /\ v.terminal.tries = s.terminal.tries /\ v.terminal.timers = s.terminal.timers
       /\ v.terminal.gaveUp = s.terminal.gaveUp
       /\ v.terminal.disabled = s.terminal.disabled
       /\ v.renderer = s.renderer /\ v.fault = s.fault
       /\ s.missed \subseteq v.missed
       /\ v.kernel.tty = s.kernel.tty /\ v.kernel.process = s.kernel.process
       /\ v.kernel.keys = s.kernel.keys /\ v.kernel.raw = s.kernel.raw
       /\ v.card.scan \subseteq s.card.scan
       /\ v.terminal.active => v.kernel.vt = "ours"
  BY <1>6, <1>8, <1>10
<1> QED
  BY <1>1, <1>3, <1>4, <1>6, <1>10, <1>11, <1>12, VtSignalKeeps

LEMMA OnLeaveVtKeeps ==
  ASSUME IInv, OnLeaveVt
  PROVE  IInv' /\ OnlyOnOurVt
<1>1. PICK s, t, u : s = seat /\ t = seat' /\ u = [s EXCEPT !.kernel.signals = Tail(@)]
  OBVIOUS
<1>2. PICK v : v = LeaveVt(u)
  OBVIOUS
<1>3. /\ strayed' = strayed /\ shown' = shown
      /\ phase' = phase /\ retain' = retain /\ count' = count
      /\ Alive /\ s.kernel.signals # <<>> /\ Head(s.kernel.signals) = "leave"
      /\ t = OnActiveVtChanged(v)
  BY <1>1, <1>2 DEF OnLeaveVt, OnVtSignal, Daemon, Become
<1>4. Typed'
  BY <1>3, TypedIs DEF Typed, Counted, Bound
<1>5. s \in Seat /\ Ordered(s) /\ Wired(s)
  BY <1>1, TypedIs DEF IInv
<1>6. /\ u \in Seat /\ u.terminal = s.terminal /\ u.renderer = s.renderer
      /\ u.card = s.card /\ u.fault = s.fault /\ u.missed = s.missed
      /\ u.kernel.tty = s.kernel.tty /\ u.kernel.vt = s.kernel.vt
      /\ u.kernel.leaving = s.kernel.leaving /\ u.kernel.process = s.kernel.process
      /\ u.kernel.keys = s.kernel.keys /\ u.kernel.raw = s.kernel.raw
      /\ s.terminal.watching /\ s.terminal.open /\ s.kernel.process
      /\ s.kernel.vt = "ours"
      /\ u.kernel.signals = <<>>
  <2>1. u = [s EXCEPT !.kernel.signals = Tail(@)] /\ s.kernel.signals # <<>>
    BY <1>1, <1>3
  <2>2. Head(s.kernel.signals) = "leave" => u.kernel.signals = <<>>
    BY <1>5, <2>1, SignalIs
  <2>3. /\ u \in Seat /\ u.terminal = s.terminal /\ u.renderer = s.renderer
        /\ u.card = s.card /\ u.fault = s.fault /\ u.missed = s.missed
        /\ u.kernel.tty = s.kernel.tty /\ u.kernel.vt = s.kernel.vt
        /\ u.kernel.leaving = s.kernel.leaving /\ u.kernel.process = s.kernel.process
        /\ u.kernel.keys = s.kernel.keys /\ u.kernel.raw = s.kernel.raw
        /\ s.terminal.watching /\ s.terminal.open /\ s.kernel.process
        /\ s.kernel.vt = "ours"
    BY <1>5, <2>1, SignalIs
  <2> QED
    BY <1>3, <2>2, <2>3
<1>7. PICK a : a = (u.terminal.fd /\ u.kernel.leaving)
  OBVIOUS
<1>8. PICK x : x = IF a THEN "other" ELSE u.kernel.vt
  OBVIOUS
<1>9. PICK c : c = IF a THEN {} ELSE u.card.scan
  OBVIOUS
<1>10. PICK l, m : /\ l = (u.kernel.leaving /\ ~a)
                   /\ m = IF l THEN u.missed \cup {"release"} ELSE u.missed
  OBVIOUS
<1>11. /\ a \in BOOLEAN /\ l \in BOOLEAN /\ x \in Vt
       /\ m \subseteq Missed /\ s.missed \subseteq m
       /\ (x = "other" => ~l) /\ c \in SUBSET Controller /\ c \subseteq s.card.scan
  BY <1>6, <1>7, <1>8, <1>9, <1>10 DEF Vt, Seat, Card, Kernel, Missed
<1>12. PICK k, e, d : /\ k = [u.kernel EXCEPT !.vt = x, !.leaving = l]
                      /\ e = [u.terminal EXCEPT !.active = FALSE]
                      /\ d = [u.card EXCEPT !.scan = c]
  OBVIOUS
<1>13. /\ k \in Kernel /\ k.vt = x /\ k.leaving = l
       /\ k.tty = u.kernel.tty /\ k.process = u.kernel.process
       /\ k.signals = u.kernel.signals
       /\ k.keys = u.kernel.keys /\ k.raw = u.kernel.raw
       /\ d \in Card /\ d.scan = c
  BY <1>6, <1>11, <1>12 DEF Seat, Kernel, Card
<1>14. /\ e \in TerminalObject /\ ~e.active
       /\ e.fd = u.terminal.fd /\ e.watch = u.terminal.watch
       /\ e.open = u.terminal.open /\ e.watching = u.terminal.watching
       /\ e.disabled = u.terminal.disabled /\ e.initial = u.terminal.initial
       /\ e.gaveUp = u.terminal.gaveUp
       /\ e.timers = u.terminal.timers /\ e.tries = u.terminal.tries
  BY <1>6, <1>12 DEF Seat, TerminalObject
<1>15. v = [u EXCEPT !.kernel = k, !.terminal = e, !.card = d, !.missed = m]
  <2>1. PICK w : w = IF ~u.kernel.leaving THEN u
                     ELSE IF ~u.terminal.fd THEN Miss(u, "release")
                     ELSE ShowVt([u EXCEPT !.kernel.leaving = FALSE], "other")
    OBVIOUS
  <2>2. v = [w EXCEPT !.terminal.active = FALSE]
    BY <1>2, <2>1 DEF LeaveVt
  <2>3. w = [u EXCEPT !.kernel = k, !.card = d, !.missed = m]
    <3>1. CASE a
      <4>1. PICK k1 : k1 = [u.kernel EXCEPT !.leaving = FALSE]
        OBVIOUS
      <4>2. PICK w1 : w1 = [u EXCEPT !.kernel = k1]
        OBVIOUS
      <4>3. w = ShowVt(w1, "other")
        BY <1>7, <2>1, <3>1, <4>1, <4>2
      <4>4. w1.kernel = k1 /\ w1.card = u.card
        BY <1>6, <4>2 DEF Seat
      <4>5. k = [k1 EXCEPT !.vt = "other"] /\ d = [u.card EXCEPT !.scan = {}] /\ m = u.missed
        BY <1>6, <1>8, <1>9, <1>10, <1>12, <3>1, <4>1 DEF Seat, Kernel, Card
      <4>6. w = [w1 EXCEPT !.kernel = k, !.card = d]
        BY <4>3, <4>4, <4>5 DEF ShowVt
      <4> QED
        BY <1>6, <4>2, <4>5, <4>6 DEF Seat
    <3>2. CASE ~a
      <4>1. k = u.kernel /\ d = u.card
        <5>1. x = u.kernel.vt /\ c = u.card.scan
          BY <1>8, <1>9, <3>2
        <5>2. l = u.kernel.leaving
          BY <1>6, <1>10, <3>2 DEF Seat, Kernel
        <5> QED
          BY <1>6, <1>12, <5>1, <5>2 DEF Seat, Kernel, Card
      <4>2. w = IF l THEN [u EXCEPT !.missed = @ \cup {"release"}] ELSE u
        BY <1>6, <1>7, <1>10, <2>1, <3>2 DEF Miss, Seat, TerminalObject
      <4> QED
        BY <1>6, <1>10, <4>1, <4>2 DEF Seat
    <3> QED
      BY <3>1, <3>2
  <2>4. w.terminal = u.terminal
    BY <1>6, <2>3 DEF Seat
  <2>5. v = [w EXCEPT !.terminal = e]
    BY <1>12, <2>2, <2>4
  <2> QED
    BY <1>6, <2>3, <2>5 DEF Seat
<1>16. /\ v \in Seat /\ v.kernel = k /\ v.terminal = e /\ v.card = d
       /\ v.renderer = u.renderer /\ v.fault = u.fault /\ v.missed = m
  BY <1>6, <1>11, <1>13, <1>14, <1>15 DEF Seat
<1>17. Ordered(v)
  <2>1. v.kernel.signals = <<>> /\ Len(v.kernel.signals) = 0
    BY <1>6, <1>13, <1>16
  <2> QED
    <3>1. /\ v.kernel.process /\ ~v.terminal.active
          /\ v.kernel.vt = "other" => ~v.kernel.leaving
      BY <1>6, <1>11, <1>13, <1>14, <1>16
    <3> QED
      BY <2>1, <3>1 DEF Ordered
<1>18. /\ v.terminal.fd = s.terminal.fd /\ v.terminal.watch = s.terminal.watch
       /\ v.terminal.open = s.terminal.open
       /\ v.terminal.watching = s.terminal.watching
       /\ v.terminal.tries = s.terminal.tries /\ v.terminal.timers = s.terminal.timers
       /\ v.terminal.gaveUp = s.terminal.gaveUp
       /\ v.terminal.disabled = s.terminal.disabled
       /\ v.renderer = s.renderer /\ v.fault = s.fault
       /\ s.missed \subseteq v.missed
       /\ v.kernel.tty = s.kernel.tty /\ v.kernel.process = s.kernel.process
       /\ v.kernel.keys = s.kernel.keys /\ v.kernel.raw = s.kernel.raw
       /\ v.card.scan \subseteq s.card.scan
       /\ v.terminal.active => v.kernel.vt = "ours"
  BY <1>6, <1>11, <1>13, <1>14, <1>16, ZenonT(60)
<1> QED
  BY <1>1, <1>3, <1>4, <1>6, <1>16, <1>17, <1>18, VtSignalKeeps, ZenonT(60)

LEMMA OnReopenTimeoutKeeps ==
  ASSUME IInv, OnReopenTimeout
  PROVE  IInv' /\ OnlyOnOurVt
<1>1. PICK s, t : s = seat /\ t = seat'
  OBVIOUS
<1>2. PICK n : n = s.terminal.timers - 1
  OBVIOUS
<1>3. PICK e : e = [s.terminal EXCEPT !.timers = n]
  OBVIOUS
<1>4. PICK u : u = [s EXCEPT !.terminal = e]
  OBVIOUS
<1>5. /\ strayed' = strayed /\ shown' = shown
      /\ phase' = phase /\ retain' = retain /\ count' = count
      /\ Alive /\ s.terminal.timers > 0
      /\ t = ReopenDevice(u)
  BY <1>1, <1>2, <1>3, <1>4 DEF OnReopenTimeout, Daemon, Become
<1>6. Typed'
  BY <1>5, TypedIs DEF Typed, Counted, Bound
<1>7. /\ s \in Seat /\ Ordered(s) /\ Wired(s) /\ HandedOver
      /\ s.terminal.open => s.terminal.watching
      /\ s.terminal.tries < Retries
      /\ Explained(s) /\ Hears(s)
  BY <1>1, <1>5, TypedIs DEF IInv, Alive
<1>8. n \in Nat
  <2>1. s.terminal.timers \in Nat
    BY <1>7, SeatIs
  <2> QED
    BY <1>2, <1>5, <2>1
<1>9. /\ e \in TerminalObject /\ e.fd = s.terminal.fd /\ e.watch = s.terminal.watch
      /\ e.open = s.terminal.open /\ e.active = s.terminal.active
      /\ e.watching = s.terminal.watching /\ e.tries = s.terminal.tries
      /\ e.disabled = s.terminal.disabled /\ e.timers = n
  BY <1>3, <1>7, <1>8 DEF Seat, TerminalObject
<1>10. /\ u \in Seat /\ u.kernel = s.kernel /\ u.terminal = e /\ u.card = s.card
       /\ u.renderer = s.renderer /\ u.fault = s.fault /\ u.missed = s.missed
  BY <1>4, <1>7, <1>9 DEF Seat
<1>11. /\ t \in Seat /\ SameVt(u, t) /\ t.card = u.card /\ t.renderer = u.renderer
       /\ t.terminal.open = u.terminal.open /\ t.terminal.active = u.terminal.active
       /\ t.terminal.watching = u.terminal.watching
       /\ t.terminal.fd <=> t.terminal.watch
       /\ ~t.terminal.fd => t.terminal.timers > 0 \/ t.terminal.gaveUp
       /\ t.fault = {} => t.terminal.tries < Retries
       /\ Opens(u, t)
       /\ t.terminal.fd => t.terminal.timers = u.terminal.timers
       /\ t.terminal.timers \in {u.terminal.timers, u.terminal.timers + 1}
  <2>1. (u.terminal.fd <=> u.terminal.watch) /\ u.terminal.tries < Retries
    BY <1>7, <1>9, <1>10 DEF Wired
  <2>2. /\ Opens(u, t)
        /\ ~t.terminal.fd => t.terminal.timers > 0 \/ t.terminal.gaveUp
        /\ t.terminal.fd => t.terminal.timers = u.terminal.timers
        /\ t.terminal.timers \in {u.terminal.timers, u.terminal.timers + 1}
        /\ t.fault = {} => t.terminal.tries < Retries
    BY <1>5, <1>10, <2>1, ReopenDeviceIs
  <2> QED
    BY <2>2 DEF Opens
<1>12. Wired(t)
  BY <1>7, <1>9, <1>10, <1>11 DEF Wired
<1>13. Ordered(t)
  BY <1>7, <1>9, <1>10, <1>11 DEF Ordered, SameVt
<1>14. Explained(t)
  <2>1. KeysFit(t) /\ (~t.terminal.fd => ~t.kernel.raw /\ ~s.terminal.fd)
    BY <1>7, <1>9, <1>10, <1>11 DEF Opens, Explained, KeysFit
  <2>2. /\ t.kernel.process => t.terminal.watching \/ "auto" \in t.missed
        /\ t.renderer.watch = "freed" => "listen" \in t.missed
    BY <1>7, <1>9, <1>10, <1>11 DEF Opens, Explained, SameVt
  <2>3. s.fault = {}
    BY <1>1, <1>5 DEF Alive
  <2>4. CASE "reopen" \in s.missed
    <3>1. "reopen" \in t.missed
      BY <1>10, <1>11, <2>4 DEF Opens
    <3>2. t.fault \subseteq {"open twice"}
      BY <1>10, <1>11, <2>3 DEF Opens
    <3> QED
      BY <2>1, <2>2, <3>1, <3>2 DEF Explained
  <2>5. CASE "reopen" \notin s.missed
    <3>1. s.terminal.open /\ ~s.terminal.fd /\ ~(s.terminal.timers > 1)
      BY <1>5, <1>7, <2>5 DEF Explained
    <3>2. n = 0
      <4>1. PICK m \in Nat : m = s.terminal.timers
        BY <1>7, SeatIs
      <4> QED
        BY <1>2, <1>5, <3>1, <4>1
    <3>3. t.terminal.open /\ t.fault = {}
      BY <1>9, <1>10, <1>11, <2>3, <3>1 DEF Opens
    <3>4. ~(t.terminal.timers > 1) /\ (t.terminal.timers > 0 => ~t.terminal.fd)
      BY <1>9, <1>10, <1>11, <3>2
    <3> QED
      BY <2>1, <2>2, <3>1, <3>3, <3>4 DEF Explained
  <2> QED
    BY <2>4, <2>5
<1>15. Hears(t)
  <2>1. s.terminal.fd => t.terminal.fd
    BY <1>9, <1>10, <1>11 DEF Opens
  <2> QED
    BY <1>7, <1>10, <1>11, <2>1 DEF Opens, Hears
<1>16. HandedOver'
  BY <1>1, <1>5, <1>7, <1>9, <1>10, <1>11, HandedOverStays
<1> QED
  BY <1>1, <1>5, <1>6, <1>7, <1>9, <1>10, <1>11, <1>12, <1>13, <1>14, <1>15, <1>16, StepKeeps

LEMMA OnNewFrameKeeps ==
  ASSUME IInv, NEW h \in Controller, OnNewFrame(h)
  PROVE  IInv' /\ OnlyOnOurVt
<1>1. PICK s, t : s = seat /\ t = seat'
  OBVIOUS
<1>2. PICK ds : ds = s.renderer.dirty \cup {h}
  OBVIOUS
<1>3. PICK o : o = [s.renderer EXCEPT !.dirty = ds]
  OBVIOUS
<1>4. PICK u : u = [s EXCEPT !.renderer = o]
  OBVIOUS
<1>5. /\ strayed' = strayed /\ shown' = shown
      /\ phase' = phase /\ retain' = retain /\ count' = count
      /\ Alive /\ h \in s.renderer.heads
      /\ t = Flush(u, {h})
  BY <1>1, <1>2, <1>3, <1>4 DEF OnNewFrame, Daemon, Become
<1>6. Typed'
  BY <1>5, TypedIs DEF Typed, Counted, Bound
<1>7. /\ s \in Seat /\ Ordered(s) /\ Wired(s) /\ HandedOver
      /\ Hears(s)
  BY <1>1, TypedIs DEF IInv
<1>8. ds \in SUBSET Controller
  BY <1>2, <1>7 DEF Seat, RendererObject
<1>9. /\ o \in RendererObject /\ o.plugin = s.renderer.plugin
      /\ o.opened = s.renderer.opened /\ o.heads = s.renderer.heads
      /\ o.mapped = s.renderer.mapped /\ o.scans = s.renderer.scans
      /\ o.source = s.renderer.source /\ o.watch = s.renderer.watch
      /\ o.devices = s.renderer.devices /\ o.watched = s.renderer.watched
  BY <1>3, <1>7, <1>8 DEF Seat, RendererObject
<1>10. /\ u \in Seat /\ u.renderer = o /\ u.card = s.card /\ u.terminal = s.terminal
       /\ u.kernel = s.kernel /\ u.fault = s.fault /\ u.missed = s.missed
  BY <1>4, <1>7, <1>9 DEF Seat
<1>11. Draws(s, u)
  BY <1>7, <1>9, <1>10, RedrawDraws DEF SameInput
<1>12. s.renderer.opened /\ u.renderer.opened /\ Ordered(u)
  BY <1>5, <1>7, <1>9, <1>10, <1>11 DEF Wired, Draws
<1>13. Draws(u, t) /\ (u.renderer.mapped /\ ~u.renderer.scans => t = u)
  BY <1>5, <1>10, <1>12, FlushDraws
<1>14. Works(s, t) /\ SameInput(s, t)
  <2>1. Draws(s, t)
    BY <1>7, <1>11, <1>13, DrawingIsTransitive
  <2>2. Wired(t)
    BY <1>7, <1>12, <2>1 DEF Draws
  <2> QED
    BY <1>7, <2>1, <2>2, DrawingWorks DEF Draws
<1>15. t.terminal.open = s.terminal.open /\ t.renderer.source = s.renderer.source
  BY <1>14 DEF Works, SameTerminal, SameInput
<1>16. Hears(t)
  BY <1>7, <1>14 DEF Hears, SameInput, Works, SameTerminal
<1>17. ASSUME ~s.terminal.open, ~strayed
       PROVE  /\ ~t.renderer.scans /\ (t.renderer.opened => t.renderer.mapped)
              /\ t.card.scan \subseteq s.card.scan
  <2>1. shown
    BY DEF OnNewFrame
  <2>2. ~s.renderer.scans /\ s.renderer.mapped
    BY <1>1, <1>7, <1>12, <1>17, <2>1 DEF HandedOver
  <2>3. t = u
    BY <1>9, <1>10, <1>13, <2>2
  <2> QED
    BY <1>9, <1>10, <2>2, <2>3
<1>18. phase' # "active" => ~t.renderer.source
  BY <1>1, <1>5, <1>7, <1>15 DEF HandedOver
<1> QED
  BY <1>1, <1>5, <1>6, <1>14, <1>15, <1>16, <1>17, <1>18, WorkKeeps

-----------------------------------------------------------------------------
(* The daemon                                                               *)

LEMMA ShowSplashKeeps ==
  ASSUME IInv, ShowSplash
  PROVE  IInv' /\ OnlyOnOurVt
<1>1. PICK s, t : s = seat /\ t = seat'
  OBVIOUS
<1>2. PICK u : u = RendererActivate(s)
  OBVIOUS
<1>3. /\ strayed' = strayed /\ shown' = TRUE
      /\ phase' = phase /\ retain' = retain
      /\ Alive /\ phase = "active"
      /\ t = ActivateKeyboards(u)
  BY <1>1, <1>2 DEF ShowSplash, Become
<1>4. Typed'
  <2>1. Count("commands") /\ "commands" \in DOMAIN Bound
    BY DEF ShowSplash, Bound
  <2>2. Counted'
    BY <2>1, CountIs
  <2> QED
    BY <1>3, <2>2, TypedIs DEF Typed
<1>5. /\ s \in Seat /\ Ordered(s) /\ Wired(s) /\ HandedOver
      /\ Explained(s) /\ Hears(s)
  BY <1>1, TypedIs DEF IInv
<1>6. Works(s, u) /\ SameInput(s, u)
  BY <1>2, <1>5, RendererActivateWorks
<1>7. u \in Seat /\ Ordered(u) /\ Wired(u)
  BY <1>6 DEF Works
<1>8. Works(u, t) /\ (Hears(u) => Hears(t))
  BY <1>3, <1>7, ActivateKeyboardsWorks
<1>9. Works(s, t)
  BY <1>5, <1>6, <1>8, WorkIsTransitive
<1>10. Hears(t)
  BY <1>5, <1>6, <1>8 DEF Hears, SameInput, Works, SameTerminal
<1>11. ~strayed => s.terminal.open /\ t.terminal.open
  BY <1>1, <1>3, <1>5, <1>9 DEF HandedOver, Works, SameTerminal
<1> QED
  BY <1>1, <1>3, <1>4, <1>9, <1>10, <1>11, WorkKeeps

(* The screen of a splash that was handed over is not drawn on again.       *)
LEMMA HandedOverIsDrawn ==
  ASSUME IInv, ~seat.terminal.open, ~strayed
  PROVE  (seat.renderer.opened => seat.renderer.mapped) \/ ~shown
BY DEF IInv, HandedOver

LEMMA HandleHideSplashKeeps ==
  ASSUME IInv, HandleHideSplash
  PROVE  IInv' /\ OnlyOnOurVt
<1>1. PICK s, t : s = seat /\ t = seat'
  OBVIOUS
<1>2. /\ strayed' = strayed /\ shown' = FALSE
      /\ phase' = phase /\ retain' = TRUE
      /\ Alive /\ t = DumpDetails(s)
  BY <1>1 DEF HandleHideSplash, Become
<1>3. Typed'
  <2>1. Count("commands") /\ "commands" \in DOMAIN Bound
    BY DEF HandleHideSplash, Bound
  <2>2. Counted'
    BY <2>1, CountIs
  <2> QED
    BY <1>2, <2>2, TypedIs DEF Typed
<1>4. s \in Seat /\ Ordered(s) /\ Wired(s)
  BY <1>1, TypedIs DEF IInv
<1>5. /\ Works(s, t) /\ ~t.renderer.source
      /\ (s.renderer.opened => s.renderer.mapped) \/ ~shown => t.card.scan = s.card.scan
  BY <1>2, <1>4, DumpDetailsWorks
<1>6. ~s.terminal.open /\ ~strayed => t.card.scan \subseteq s.card.scan
  BY <1>1, <1>5, HandedOverIsDrawn
<1> QED
  BY <1>1, <1>2, <1>3, <1>5, <1>6, WorkKeeps DEF Hears

LEMMA NothingWorks ==
  ASSUME NEW s \in Seat, Ordered(s), Wired(s)
  PROVE  Works(s, s)
BY NothingDraws, DrawingWorks

(* A splash that was drawn and is handed over draws no more.                *)
LEMMA DeactivateSplashEnds ==
  ASSUME NEW s \in Seat, NEW t, t = DeactivateSplash(s), Ordered(s), Wired(s),
         ~s.renderer.source
  PROVE  \E u : /\ Works(s, u) /\ Ends(u, t) /\ u.card.scan = s.card.scan
                /\ shown => /\ ~t.renderer.scans
                            /\ t.renderer.opened = s.renderer.opened
                            /\ t.renderer.mapped = s.renderer.mapped
<1>1. PICK u : u = IF shown THEN RendererDeactivate(s) ELSE s
  OBVIOUS
<1>2. t = DeactivateConsole(u)
  BY <1>1 DEF DeactivateSplash
<1>3. /\ Works(s, u) /\ u.card.scan = s.card.scan /\ ~u.renderer.source
      /\ shown => /\ ~u.renderer.scans
                  /\ u.renderer.opened = s.renderer.opened
                  /\ u.renderer.mapped = s.renderer.mapped
  <2>1. CASE shown
    <3>1. u = RendererDeactivate(s)
      BY <1>1, <2>1
    <3> QED
      BY <3>1, RendererDeactivateWorks DEF SameInput
  <2>2. CASE ~shown
    BY <1>1, <2>2, NothingWorks
  <2> QED
    BY <2>1, <2>2
<1>4. Ends(u, t) /\ t.renderer = u.renderer
  BY <1>2, <1>3, DeactivateConsoleEnds DEF Works
<1> QED
  BY <1>3, <1>4

LEMMA HandleDeactivateKeeps ==
  ASSUME IInv, HandleDeactivate
  PROVE  IInv' /\ OnlyOnOurVt
<1>1. PICK s, t : s = seat /\ t = seat'
  OBVIOUS
<1>2. PICK u : u = CloseInputSource(s)
  OBVIOUS
<1>3. /\ strayed' = strayed /\ shown' = shown
      /\ retain' = retain
      /\ Alive /\ phase = "active"
      /\ phase' = IF shown THEN "deactivating" ELSE "inactive"
      /\ t = IF shown THEN u ELSE DeactivateSplash(u)
  BY <1>1, <1>2 DEF HandleDeactivate, Become
<1>4. Typed'
  <2>1. Count("commands") /\ "commands" \in DOMAIN Bound
    BY DEF HandleDeactivate, Bound
  <2>2. Counted'
    BY <2>1, CountIs
  <2> QED
    BY <1>3, <2>2, TypedIs DEF Typed
<1>5. s \in Seat /\ Ordered(s) /\ Wired(s) /\ HandedOver
  BY <1>1, TypedIs DEF IInv
<1>6. Works(s, u) /\ ~u.renderer.source /\ u.card = s.card
  BY <1>2, <1>5, CloseInputSourceWorks
<1>7. ~strayed => s.terminal.open
  BY <1>1, <1>3, <1>5 DEF HandedOver
<1>8. CASE shown
  <2>1. t = u /\ phase' = "deactivating"
    BY <1>3, <1>8
  <2>2. ~strayed => t.terminal.open
    BY <1>6, <1>7, <2>1 DEF Works, SameTerminal
  <2> QED
    BY <1>1, <1>3, <1>4, <1>6, <1>7, <2>1, <2>2, WorkKeeps DEF Hears
<1>9. CASE ~shown
  <2>1. u \in Seat /\ Ordered(u) /\ Wired(u)
    BY <1>6 DEF Works
  <2>2. PICK v : Works(u, v) /\ Ends(v, t)
    BY <1>3, <1>6, <1>9, <2>1, DeactivateSplashEnds
  <2>3. Works(s, v)
    BY <1>5, <1>6, <2>2, WorkIsTransitive
  <2> QED
    BY <1>1, <1>3, <1>4, <1>7, <1>9, <2>2, <2>3, EndKeeps
<1> QED
  BY <1>8, <1>9

(* Where a terminal does not open, the daemon goes on without it.           *)
LEMMA HandleReactivateKeeps ==
  ASSUME IInv, HandleReactivate
  PROVE  IInv' /\ OnlyOnOurVt
<1>1. PICK s, t : s = seat /\ t = seat'
  OBVIOUS
<1>2. PICK u : u = Open(s)
  OBVIOUS
<1>3. PICK v : v = WatchForVtChanges(u)
  OBVIOUS
<1>4. PICK w : w = SetUnbufferedInput(v)
  OBVIOUS
<1>5. PICK x : x = ActivateKeyboards(w)
  OBVIOUS
<1>6. t = IF u.fault # {} THEN u
          ELSE IF shown THEN RendererActivate(x) ELSE x
  BY <1>1, <1>2, <1>3, <1>4, <1>5 DEF HandleReactivate, Become, Then
<1>7. /\ shown' = shown /\ retain' = retain
      /\ count' = count /\ phase' = "active" /\ phase = "inactive"
      /\ Alive
      /\ strayed' \in BOOLEAN
      /\ ~strayed' => t.terminal.open
  BY <1>1 DEF HandleReactivate
<1>8. Typed'
  BY <1>7, TypedIs DEF Typed, Counted, Bound
<1>9. /\ s \in Seat /\ Ordered(s) /\ Wired(s)
      /\ ~s.terminal.open /\ ~s.renderer.source /\ s.fault = {}
      /\ s.terminal.tries < Retries
      /\ Explained(s)
  BY <1>1, <1>7, TypedIs DEF IInv, HandedOver, Alive
<1>10. /\ u \in Seat /\ u.card = s.card /\ u.renderer = s.renderer
       /\ u.kernel.vt = s.kernel.vt /\ u.kernel.tty = s.kernel.tty
       /\ Wired(u) /\ Ordered(u)
       /\ u.terminal.open => u.terminal.watching
       /\ u.terminal.tries < Retries
       /\ ~u.terminal.open /\ u.fault = {} => ~u.terminal.fd
       /\ Explained(u)
  BY <1>2, <1>9, OpenIs
<1>11. CASE u.fault # {}
  <2>1. t = u
    BY <1>6, <1>11
  <2>2. Explained(t) /\ Hears(t) /\ ~t.renderer.source
    BY <1>9, <1>10, <2>1 DEF Hears
  <2>3. HandedOver'
    BY <1>1, <1>7, <2>2 DEF HandedOver
  <2>4. /\ t \in Seat /\ Wired(t) /\ Ordered(t)
        /\ t.terminal.open => t.terminal.watching
        /\ t.fault = {} => t.terminal.tries < Retries
        /\ t.card.scan \subseteq s.card.scan
    BY <1>10, <2>1
  <2> QED
    BY <1>1, <1>8, <2>2, <2>3, <2>4, StepKeeps
<1>12. CASE u.fault = {}
  <2>1. v = u
    <3>1. ~u.terminal.fd \/ u.terminal.watching
      BY <1>10, <1>12
    <3> QED
      BY <1>3, <1>10, <3>1, WatchForVtChangesIs
  <2>2. Works(u, w) /\ w.renderer = u.renderer
    <3>1. ModeSet(u, w)
      BY <1>4, <1>10, <2>1, SetUnbufferedInputIs
    <3> QED
      BY <1>10, <3>1, ModeWorks DEF ModeSet
  <2>3. w \in Seat /\ Ordered(w) /\ Wired(w)
    BY <2>2 DEF Works
  <2>4. Works(w, x) /\ (Hears(w) => Hears(x))
    BY <1>5, <2>3, ActivateKeyboardsWorks
  <2>5. x \in Seat /\ Ordered(x) /\ Wired(x)
    BY <2>4 DEF Works
  <2>6. Works(x, t) /\ SameInput(x, t)
    <3>1. CASE shown
      BY <1>6, <1>12, <2>5, <3>1, RendererActivateWorks
    <3>2. CASE ~shown
      BY <1>6, <1>12, <2>5, <3>2, NothingWorks DEF SameInput
    <3> QED
      BY <3>1, <3>2
  <2>7. Works(u, t)
    BY <1>10, <2>2, <2>3, <2>4, <2>5, <2>6, WorkIsTransitive
  <2>8. /\ t.terminal.open = u.terminal.open /\ t.terminal.tries = u.terminal.tries
        /\ t.terminal.watching = u.terminal.watching
    BY <2>7 DEF Works, SameTerminal
  <2>9. Explained(t) /\ Hears(t)
    <3>1. Hears(x)
      BY <1>9, <1>10, <2>2, <2>4 DEF Hears
    <3>2. Hears(t)
      BY <2>6, <3>1 DEF Hears, SameInput, Works, SameTerminal
    <3> QED
      BY <1>10, <2>7, <3>2 DEF Works
  <2>10. HandedOver'
    BY <1>1, <1>7, <2>9 DEF HandedOver
  <2>11. s.renderer.plugin = "drm" /\ ~strayed' =>
             t.card.scan \subseteq s.card.scan \/ t.kernel.vt = "ours"
    <3>1. SUFFICES ASSUME s.renderer.plugin = "drm", ~strayed'
                   PROVE  t.card.scan \subseteq s.card.scan \/ t.kernel.vt = "ours"
      OBVIOUS
    <3>2. u.terminal.open /\ u.terminal.watching
      BY <1>7, <1>10, <2>8, <3>1
    <3>3. u.terminal.active => u.kernel.vt = "ours"
      BY <1>10, <3>2, OpenKnowsVt
    <3> QED
      BY <1>10, <2>7, <3>1, <3>3 DEF Works
  <2>12. t \in Seat /\ Wired(t) /\ Ordered(t)
    BY <2>7 DEF Works
  <2>13. /\ t.terminal.open => t.terminal.watching
         /\ t.terminal.tries < Retries
    BY <1>10, <1>12, <2>8
  <2> QED
    BY <1>1, <1>8, <2>9, <2>10, <2>11, <2>12, <2>13, StepKeeps
<1> QED
  BY <1>11, <1>12

LEMMA HandleQuitKeeps ==
  ASSUME IInv, NEW keep \in BOOLEAN, HandleQuit(keep)
  PROVE  IInv' /\ OnlyOnOurVt
<1>1. PICK s, t : s = seat /\ t = seat'
  OBVIOUS
<1>2. PICK u : u = CloseInputSource(s)
  OBVIOUS
<1>3. PICK dump : dump = (phase = "inactive" /\ ~keep)
  OBVIOUS
<1>4. /\ strayed' = strayed /\ retain' = keep
      /\ Alive
      /\ t = IF dump THEN QuitProgram(ReleaseConsole(DumpDetails(u)))
             ELSE IF shown THEN u ELSE Quit(u, keep)
      /\ phase' = IF shown /\ ~dump THEN "quitting" ELSE "quit"
      /\ shown' = (shown /\ ~dump)
  BY <1>1, <1>2, <1>3 DEF HandleQuit, Become
<1>5. Typed'
  <2>1. Count("commands") /\ "commands" \in DOMAIN Bound
    BY DEF HandleQuit, Bound
  <2>2. Counted'
    BY <2>1, CountIs
  <2>3. shown' \in BOOLEAN
    BY <1>4
  <2> QED
    BY <1>4, <2>2, <2>3, TypedIs DEF Typed
<1>6. s \in Seat /\ Ordered(s) /\ Wired(s) /\ HandedOver
  BY <1>1, TypedIs DEF IInv
<1>7. /\ Works(s, u) /\ ~u.renderer.source /\ u.card = s.card /\ SameScreen(s, u)
  BY <1>2, <1>6, CloseInputSourceWorks
<1>8. u \in Seat /\ Ordered(u) /\ Wired(u)
  BY <1>7 DEF Works
<1>9. ~s.terminal.open /\ ~strayed => (u.renderer.opened => u.renderer.mapped) \/ ~shown
  BY <1>1, <1>7, HandedOverIsDrawn DEF SameScreen
<1>10. CASE dump
  <2>1. PICK v, w : v = DumpDetails(u) /\ w = ReleaseConsole(v)
    OBVIOUS
  <2>2. /\ Works(u, v) /\ ~v.renderer.source
        /\ (u.renderer.opened => u.renderer.mapped) \/ ~shown =>
               v.card.scan = u.card.scan
    BY <1>8, <2>1, DumpDetailsWorks
  <2>3. v \in Seat /\ Ordered(v) /\ Wired(v)
    BY <2>2 DEF Works
  <2>4. Ends(v, w)
    BY <2>1, <2>2, <2>3, ReleaseConsoleEnds
  <2>5. Ends(w, t)
    BY <1>4, <1>10, <2>1, <2>4, QuitProgramEnds DEF Ends
  <2>6. Ends(v, t)
    BY <2>3, <2>4, <2>5, EndIsTransitive
  <2>7. Works(s, v)
    BY <1>6, <1>7, <2>2, WorkIsTransitive
  <2>8. ~s.terminal.open /\ ~strayed' => v.card.scan \subseteq s.card.scan
    BY <1>4, <1>7, <1>9, <2>2
  <2> QED
    BY <1>1, <1>4, <1>5, <1>10, <2>6, <2>7, <2>8, EndKeeps
<1>11. CASE ~dump /\ shown
  <2>1. t = u /\ phase' = "quitting" /\ shown'
    BY <1>4, <1>11
  <2>2. t.terminal.open = s.terminal.open
    BY <1>7, <2>1 DEF Works, SameTerminal
  <2>3. ~t.terminal.open /\ ~strayed =>
            ~t.renderer.scans /\ (t.renderer.opened => t.renderer.mapped)
    BY <1>1, <1>6, <1>7, <1>11, <2>1, <2>2 DEF HandedOver, SameScreen
  <2> QED
    BY <1>1, <1>4, <1>5, <1>7, <2>1, <2>3, WorkKeeps DEF Hears
<1>12. CASE ~dump /\ ~shown
  <2>1. t = Quit(u, keep) /\ phase' = "quit" /\ ~shown'
    BY <1>4, <1>12
  <2>2. PICK v : /\ Works(u, v) /\ Ends(v, t)
                 /\ (u.renderer.opened => u.renderer.mapped) \/ ~shown =>
                        v.card.scan = u.card.scan
    BY <1>8, <2>1, QuitEnds
  <2>3. Works(s, v)
    BY <1>6, <1>7, <2>2, WorkIsTransitive
  <2>4. v.card.scan \subseteq s.card.scan
    BY <1>7, <1>12, <2>2
  <2> QED
    BY <1>1, <1>4, <1>5, <2>1, <2>2, <2>3, <2>4, EndKeeps
<1> QED
  BY <1>10, <1>11, <1>12

LEMMA OnBootSplashIdleKeeps ==
  ASSUME IInv, OnBootSplashIdle
  PROVE  IInv' /\ OnlyOnOurVt
<1>1. PICK s, t : s = seat /\ t = seat'
  OBVIOUS
<1>2. /\ retain' = retain /\ count' = count
      /\ Alive /\ shown /\ phase \in {"deactivating", "quitting"}
      /\ t = IF phase = "quitting" THEN Quit(s, retain) ELSE DeactivateSplash(s)
      /\ phase' = IF phase = "quitting" THEN "quit" ELSE "inactive"
      /\ shown' = (phase = "deactivating")
      /\ strayed' = (strayed \/ (phase = "deactivating" /\ NoFrameYet(s)))
  BY <1>1 DEF OnBootSplashIdle, Become
<1>3. Typed'
  <2>1. shown' \in BOOLEAN /\ strayed' \in BOOLEAN
    BY <1>2
  <2>2. phase' \in {"quit", "inactive"}
    BY <1>2
  <2> QED
    BY <1>2, <2>1, <2>2, TypedIs DEF Typed, Counted, Bound
<1>4. s \in Seat /\ Ordered(s) /\ Wired(s) /\ HandedOver /\ ~s.renderer.source
  BY <1>1, <1>2, TypedIs DEF IInv, HandedOver
<1>5. ~strayed' => ~strayed
  BY <1>2
<1>6. CASE phase = "quitting"
  <2>1. t = Quit(s, retain) /\ phase' = "quit" /\ ~shown' /\ retain \in BOOLEAN
    BY <1>2, <1>6, TypedIs DEF Typed
  <2>2. PICK u : /\ Works(s, u) /\ Ends(u, t)
                 /\ (s.renderer.opened => s.renderer.mapped) \/ ~shown =>
                        u.card.scan = s.card.scan
    <3>1. PICK r \in BOOLEAN : r = retain
      BY <2>1
    <3> QED
      BY <1>4, <2>1, <3>1, QuitEnds
  <2>3. ~s.terminal.open /\ ~strayed' => u.card.scan \subseteq s.card.scan
    BY <1>1, <1>5, <2>2, HandedOverIsDrawn
  <2> QED
    BY <1>1, <1>2, <1>3, <2>1, <2>2, <2>3, EndKeeps
<1>7. CASE phase = "deactivating"
  <2>1. t = DeactivateSplash(s) /\ phase' = "inactive"
    BY <1>2, <1>7
  <2>2. PICK u : /\ Works(s, u) /\ Ends(u, t) /\ u.card.scan = s.card.scan
                 /\ shown => /\ ~t.renderer.scans
                             /\ t.renderer.opened = s.renderer.opened
                             /\ t.renderer.mapped = s.renderer.mapped
    BY <1>4, <2>1, DeactivateSplashEnds
  <2>3. ~strayed' => (s.renderer.opened => s.renderer.mapped)
    BY <1>2, <1>7 DEF NoFrameYet
  <2>4. shown' /\ ~strayed' =>
            ~t.renderer.scans /\ (t.renderer.opened => t.renderer.mapped)
    BY <1>2, <2>2, <2>3
  <2> QED
    BY <1>1, <1>2, <1>3, <2>1, <2>2, <2>4, EndKeeps
<1> QED
  BY <1>2, <1>6, <1>7

-----------------------------------------------------------------------------
(* The theorems                                                             *)

LEMMA InitHolds ==
  Init => IInv
<1>1. SUFFICES ASSUME Init PROVE IInv
  OBVIOUS
<1>2. PICK s : s = seat
  OBVIOUS
<1>3. PICK plugin \in Plugin, initial \in Vt, full \in SUBSET Controller :
         s = [ kernel |-> [tty |-> "good", vt |-> initial, leaving |-> FALSE,
                           process |-> TRUE, signals |-> <<>>, keys |-> TRUE,
                           raw |-> TRUE, hasty |-> FALSE],
               terminal |-> [fd |-> TRUE, watch |-> TRUE, open |-> TRUE,
                             active |-> initial = "ours", watching |-> TRUE,
                             disabled |-> FALSE, initial |-> initial, tries |-> 0,
                             timers |-> 0, gaveUp |-> FALSE],
               card |-> [master |-> FALSE, scan |-> {}, full |-> full],
               renderer |-> [plugin |-> plugin, opened |-> TRUE, active |-> FALSE,
                             mapped |-> FALSE, scans |-> FALSE, heads |-> Lit,
                             buffers |-> {}, reset |-> {}, dirty |-> {},
                             source |-> FALSE, watch |-> "none", devices |-> {},
                             watched |-> {}],
               fault |-> {}, missed |-> {} ]
  BY <1>1, <1>2 DEF Init
<1>4. PICK a : a = (initial = "ours")
  OBVIOUS
<1>5. a \in BOOLEAN /\ (a <=> initial = "ours")
  BY <1>4
<1>6. s.kernel \in Kernel
  <2>1. <<>> \in Seq({"leave", "enter"})
    OBVIOUS
  <2> QED
    BY <1>3, <2>1 DEF Kernel
<1>7. s.terminal \in TerminalObject
  BY <1>3, <1>4, <1>5, TriesAre DEF TerminalObject
<1>8. s.card \in Card /\ s.renderer \in RendererObject
  BY <1>3, SeatAssumption DEF Card, RendererObject
<1>9. s \in Seat
  BY <1>3, <1>6, <1>7, <1>8 DEF Seat
<1>10. Wired(s)
  BY <1>3 DEF Wired
<1>11. Ordered(s)
  <2>1. s.kernel.signals = <<>> /\ Len(s.kernel.signals) = 0
    BY <1>3
  <2>2. /\ s.kernel.process /\ s.terminal.watching /\ ~s.kernel.leaving
        /\ s.kernel.vt = initial
    BY <1>3
  <2>3. s.terminal.active => s.kernel.vt # "other"
    BY <1>3, <1>4, <1>5
  <2> QED
    BY <2>1, <2>2, <2>3 DEF Ordered
<1>12. Explained(s) /\ Hears(s)
  BY <1>3 DEF Explained, KeysFit, Hears
<1>13. /\ s.terminal.open /\ s.terminal.watching /\ s.terminal.tries < Retries
       /\ ~s.renderer.source
  BY <1>3, TriesAre
<1>14. HandedOver
  BY <1>1, <1>2, <1>13 DEF Init, HandedOver
<1>15. /\ count \in [DOMAIN Bound -> Nat]
       /\ \A k \in DOMAIN Bound : count[k] \in 0 .. Bound[k]
  <2>1. PICK c : c = count
    OBVIOUS
  <2>2. c = [k \in DOMAIN Bound |-> 0]
    BY <1>1, <2>1 DEF Init
  <2>3. \A k \in DOMAIN Bound : Bound[k] \in Nat
    BY SeatAssumption DEF Bound
  <2>4. \A k \in DOMAIN Bound : c[k] \in 0 .. Bound[k]
    BY <2>2, <2>3
  <2> QED
    BY <2>1, <2>2, <2>4
<1>16. TypeOK
  BY <1>1, <1>2, <1>9, <1>15 DEF Init, TypeOK
<1> QED
  BY <1>2, <1>10, <1>11, <1>12, <1>13, <1>14, <1>15, <1>16 DEF IInv

LEMMA NextKeeps ==
  IInv /\ [Next]_vars => IInv' /\ (OnlyOnOurVt \/ UNCHANGED vars)
<1>1. SUFFICES ASSUME IInv, Next PROVE IInv' /\ OnlyOnOurVt
  <2>1. ASSUME IInv, UNCHANGED vars PROVE IInv'
    BY <2>1 DEF IInv, TypeOK, HandedOver, vars, Hears, Bound
  <2> QED
    BY <2>1
<1>2. ASSUME NEW vt \in Vt, SwitchVt(vt) PROVE IInv' /\ OnlyOnOurVt
  BY <1>1, <1>2, SwitchVtKeeps
<1>3. ASSUME NEW tty \in {"good", "eio", "gone"}, TtyHangsUp(tty)
      PROVE  IInv' /\ OnlyOnOurVt
  BY <1>1, <1>3, TtyHangsUpKeeps
<1>4. ASSUME NEW h \in Controller, PlugScreen(h) PROVE IInv' /\ OnlyOnOurVt
  BY <1>1, <1>4, PlugScreenKeeps
<1>5. ASSUME NEW i \in Input, PlugKeyboard(i) PROVE IInv' /\ OnlyOnOurVt
  BY <1>1, <1>5, PlugKeyboardKeeps
<1>6. ASSUME NEW i \in Input, UnplugKeyboard(i) PROVE IInv' /\ OnlyOnOurVt
  BY <1>1, <1>6, UnplugKeyboardKeeps
<1>7. ASSUME NEW h \in Controller, OnNewFrame(h) PROVE IInv' /\ OnlyOnOurVt
  BY <1>1, <1>7, OnNewFrameKeeps
<1>8. ASSUME NEW keep \in BOOLEAN, HandleQuit(keep) PROVE IInv' /\ OnlyOnOurVt
  BY <1>1, <1>8, HandleQuitKeeps
<1>9. CASE TtyComesBack
  BY <1>1, <1>9, TtyComesBackKeeps
<1>10. CASE UnplugCard
  BY <1>1, <1>10, UnplugCardKeeps
<1>11. CASE OnLeaveVt
  BY <1>1, <1>11, OnLeaveVtKeeps
<1>12. CASE OnEnterVt
  BY <1>1, <1>12, OnEnterVtKeeps
<1>13. CASE OnReopenTimeout
  BY <1>1, <1>13, OnReopenTimeoutKeeps
<1>14. CASE ShowSplash
  BY <1>1, <1>14, ShowSplashKeeps
<1>15. CASE HandleHideSplash
  BY <1>1, <1>15, HandleHideSplashKeeps
<1>16. CASE HandleDeactivate
  BY <1>1, <1>16, HandleDeactivateKeeps
<1>17. CASE HandleReactivate
  BY <1>1, <1>17, HandleReactivateKeeps
<1>18. CASE OnBootSplashIdle
  BY <1>1, <1>18, OnBootSplashIdleKeeps
<1>19. CASE HurryVt
  BY <1>1, <1>19, HurryVtKeeps
<1> QED
  BY <1>1, <1>2, <1>3, <1>4, <1>5, <1>6, <1>7, <1>8, <1>9, <1>10, <1>11, <1>12,
     <1>13, <1>14, <1>15, <1>16, <1>17, <1>18, <1>19 DEF Next

LEMMA SeatHolds ==
  Spec => []IInv
BY InitHolds, NextKeeps, PTL DEF Spec

(* A terminal that was lost is opened again or its last attempt is due, and *)
(* what ends the daemon is what DaemonSurvives names and nothing else       *)
(* (ply-terminal.c, the event loop's freed watch, unmap_buffer of the DRM   *)
(* plugin), however many screens, keyboards, VT switches, hangups and       *)
(* commands there are.                                                      *)
THEOREM SeatIsAlwaysSound ==
  Spec => []SeatIsSound
<1>1. IInv => SeatIsSound
  <2>1. SUFFICES ASSUME IInv PROVE SeatIsSound
    OBVIOUS
  <2>2. ReopenIsPending
    BY <2>1 DEF IInv, Wired, ReopenIsPending
  <2>3. DaemonSurvives
    BY <2>1 DEF IInv, Explained, DaemonSurvives
  <2> QED
    BY <2>1, <2>2, <2>3 DEF IInv, SeatIsSound
<1> QED
  BY <1>1, SeatHolds, PTL

(* While the input source of the renderer is open every keyboard is         *)
(* watched, or, if there is none, the terminal is: open_input_source,       *)
(* add_input_device and remove_input_device. The one exception is an input  *)
(* source that was opened, or lost its watch, while the terminal was lost:  *)
(* nothing of on_input_source_disconnected or ply_terminal_reopen_device    *)
(* watches it again.                                                        *)
THEOREM InputIsAlwaysHeard ==
  Spec => []InputIsHeard
<1>1. IInv => InputIsHeard
  BY DEF IInv, Wired, Hears, InputIsHeard
<1> QED
  BY <1>1, SeatHolds, PTL

(* After plymouthd_handle_deactivate and at the end of the program the      *)
(* console is as other programs expect it, in whatever phase the splash     *)
(* was, however often the console was given and taken and whatever          *)
(* happened to the terminal, but for what could not be asked of a terminal  *)
(* that was lost (seat.missed), each of the three for itself.               *)
THEOREM ConsoleIsAlwaysGivenBack ==
  Spec => []ConsoleIsGivenBack
<1>1. IInv => ConsoleIsGivenBack
  <2>1. SUFFICES ASSUME IInv, phase \in {"inactive", "quit"}
                 PROVE  /\ seat.kernel.keys \/ seat.missed \cap {"enable", "reopen"} # {}
                        /\ ~seat.kernel.raw \/ "reopen" \in seat.missed
                        /\ ~seat.kernel.process \/ "auto" \in seat.missed
    BY DEF ConsoleIsGivenBack
  <2>2. ~seat.terminal.open /\ Explained(seat) /\ Wired(seat)
    BY <2>1 DEF IInv, HandedOver
  <2>3. /\ seat.kernel.keys \/ "enable" \in seat.missed \/ "reopen" \in seat.missed
        /\ ~seat.kernel.raw \/ "reopen" \in seat.missed
    BY <2>2 DEF Explained
  <2>4. ~seat.kernel.process \/ "auto" \in seat.missed
    BY <2>2 DEF Explained, Wired
  <2> QED
    BY <2>3, <2>4
<1> QED
  BY <1>1, SeatHolds, PTL

(* The DRM plugin sets a scan-out buffer of ours only while our VT is on    *)
(* the screen (reset_scan_out_buffer_if_needed and what leads to it).       *)
THEOREM ScansStayOnOurVt ==
  Spec => ScansOnlyOnOurVt
<1>1. IInv /\ [Next]_vars =>
          [seat.renderer.plugin = "drm" /\ ~strayed' =>
               seat'.card.scan \subseteq seat.card.scan \/ seat'.kernel.vt = "ours"
          ]_vars
  BY NextKeeps DEF OnlyOnOurVt
<1> QED
  BY <1>1, SeatHolds, PTL DEF Spec, ScansOnlyOnOurVt
=============================================================================
