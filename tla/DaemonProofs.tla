---------------------------- MODULE DaemonProofs ----------------------------
(***************************************************************************)
(* What holds of the control plane of plymouthd for any number of requests *)
(* and any modes: the types of module Daemon, its safety properties, and    *)
(* that it implements TransitionService.                                   *)
(*                                                                         *)
(* A handler is a composition of C helpers, each an operator from a state  *)
(* to the next one.  The first part shows of each helper which fields it   *)
(* leaves alone (Quiet, Undangled); the second part that each handler      *)
(* keeps the inductive invariant (Keeps); the third part that each action  *)
(* does.  The last parts show the same of Serves(s, t), a step of the       *)
(* service, or none, between two states of the daemon.                     *)
(***************************************************************************)
EXTENDS Daemon, TLAPS

-----------------------------------------------------------------------------
(* What the helpers that show and hide the splash do to the rest of the     *)
(* state.                                                                   *)

SameRequests(s, t) ==
    /\ t.quitters = s.quitters /\ t.deactivators = s.deactivators
    /\ t.pulled = s.pulled /\ t.inactive = s.inactive
    /\ t.becomingIdle = s.becomingIdle /\ t.aborted = s.aborted
    /\ t.exiting = s.exiting /\ t.paused = s.paused /\ t.devices = s.devices

SameRest(s, t) ==
    /\ t.idle = s.idle /\ t.tty = s.tty /\ t.attached = s.attached
    /\ t.output = s.output /\ t.fault = s.fault

(* Nothing is displayed and no key is read.                                 *)
Dark(s) == s.splash = "none" /\ ~s.keyboards

Quiet(s, t) ==
    /\ t \in State
    /\ SameRequests(s, t)
    /\ t.idle \in {s.idle, "none"}
    /\ t.tty => s.tty
    /\ t.attached => s.attached
    /\ t.output => s.output
    /\ s.fault => t.fault
    /\ t.fault => s.fault \/ ~s.devices \/ ~t.output
    /\ ~s.devices /\ Dark(s) => t.fault \/ Dark(t)

(* No splash that draws frames is freed: a frame timeout implies a splash.  *)
Framed(s) == s.splash = "none" => s.frames # "on"

Undangled(s, t) ==
    Framed(s) =>
        /\ Framed(t) \/ t.fault
        /\ t.frames = "dangling" => s.frames = "dangling" \/ t.fault

Gentle(s, t) == Quiet(s, t) /\ Undangled(s, t)

LEMMA QuietTransitive ==
    ASSUME NEW s \in State, NEW t, NEW u, Quiet(s, t), Quiet(t, u)
    PROVE  Quiet(s, u)
BY DEF Quiet, SameRequests, Dark

LEMMA GentleTransitive ==
    ASSUME NEW s \in State, NEW t, NEW u, Gentle(s, t), Gentle(t, u)
    PROVE  Gentle(s, u)
BY QuietTransitive DEF Gentle, Undangled, Quiet

LEMMA GentleReflexive == ASSUME NEW s \in State PROVE Gentle(s, s)
BY DEF Gentle, Quiet, SameRequests, Undangled, Dark

LEMMA FaultIsGentle ==
    ASSUME NEW s \in State, ~s.devices \/ ~s.output
    PROVE  Gentle(s, Fault(s)) /\ Fault(s).fault
BY ZenonT(60) DEF Gentle, Quiet, SameRequests, Undangled, Framed, Dark, Fault,
                  State

LEMMA OnDevicesIsGentle ==
    ASSUME NEW s \in State, NEW t, Gentle(s, t)
    PROVE  Gentle(s, OnDevices(s, t))
BY FaultIsGentle DEF OnDevices

LEMMA CancelPendingShowIsGentle ==
    ASSUME NEW s \in State PROVE Gentle(s, CancelPendingShow(s))
BY DEF Gentle, Quiet, SameRequests, Undangled, Framed, Dark,
       CancelPendingShow, State, Delay

(* plymouthd_splash_clear: harmless as long as the splash draws no frames.  *)
LEMMA FreeSplashIsQuiet ==
    ASSUME NEW s \in State
    PROVE  /\ Quiet(s, FreeSplash(s))
           /\ FreeSplash(s).splash = "none"
           /\ s.frames # "on" => Gentle(s, FreeSplash(s))
           /\ Framed(s) => FreeSplash(s).frames # "on"
<1> DEFINE i == IF s.idle = "timer" THEN s.idle ELSE "none"
           f == IF s.frames = "on" THEN "dangling" ELSE s.frames
           t == [s EXCEPT !.splash = "none", !.idle = i, !.frames = f]
<1>1. CASE s.splash = "none"
  <2>1. FreeSplash(s) = s
    BY <1>1 DEF FreeSplash
  <2> QED BY <2>1, <1>1, GentleReflexive DEF Gentle, Framed
<1>2. CASE s.splash # "none"
  <2>1. i \in Idle /\ f \in Frames /\ i \in {s.idle, "none"} /\ f # "on"
    BY DEF State, Idle, Frames
  <2>2. /\ Quiet(s, t)
        /\ t.splash = "none" /\ t.frames = f
        /\ t.fault = s.fault
    <3> HIDE DEF i, f
    <3> QED BY <2>1, ZenonT(60) DEF Quiet, SameRequests, Dark, State, Splash
  <2>3. s.frames # "on" => f = s.frames
    OBVIOUS
  <2>4. FreeSplash(s) = t
    BY <1>2 DEF FreeSplash
  <2> HIDE DEF t, f, i
  <2> QED BY <2>1, <2>2, <2>3, <2>4 DEF Gentle, Undangled, Framed
<1> QED BY <1>1, <1>2

LEMMA ShowThemeIsGentle ==
    ASSUME NEW s \in State, NEW r \in Outcome
    PROVE  Gentle(s, ShowTheme(s, r))
<1> DEFINE p == IF r = "graphical" THEN r ELSE "text"
           q == s.renderers \/ r # "text"
           t == [s EXCEPT !.splash = p, !.renderers = q, !.keyboards = TRUE,
                          !.frames = "on"]
<1>1. CASE s.devices /\ s.output
  <2>1. p \in Splash /\ p # "none"
    BY DEF Outcome, Splash
  <2>2. q \in BOOLEAN
    OBVIOUS
  <2>3. /\ t \in State
        /\ SameRequests(s, t) /\ SameRest(s, t)
        /\ t.splash = p
    <3> HIDE DEF p, q
    <3>1. t \in State
      BY <2>1, <2>2 DEF State, Frames
    <3>2. SameRequests(s, t)
      BY DEF SameRequests, State
    <3>3. SameRest(s, t) /\ t.splash = p
      BY DEF SameRest, State
    <3> QED BY <3>1, <3>2, <3>3
  <2>4. t.frames # "dangling"
    <3> HIDE DEF p, q
    <3> QED BY DEF State
  <2>5. Gentle(s, t)
    <3> HIDE DEF p, t
    <3> QED BY <1>1, <2>1, <2>3, <2>4 DEF Gentle, Quiet, SameRequests, SameRest,
            Undangled, Framed
  <2>6. ShowTheme(s, r) = t
    BY <1>1 DEF ShowTheme
  <2> QED BY <2>5, <2>6
<1>2. CASE ~(s.devices /\ s.output)
  BY <1>2, FaultIsGentle DEF ShowTheme, State
<1> QED BY <1>1, <1>2

LEMMA ShowDetailedSplashIsGentle ==
    ASSUME NEW s \in State PROVE Gentle(s, ShowDetailedSplash(s))
<1> DEFINE t == CancelPendingShow(s)
<1>1. Gentle(s, t) /\ t \in State
  BY CancelPendingShowIsGentle DEF Gentle, Quiet
<1>2. Gentle(t, ShowTheme(t, "text"))
  BY <1>1, ShowThemeIsGentle DEF Outcome
<1>3. ShowDetailedSplash(s) \in {t, ShowTheme(t, "text")}
  BY DEF ShowDetailedSplash
<1> QED BY <1>1, <1>2, <1>3, GentleTransitive

LEMMA ShowDefaultSplashIsGentle ==
    ASSUME NEW s \in State, NEW r \in Outcome
    PROVE  Gentle(s, ShowDefaultSplash(s, r))
BY GentleReflexive, ShowThemeIsGentle DEF ShowDefaultSplash

(* Fields that no relation mentions may be set along the way.               *)
LEMMA SettingIsGentle ==
    ASSUME NEW s \in State, NEW v \in BOOLEAN
    PROVE  /\ Gentle(s, [s EXCEPT !.showingDetails = v])
           /\ Gentle(s, [s EXCEPT !.retain = v])
           /\ Gentle(s, [s EXCEPT !.shown = v])
           /\ Gentle(s, [s EXCEPT !.displays = v])
           /\ Gentle(s, [s EXCEPT !.deviceTimeout = v])
BY SMTT(30) DEF Gentle, Quiet, SameRequests, Undangled, Framed, Dark, State

LEMMA ShowSplashIsGentle ==
    ASSUME NEW s \in State, NEW r \in Outcome
    PROVE  Gentle(s, ShowSplash(s, r))
<1>1. CASE s.splash # "none"
  BY <1>1, GentleReflexive DEF ShowSplash
<1>2. CASE s.splash = "none" /\ HasTimeLeft(s)
  <2> DEFINE t == [s EXCEPT !.delay = "scheduled", !.keyboards = TRUE]
  <2>1. s.devices => Gentle(s, t)
    BY ZenonT(60) DEF Gentle, Quiet, SameRequests, Undangled, Framed, Dark,
                      State, Delay
  <2>2. ShowSplash(s, r) = OnDevices(s, t)
    BY <1>2 DEF ShowSplash
  <2> HIDE DEF t
  <2> QED BY <2>1, <2>2, FaultIsGentle DEF OnDevices
<1>3. CASE s.splash = "none" /\ ~HasTimeLeft(s)
  <2> DEFINE t == ShowDefaultSplash(s, r)
             u == ShowDetailedSplash(s)
  <2>1. Gentle(s, t) /\ Gentle(s, u)
    BY ShowDefaultSplashIsGentle, ShowDetailedSplashIsGentle
  <2>2. t \in State /\ u \in State
    BY <2>1 DEF Gentle, Quiet
  <2>3. ShowSplash(s, r) \in {[t EXCEPT !.showingDetails = FALSE],
                              [u EXCEPT !.showingDetails = TRUE]}
    BY <1>3 DEF ShowSplash
  <2> HIDE DEF t, u
  <2>4. /\ Gentle(s, [t EXCEPT !.showingDetails = FALSE])
        /\ Gentle(s, [u EXCEPT !.showingDetails = TRUE])
    BY <2>1, <2>2, SettingIsGentle, GentleTransitive
  <2> QED BY <2>3, <2>4
<1> QED BY <1>1, <1>2, <1>3

LEMMA HideSplashIsGentle ==
    ASSUME NEW s \in State
    PROVE  /\ Gentle(s, HideSplash(s))
           /\ Framed(s) => HideSplash(s).frames # "on" \/ HideSplash(s).fault
           /\ s.splash # "none" =>
                  HideSplash(s).frames # "on" \/ HideSplash(s).fault
<1> DEFINE d == CancelPendingShow(s)
           p == d.renderers /\ ~UsesPixelDisplays(s)
           f == IF s.splash # "none" THEN "off" ELSE d.frames
           t == [d EXCEPT !.renderers = p, !.shown = FALSE, !.frames = f]
<1>1. Gentle(s, d) /\ d \in State /\ d.frames = s.frames /\ d.splash = s.splash
  BY CancelPendingShowIsGentle
     DEF Gentle, Quiet, CancelPendingShow, State
<1>2. p \in BOOLEAN
  OBVIOUS
<1>3. /\ f \in Frames /\ f \in {"off", s.frames}
      /\ s.splash # "none" => f = "off"
  BY <1>1 DEF State, Frames
<1>4. Gentle(d, t) /\ t.frames = f
  <2>1. /\ t \in State
        /\ SameRequests(d, t) /\ SameRest(d, t)
        /\ t.splash = d.splash /\ t.keyboards = d.keyboards /\ t.frames = f
    <3> HIDE DEF d, p, f
    <3>1. t \in State
      BY <1>1, <1>2, <1>3, ZenonT(60) DEF State
    <3>2. SameRequests(d, t)
      BY <1>1 DEF SameRequests, State
    <3>3. SameRest(d, t)
      BY <1>1 DEF SameRest, State
    <3>4. t.splash = d.splash /\ t.keyboards = d.keyboards /\ t.frames = f
      BY <1>1, <1>3 DEF State
    <3> QED BY <3>1, <3>2, <3>3, <3>4
  <2> HIDE DEF d, t, f
  <2> QED BY <2>1, <1>1, <1>3 DEF Gentle, Quiet, SameRequests, SameRest,
          Undangled, Framed, Dark
<1>5. Gentle(s, t)
  <2> HIDE DEF d, t
  <2> QED BY <1>1, <1>4, GentleTransitive
<1>6. HideSplash(s) = OnDevices(s, t)
  BY DEF HideSplash
<1>7. HideSplash(s) = t \/ HideSplash(s) = Fault(s)
  BY <1>6 DEF OnDevices
<1> HIDE DEF d, t, f
<1>8. s.devices \/ Fault(s).fault
  BY FaultIsGentle
<1> QED BY <1>3, <1>4, <1>5, <1>6, <1>7, <1>8, OnDevicesIsGentle
        DEF Framed, OnDevices

LEMMA ToggleDetailsIsGentle ==
    ASSUME NEW s \in State, NEW r \in Outcome
    PROVE  Gentle(s, ToggleDetails(s, r))
<1> DEFINE h == HideSplash(s)
           t == IF s.splash # "none" THEN FreeSplash(h) ELSE s
           u == ShowDefaultSplash(t, r)
           v == ShowDetailedSplash(t)
<1>1. Gentle(s, t)
  <2>1. CASE s.splash # "none"
    <3>1. Gentle(s, h) /\ h \in State /\ (h.frames # "on" \/ h.fault)
      BY <2>1, HideSplashIsGentle DEF Gentle, Quiet
    <3>2. Gentle(h, FreeSplash(h)) \/ (Quiet(h, FreeSplash(h)) /\ h.fault)
      BY <3>1, FreeSplashIsQuiet
    <3>3. Gentle(h, FreeSplash(h))
      BY <3>2 DEF Gentle, Undangled, Quiet
    <3> QED BY <2>1, <3>1, <3>3, GentleTransitive
  <2>2. CASE s.splash = "none"
    BY <2>2, GentleReflexive
  <2> QED BY <2>1, <2>2
<1>2. t \in State
  BY <1>1 DEF Gentle, Quiet
<1> HIDE DEF t
<1>3. Gentle(s, u) /\ Gentle(s, v)
  BY <1>1, <1>2, ShowDefaultSplashIsGentle, ShowDetailedSplashIsGentle,
     GentleTransitive
<1>4. u \in State /\ v \in State
  BY <1>3 DEF Gentle, Quiet
<1>5. ToggleDetails(s, r) \in {[u EXCEPT !.showingDetails = FALSE],
                               [v EXCEPT !.showingDetails = TRUE]}
  BY DEF ToggleDetails, t
<1> HIDE DEF u, v
<1>6. /\ Gentle(s, [u EXCEPT !.showingDetails = FALSE])
      /\ Gentle(s, [v EXCEPT !.showingDetails = TRUE])
  BY <1>3, <1>4, SettingIsGentle, GentleTransitive
<1> QED BY <1>5, <1>6

(* quit_splash leaves nothing on display, but only a splash without frames  *)
(* leaves no timeout behind.                                                *)
LEMMA QuitSplashIsQuiet ==
    ASSUME NEW s \in State
    PROVE  /\ Quiet(s, QuitSplash(s))
           /\ s.frames # "on" \/ s.fault => Gentle(s, QuitSplash(s))
           /\ s.devices => Dark(QuitSplash(s)) /\ ~QuitSplash(s).attached
           /\ Framed(s) => QuitSplash(s).frames # "on" \/ QuitSplash(s).fault
<1> DEFINE g == FreeSplash(s)
           p == g.tty /\ s.retain
           t == [g EXCEPT !.keyboards = FALSE, !.tty = p, !.attached = FALSE]
<1>1. /\ Quiet(s, g) /\ g.splash = "none" /\ (s.frames # "on" => Gentle(s, g))
      /\ Framed(s) => g.frames # "on"
  BY FreeSplashIsQuiet
<1>2. g \in State
  BY <1>1 DEF Quiet
<1>3. p \in BOOLEAN /\ (p => g.tty)
  OBVIOUS
<1>4. /\ Gentle(g, t)
      /\ t.splash = g.splash /\ t.frames = g.frames
      /\ ~t.keyboards /\ ~t.attached
  <2> HIDE DEF g, p
  <2>1. t \in State
    BY <1>2, <1>3, ZenonT(60) DEF State
  <2>2. SameRequests(g, t)
    BY <1>2 DEF SameRequests, State
  <2>3. /\ t.idle = g.idle /\ t.output = g.output /\ t.fault = g.fault
        /\ t.splash = g.splash /\ t.frames = g.frames
        /\ t.keyboards = FALSE /\ t.attached = FALSE /\ t.tty = p
    BY <1>2 DEF State
  <2> HIDE DEF t
  <2> QED BY <2>1, <2>2, <2>3, <1>3
          DEF Gentle, Quiet, SameRequests, Undangled, Framed, Dark
<1>5. Quiet(s, t) /\ (s.frames # "on" => Gentle(s, t))
  <2> HIDE DEF g, t
  <2> QED BY <1>1, <1>4, QuietTransitive, GentleTransitive DEF Gentle
<1>6. QuitSplash(s) = OnDevices(s, t)
  BY <1>2 DEF QuitSplash
<1>7. s.fault => Gentle(s, t)
  <2> HIDE DEF t
  <2> QED BY <1>5 DEF Gentle, Undangled, Quiet
<1> HIDE DEF g, t
<1> QED BY <1>1, <1>4, <1>5, <1>6, <1>7, OnDevicesIsGentle, FaultIsGentle
        DEF OnDevices, Gentle, Dark

LEMMA DumpDetailsAndQuitSplashIsQuiet ==
    ASSUME NEW s \in State
    PROVE  /\ Quiet(s, DumpDetailsAndQuitSplash(s))
           /\ Framed(s) => Gentle(s, DumpDetailsAndQuitSplash(s))
           /\ s.devices => /\ Dark(DumpDetailsAndQuitSplash(s))
                           /\ ~DumpDetailsAndQuitSplash(s).attached
<1> DEFINE d == [s EXCEPT !.showingDetails = FALSE]
           t == ToggleDetails(d, "text")
           h == HideSplash(t)
<1>1. Gentle(s, d) /\ d \in State
  BY SettingIsGentle DEF Gentle, Quiet
<1>2. Gentle(d, t) /\ t \in State
  <2> HIDE DEF d
  <2> QED BY <1>1, ToggleDetailsIsGentle DEF Gentle, Quiet, Outcome
<1>3. Gentle(s, t)
  <2> HIDE DEF d, t
  <2> QED BY <1>1, <1>2, GentleTransitive
<1>4. Gentle(t, h) /\ h \in State /\ (Framed(t) => h.frames # "on" \/ h.fault)
  <2> HIDE DEF t
  <2> QED BY <1>2, HideSplashIsGentle DEF Gentle, Quiet
<1>5. Gentle(s, h)
  <2> HIDE DEF t, h
  <2> QED BY <1>3, <1>4, GentleTransitive
<1>6. Framed(s) => h.frames # "on" \/ h.fault
  <2> HIDE DEF t, h
  <2> QED BY <1>3, <1>4, <1>5 DEF Gentle, Undangled, Quiet
<1>7. DumpDetailsAndQuitSplash(s) = QuitSplash(h)
  BY DEF DumpDetailsAndQuitSplash
<1> HIDE DEF d, t, h
<1>8. Quiet(s, QuitSplash(h))
  BY <1>4, <1>5, QuitSplashIsQuiet, QuietTransitive DEF Gentle
<1>9. Framed(s) => Gentle(s, QuitSplash(h))
  BY <1>4, <1>5, <1>6, QuitSplashIsQuiet, GentleTransitive
<1>10. s.devices => Dark(QuitSplash(h)) /\ ~QuitSplash(h).attached
  BY <1>4, <1>5, QuitSplashIsQuiet DEF Gentle, Quiet, SameRequests
<1> QED BY <1>7, <1>8, <1>9, <1>10

LEMMA HandleDisplayAddedIsGentle ==
    ASSUME NEW s \in State, NEW r \in Outcome
    PROVE  Gentle(s, HandleDisplayAdded(s, r))
<1> DEFINE t == [s EXCEPT !.displays = TRUE]
<1>1. Gentle(s, t) /\ t \in State
  BY SettingIsGentle DEF Gentle, Quiet
<1>2. HandleDisplayAdded(s, r) \in {t, ShowSplash(t, r)}
  BY DEF HandleDisplayAdded
<1> HIDE DEF t
<1> QED BY <1>1, <1>2, ShowSplashIsGentle, GentleTransitive

-----------------------------------------------------------------------------
(* The inductive invariant, of a daemon that has not crashed.               *)

(* RequestsAnsweredOnce.                                                    *)
Once(s) ==
    \A t \in Trigger :
        /\ s.pulled[t] <= 1
        /\ t \in s.quitters \union s.deactivators => s.pulled[t] = 0
        /\ ~(t \in s.quitters /\ t \in s.deactivators)

(* IdleIsAwaited.                                                           *)
Awaited(s) ==
    /\ s.idle # "none" => s.becomingIdle
    /\ s.becomingIdle /\ ~s.exiting
           => s.quitters \union s.deactivators # {}

(* InactiveReleasesConsole needs that a device manager stays paused while a *)
(* deactivation is under way, and that this ends before the daemon is       *)
(* inactive.                                                                *)
Released(s) ==
    /\ s.inactive => ~s.tty /\ ~s.attached /\ s.paused
    /\ s.deactivators # {} => s.paused /\ ~s.inactive

(* FaultsOnlyAtExit and ExitIsClean need that a pointer dangles, and the    *)
(* devices are gone, only once the loop was told to exit, and that then     *)
(* nobody waits and nothing is displayed.                                   *)
Exits(s) ==
    /\ Framed(s)
    /\ s.frames = "dangling" => s.exiting
    /\ ~s.devices => s.exiting
    /\ s.exiting => /\ s.quitters = {} /\ s.deactivators = {}
                    /\ Dark(s) /\ ~s.devices /\ ~s.attached

Sound(s) == Once(s) /\ ~s.aborted /\ Released(s) /\ Exits(s)

Safe(s) == Sound(s) /\ Awaited(s)

(* AnswersAreTrue: what a request that stops waiting may rely on.           *)
Answers(s, t) ==
    /\ s.quitters \subseteq t.quitters \/ t.exiting
    /\ s.deactivators \subseteq t.deactivators \/ t.exiting \/ t.inactive

(* What a handler that makes t of s must guarantee.                         *)
Keeps(s, t) ==
    /\ t \in State /\ ~t.aborted
    /\ Answers(s, t)
    /\ t.output => s.output
    /\ t.fault => s.exiting \/ ~t.output
    /\ t.fault \/ Safe(t)

LEMMA GentleKeeps ==
    ASSUME NEW s \in State, Safe(s), ~s.fault, NEW t, Gentle(s, t)
    PROVE  Keeps(s, t)
<1>1. /\ t \in State /\ SameRequests(s, t) /\ t.idle \in {s.idle, "none"}
      /\ t.tty => s.tty
      /\ t.attached => s.attached
      /\ t.output => s.output
      /\ t.fault => ~s.devices \/ ~t.output
      /\ ~s.devices /\ Dark(s) => t.fault \/ Dark(t)
  BY DEF Gentle, Quiet
<1>2. /\ Framed(t) \/ t.fault
      /\ t.frames = "dangling" => s.frames = "dangling" \/ t.fault
  BY DEF Gentle, Undangled, Safe, Sound, Exits
<1>3. Once(t)
  BY <1>1 DEF Once, Safe, Sound, SameRequests
<1>4. Awaited(t)
  BY <1>1 DEF Awaited, Safe, SameRequests
<1>5. Released(t)
  BY <1>1 DEF Released, Safe, Sound, SameRequests
<1>6. t.fault \/ Exits(t)
  BY <1>1, <1>2 DEF Exits, Safe, Sound, SameRequests
<1>7. ~t.aborted /\ (~s.devices => s.exiting) /\ Answers(s, t)
  BY <1>1 DEF Safe, Sound, Exits, SameRequests, Answers
<1> QED BY <1>1, <1>3, <1>4, <1>5, <1>6, <1>7 DEF Keeps, Safe, Sound

LEMMA PullSetsPulled ==
    ASSUME NEW s \in State, NEW T \in SUBSET Trigger
    PROVE  /\ Pull(s, T) \in State
           /\ \A t \in Trigger :
                  Pull(s, T).pulled[t] = IF t \in T /\ s.pulled[t] < 2
                                         THEN s.pulled[t] + 1 ELSE s.pulled[t]
           /\ Pull(s, T) = [s EXCEPT !.pulled = Pull(s, T).pulled]
<1> DEFINE f == [t \in Trigger |-> IF t \in T /\ s.pulled[t] < 2
                                   THEN s.pulled[t] + 1 ELSE s.pulled[t]]
<1>1. f \in [Trigger -> 0..2]
  BY DEF State
<1>2. Pull(s, T) = [s EXCEPT !.pulled = f]
  BY DEF Pull
<1>3. \A t \in Trigger : f[t] = IF t \in T /\ s.pulled[t] < 2
                                THEN s.pulled[t] + 1 ELSE s.pulled[t]
  OBVIOUS
<1>4. [s EXCEPT !.pulled = f] \in State /\ [s EXCEPT !.pulled = f].pulled = f
  <2> HIDE DEF f
  <2> QED BY <1>1 DEF State
<1> HIDE DEF f
<1> QED BY <1>2, <1>3, <1>4

(* What the transition never touches.                                       *)
SameSplash(s, t) ==
    /\ t.splash = s.splash /\ t.frames = s.frames /\ t.idle = s.idle
    /\ t.becomingIdle = s.becomingIdle /\ t.paused = s.paused
    /\ t.output = s.output /\ t.fault = s.fault

LEMMA CompleteDeactivateAnswers ==
    ASSUME NEW s \in State, Once(s)
    PROVE  LET t == CompleteDeactivate(s)
           IN  /\ t \in State /\ Once(t) /\ SameSplash(s, t)
               /\ t.deactivators = {} /\ t.inactive
               /\ t.quitters = s.quitters /\ t.aborted = s.aborted
               /\ t.devices = s.devices /\ t.exiting = s.exiting
               /\ t.keyboards = s.keyboards
               /\ t.tty = s.tty /\ t.attached = s.attached
<1> DEFINE p == Pull(s, s.deactivators)
           t == [p EXCEPT !.inactive = TRUE, !.deactivators = {}]
<1>1. /\ p \in State
      /\ \A r \in Trigger :
             p.pulled[r] = IF r \in s.deactivators /\ s.pulled[r] < 2
                           THEN s.pulled[r] + 1 ELSE s.pulled[r]
      /\ p = [s EXCEPT !.pulled = p.pulled]
  BY PullSetsPulled DEF State
<1>2. /\ SameSplash(s, p)
      /\ p.quitters = s.quitters /\ p.deactivators = s.deactivators
      /\ p.aborted = s.aborted /\ p.devices = s.devices
      /\ p.exiting = s.exiting /\ p.keyboards = s.keyboards
      /\ p.tty = s.tty /\ p.attached = s.attached
  <2> HIDE DEF p
  <2> QED BY <1>1 DEF SameSplash, State
<1>3. /\ t \in State
      /\ SameSplash(p, t)
      /\ t.deactivators = {} /\ t.inactive
      /\ t.quitters = p.quitters /\ t.pulled = p.pulled
      /\ t.aborted = p.aborted /\ t.devices = p.devices
      /\ t.exiting = p.exiting /\ t.keyboards = p.keyboards
      /\ t.tty = p.tty /\ t.attached = p.attached
  <2> HIDE DEF p
  <2> QED BY <1>1, ZenonT(60) DEF SameSplash, State
<1>4. Once(t)
  <2> HIDE DEF t, p
  <2> QED BY <1>1, <1>2, <1>3 DEF Once, State
<1>5. CompleteDeactivate(s) = t
  BY DEF CompleteDeactivate
<1> HIDE DEF t, p
<1> QED BY <1>2, <1>3, <1>4, <1>5 DEF SameSplash

LEMMA CompleteAllAnswers ==
    ASSUME NEW s \in State
    PROVE  LET t == CompleteAll(s)
           IN  /\ t \in State /\ SameSplash(s, t)
               /\ Once(s) => Once(t)
               /\ t.deactivators = {} /\ t.quitters = {}
               /\ t.inactive = s.inactive /\ t.aborted = s.aborted
               /\ t.devices = s.devices /\ t.exiting = s.exiting
               /\ t.keyboards = s.keyboards
               /\ t.tty = s.tty /\ t.attached = s.attached
<1> DEFINE p == Pull(s, s.deactivators)
           q == Pull(p, s.quitters)
           t == [q EXCEPT !.deactivators = {}, !.quitters = {}]
<1>1. /\ p \in State
      /\ \A r \in Trigger :
             p.pulled[r] = IF r \in s.deactivators /\ s.pulled[r] < 2
                           THEN s.pulled[r] + 1 ELSE s.pulled[r]
      /\ p = [s EXCEPT !.pulled = p.pulled]
  BY PullSetsPulled DEF State
<1>2. /\ q \in State
      /\ \A r \in Trigger :
             q.pulled[r] = IF r \in s.quitters /\ p.pulled[r] < 2
                           THEN p.pulled[r] + 1 ELSE p.pulled[r]
      /\ q = [p EXCEPT !.pulled = q.pulled]
  <2> HIDE DEF p
  <2> QED BY <1>1, PullSetsPulled DEF State
<1>3. /\ SameSplash(s, p) /\ p.inactive = s.inactive
      /\ p.aborted = s.aborted /\ p.devices = s.devices
      /\ p.exiting = s.exiting /\ p.keyboards = s.keyboards
      /\ p.tty = s.tty /\ p.attached = s.attached
  <2> HIDE DEF p
  <2> QED BY <1>1 DEF SameSplash, State
<1>4. /\ SameSplash(p, q) /\ q.inactive = p.inactive
      /\ q.aborted = p.aborted /\ q.devices = p.devices
      /\ q.exiting = p.exiting /\ q.keyboards = p.keyboards
      /\ q.tty = p.tty /\ q.attached = p.attached
  <2> HIDE DEF p, q
  <2> QED BY <1>1, <1>2 DEF SameSplash, State
<1>5. /\ t \in State
      /\ SameSplash(q, t) /\ t.inactive = q.inactive
      /\ t.deactivators = {} /\ t.quitters = {} /\ t.pulled = q.pulled
      /\ t.aborted = q.aborted /\ t.devices = q.devices
      /\ t.exiting = q.exiting /\ t.keyboards = q.keyboards
      /\ t.tty = q.tty /\ t.attached = q.attached
  <2> HIDE DEF q
  <2> QED BY <1>2, ZenonT(60) DEF SameSplash, State
<1>6. Once(s) => Once(t)
  <2> HIDE DEF t, p, q
  <2> SUFFICES ASSUME Once(s), NEW r \in Trigger
               PROVE  t.pulled[r] <= 1
    BY <1>5 DEF Once
  <2>1. s.pulled[r] \in 0..2 /\ s.pulled[r] <= 1
    BY DEF Once, State
  <2>2. CASE r \in s.deactivators
    <3>1. s.pulled[r] = 0 /\ r \notin s.quitters
      BY <2>2 DEF Once
    <3> QED BY <3>1, <2>2, <1>1, <1>2, <1>5
  <2>3. CASE r \notin s.deactivators
    <3>1. p.pulled[r] = s.pulled[r]
      BY <2>3, <1>1
    <3>2. r \in s.quitters => s.pulled[r] = 0
      BY DEF Once
    <3> QED BY <2>1, <3>1, <3>2, <1>2, <1>5
  <2> QED BY <2>2, <2>3
<1>7. CompleteAll(s) = t
  BY DEF CompleteAll
<1> HIDE DEF t, p, q
<1> QED BY <1>3, <1>4, <1>5, <1>6, <1>7 DEF SameSplash

(* quit_program on a daemon whose splash is gone.                           *)
LEMMA QuitProgramEnds ==
    ASSUME NEW s \in State
    PROVE  LET t == QuitProgram(s)
           IN  /\ t \in State /\ SameSplash(s, t) /\ t.exiting
               /\ t.aborted = s.aborted
               /\ /\ Once(s) /\ ~s.aborted
                  /\ s.inactive => ~s.attached /\ s.paused
                  /\ Dark(s) /\ ~s.attached /\ s.frames # "on"
                  => Sound(t)
<1> DEFINE u == [s EXCEPT !.devices = FALSE, !.displays = FALSE,
                          !.keyboards = FALSE, !.renderers = FALSE,
                          !.tty = FALSE, !.exiting = TRUE]
           t == CompleteAll(u)
<1>1. u \in State
  BY ZenonT(60) DEF State
<1>2. /\ SameSplash(s, u)
      /\ u.exiting = TRUE /\ u.devices = FALSE /\ u.keyboards = FALSE
      /\ u.tty = FALSE
  BY DEF SameSplash, State
<1>3. /\ u.inactive = s.inactive /\ u.aborted = s.aborted
      /\ u.attached = s.attached
      /\ u.quitters = s.quitters /\ u.deactivators = s.deactivators
      /\ u.pulled = s.pulled
  BY DEF State
<1> HIDE DEF u
<1>4. Once(s) => Once(u)
  BY <1>3 DEF Once
<1>5. /\ t \in State /\ SameSplash(u, t) /\ (Once(u) => Once(t))
      /\ t.deactivators = {} /\ t.quitters = {}
      /\ t.inactive = u.inactive /\ t.aborted = u.aborted
      /\ t.devices = u.devices /\ t.exiting = u.exiting
      /\ t.keyboards = u.keyboards
      /\ t.tty = u.tty /\ t.attached = u.attached
  BY <1>1, CompleteAllAnswers
<1>6. QuitProgram(s) = t
  BY DEF QuitProgram, u
<1> HIDE DEF t
<1> QED BY <1>2, <1>3, <1>4, <1>5, <1>6
        DEF SameSplash, Sound, Released, Exits, Dark, Framed

(* deactivate_splash on a paused daemon.                                    *)
LEMMA DeactivateSplashReleases ==
    ASSUME NEW s \in State, Sound(s), s.devices, s.paused, ~s.inactive
    PROVE  LET t == DeactivateSplash(s)
           IN  /\ t \in State /\ Sound(t)
               /\ t.idle = s.idle /\ t.becomingIdle = s.becomingIdle
               /\ t.output = s.output /\ t.fault = s.fault
               /\ t.quitters = s.quitters /\ t.inactive
<1> DEFINE a == s.aborted \/ s.inactive
           r == s.renderers /\ ~UsesPixelDisplays(s)
           u == [s EXCEPT !.aborted = a, !.renderers = r]
           v == [u EXCEPT !.attached = FALSE, !.tty = FALSE]
           t == CompleteDeactivate(v)
<1>1. a \in BOOLEAN /\ r \in BOOLEAN /\ ~a
  BY DEF Sound
<1>2. /\ u \in State /\ SameSplash(s, u) /\ u.aborted = a
      /\ u.devices = s.devices /\ u.exiting = s.exiting
      /\ u.keyboards = s.keyboards /\ u.quitters = s.quitters
      /\ u.deactivators = s.deactivators /\ u.pulled = s.pulled
  <2> HIDE DEF a, r
  <2> QED BY <1>1, ZenonT(60) DEF SameSplash, State
<1>3. /\ v \in State /\ SameSplash(u, v) /\ v.aborted = u.aborted
      /\ v.attached = FALSE /\ v.tty = FALSE
      /\ v.devices = u.devices /\ v.exiting = u.exiting
      /\ v.keyboards = u.keyboards /\ v.quitters = u.quitters
      /\ v.deactivators = u.deactivators /\ v.pulled = u.pulled
  <2> HIDE DEF u
  <2> QED BY <1>2, ZenonT(60) DEF SameSplash, State
<1>4. DeactivateSplash(s) = t
  <2>1. DeactivateSplash(s) = CompleteDeactivate(DeactivateConsole(u))
    BY DEF DeactivateSplash
  <2>2. DeactivateConsole(u) = v
    <3> HIDE DEF u
    <3> QED BY <1>2 DEF DeactivateConsole, OnDevices
  <2> QED BY <2>1, <2>2
<1> HIDE DEF a, u, v
<1>5. Once(v)
  BY <1>2, <1>3 DEF Once, Sound
<1>6. /\ t \in State /\ Once(t) /\ SameSplash(v, t)
      /\ t.deactivators = {} /\ t.inactive
      /\ t.quitters = v.quitters /\ t.aborted = v.aborted
      /\ t.devices = v.devices /\ t.exiting = v.exiting
      /\ t.keyboards = v.keyboards
      /\ t.tty = v.tty /\ t.attached = v.attached
  BY <1>3, <1>5, CompleteDeactivateAnswers
<1> HIDE DEF t
<1>7. SameSplash(s, t)
  BY <1>2, <1>3, <1>6 DEF SameSplash
<1>8. Released(t)
  BY <1>3, <1>6, <1>7 DEF Released, SameSplash
<1>9. Exits(t)
  BY <1>2, <1>3, <1>6, <1>7 DEF Sound, Exits, SameSplash, Framed, Dark
<1> QED BY <1>1, <1>2, <1>3, <1>4, <1>6, <1>7, <1>8, <1>9 DEF Sound, SameSplash

(* A request for idleness on a daemon whose requests wait for it.           *)
LEMMA BecomeIdleIsAwaited ==
    ASSUME NEW s \in State, NEW animates \in BOOLEAN, Sound(s), ~s.exiting,
           s.idle # "none" => s.becomingIdle,
           s.quitters \union s.deactivators # {}
    PROVE  LET t == BecomeIdle(s, animates)
           IN  /\ t \in State /\ Safe(t)
               /\ t.output = s.output /\ t.fault = s.fault
               /\ t.quitters = s.quitters /\ t.deactivators = s.deactivators
<1> DEFINE a == s.aborted \/ s.idle \in {"animating", "lost"}
           i == IF animates /\ UsesPixelDisplays(s)
                THEN "animating" ELSE "timer"
           t == [s EXCEPT !.becomingIdle = TRUE, !.aborted = a, !.idle = i]
<1>1. CASE s.becomingIdle
  <2>1. BecomeIdle(s, animates) = s
    BY <1>1 DEF BecomeIdle
  <2> QED BY <2>1, <1>1 DEF Safe, Awaited
<1>2. CASE ~s.becomingIdle
  <2>1. a \in BOOLEAN /\ ~a /\ i \in Idle
    BY <1>2 DEF Idle, Sound
  <2>2. /\ t \in State
        /\ t.becomingIdle = TRUE /\ t.output = s.output /\ t.fault = s.fault
    <3> HIDE DEF a, i
    <3> QED BY <2>1, ZenonT(60) DEF State
  <2>3. /\ t.quitters = s.quitters /\ t.deactivators = s.deactivators
        /\ t.pulled = s.pulled /\ t.inactive = s.inactive
        /\ t.aborted = a /\ t.exiting = s.exiting /\ t.paused = s.paused
        /\ t.devices = s.devices /\ t.splash = s.splash
        /\ t.frames = s.frames /\ t.tty = s.tty /\ t.attached = s.attached
        /\ t.keyboards = s.keyboards
    <3> HIDE DEF a, i
    <3> QED BY DEF State
  <2>4. BecomeIdle(s, animates) = t
    BY <1>2 DEF BecomeIdle
  <2> HIDE DEF t, a
  <2>5. Once(t)
    BY <2>3 DEF Once, Sound
  <2>6. Released(t) /\ Exits(t)
    BY <2>3 DEF Released, Exits, Sound, Framed, Dark
  <2> QED BY <2>1, <2>2, <2>3, <2>4, <2>5, <2>6 DEF Safe, Sound, Awaited
<1> QED BY <1>1, <1>2

(* on_boot_splash_idle and handle_quit end the program this way.            *)
EndProgram(s) ==
    QuitProgram(QuitSplash(IF s.retain THEN s ELSE HideSplash(s)))

(* What a program that ends guarantees.                                     *)
Ends(s, t) ==
    /\ t \in State /\ ~t.aborted /\ t.exiting
    /\ t.output => s.output
    /\ t.fault => ~t.output
    /\ t.fault \/ Sound(t)
    /\ t.idle \in {s.idle, "none"} /\ t.becomingIdle = s.becomingIdle

LEMMA DarkProgramEnds ==
    ASSUME NEW s \in State, Once(s), ~s.aborted, ~s.fault, s.devices,
           s.inactive => s.paused,
           NEW t, Quiet(s, t), Dark(t), ~t.attached, t.frames # "on" \/ t.fault
    PROVE  Ends(s, QuitProgram(t))
<1> DEFINE u == QuitProgram(t)
<1>1. /\ t \in State /\ SameRequests(s, t)
      /\ t.idle \in {s.idle, "none"} /\ (t.output => s.output)
      /\ t.fault => ~t.output
  BY DEF Quiet, SameRequests
<1>2. Once(t)
  BY <1>1 DEF Once, SameRequests
<1>3. /\ u \in State /\ SameSplash(t, u) /\ u.exiting /\ u.aborted = t.aborted
      /\ t.frames # "on" => Sound(u)
  BY <1>1, <1>2, QuitProgramEnds DEF SameRequests
<1> HIDE DEF u
<1>4. t.fault \/ Sound(u)
  BY <1>3
<1> QED BY <1>1, <1>3, <1>4 DEF Ends, SameRequests, SameSplash, u

LEMMA EndProgramEnds ==
    ASSUME NEW s \in State, Once(s), ~s.aborted, ~s.fault, s.devices,
           s.inactive => s.paused, Framed(s)
    PROVE  Ends(s, EndProgram(s))
<1> DEFINE h == IF s.retain THEN s ELSE HideSplash(s)
           t == QuitSplash(h)
<1>1. Gentle(s, h)
  BY GentleReflexive, HideSplashIsGentle
<1>2. h \in State /\ h.devices /\ (Framed(h) \/ h.fault)
  <2> HIDE DEF h
  <2> QED BY <1>1 DEF Gentle, Quiet, SameRequests, Undangled
<1> HIDE DEF h
<1>3. /\ Quiet(h, t) /\ Dark(t) /\ ~t.attached
      /\ Framed(h) => t.frames # "on" \/ t.fault
  BY <1>2, QuitSplashIsQuiet
<1> HIDE DEF t
<1>4. Quiet(s, t) /\ (t.frames # "on" \/ t.fault)
  BY <1>1, <1>2, <1>3, QuietTransitive DEF Gentle, Quiet
<1> QED BY <1>3, <1>4, DarkProgramEnds DEF EndProgram, h, t

LEMMA DumpAndQuitEnds ==
    ASSUME NEW s \in State, Once(s), ~s.aborted, ~s.fault, s.devices,
           s.inactive => s.paused, Framed(s)
    PROVE  Ends(s, QuitProgram(DumpDetailsAndQuitSplash(s)))
<1> DEFINE t == DumpDetailsAndQuitSplash(s)
<1>1. Gentle(s, t) /\ Dark(t) /\ ~t.attached
  BY DumpDetailsAndQuitSplashIsQuiet
<1> HIDE DEF t
<1>2. t.frames # "on" \/ t.fault
  BY <1>1 DEF Gentle, Undangled, Framed, Dark
<1> QED BY <1>1, <1>2, DarkProgramEnds DEF Gentle, t

-----------------------------------------------------------------------------
(* The handlers.                                                            *)

LEMMA FaultKeeps ==
    ASSUME NEW s \in State, Safe(s), ~s.fault, s.exiting \/ ~s.devices
    PROVE  Keeps(s, Fault(s))
<1> DEFINE t == Fault(s)
<1>1. /\ t \in State /\ t.fault /\ t.aborted = s.aborted
      /\ t.output = s.output
      /\ t.quitters = s.quitters /\ t.deactivators = s.deactivators
  BY ZenonT(60) DEF Fault, State
<1> HIDE DEF t
<1> QED BY <1>1 DEF Keeps, Answers, Safe, Sound, Exits, t

LEMMA HandleHideSplashKeeps ==
    ASSUME NEW s \in State, Safe(s), ~s.fault
    PROVE  Keeps(s, HandleHideSplash(s))
<1> DEFINE t == [s EXCEPT !.retain = TRUE]
<1>1. Gentle(s, t) /\ t \in State
  BY SettingIsGentle DEF Gentle, Quiet
<1>2. Framed(t)
  <2>1. t.splash = s.splash /\ t.frames = s.frames
    BY DEF State
  <2> HIDE DEF t
  <2> QED BY <2>1 DEF Framed, Safe, Sound, Exits
<1>3. HandleHideSplash(s) \in {s, DumpDetailsAndQuitSplash(t)}
  BY DEF HandleHideSplash
<1> HIDE DEF t
<1>4. Gentle(s, DumpDetailsAndQuitSplash(t))
  BY <1>1, <1>2, DumpDetailsAndQuitSplashIsQuiet, GentleTransitive
<1> QED BY <1>3, <1>4, GentleReflexive, GentleKeeps

LEMMA HandleReloadKeeps ==
    ASSUME NEW s \in State, Safe(s), ~s.fault, NEW r \in Outcome
    PROVE  Keeps(s, HandleReload(s, r))
<1> DEFINE f == IF s.splash # "none" THEN "off" ELSE s.frames
           u == [s EXCEPT !.frames = f]
           t == FreeSplash(u)
<1>1. f \in Frames /\ f # "on" /\ f \in {"off", s.frames}
  BY DEF Frames, State, Safe, Sound, Exits, Framed
<1>2. Gentle(s, u) /\ u \in State /\ u.frames = f
  <2> HIDE DEF f
  <2>1. u \in State
    BY <1>1 DEF State
  <2>2. SameRequests(s, u) /\ SameRest(s, u)
    BY DEF SameRequests, SameRest, State
  <2>3. u.frames = f /\ u.splash = s.splash /\ u.keyboards = s.keyboards
    BY DEF State
  <2> HIDE DEF u
  <2> QED BY <1>1, <2>1, <2>2, <2>3
          DEF Gentle, Quiet, SameRequests, SameRest, Undangled, Framed, Dark
<1> HIDE DEF u
<1>3. Gentle(s, t) /\ t \in State
  <2>1. Gentle(u, t)
    BY <1>1, <1>2, FreeSplashIsQuiet
  <2> HIDE DEF t
  <2> QED BY <1>2, <2>1, GentleTransitive DEF Gentle, Quiet
<1>4. HandleReload(s, r) \in
          {t, ShowDetailedSplash(t), ShowDefaultSplash(t, r)}
  BY DEF HandleReload, u
<1> HIDE DEF t
<1> QED BY <1>3, <1>4, ShowDetailedSplashIsGentle, ShowDefaultSplashIsGentle,
        GentleTransitive, GentleKeeps

LEMMA HandleAskForPasswordKeeps ==
    ASSUME NEW s \in State, Safe(s), ~s.fault, NEW r \in Outcome
    PROVE  Keeps(s, HandleAskForPassword(s, r))
<1> DEFINE t == CancelPendingShow(s)
           u == IF t.displays THEN ShowSplash(t, r) ELSE t
<1>1. Gentle(s, t) /\ t \in State
  BY CancelPendingShowIsGentle DEF Gentle, Quiet
<1> HIDE DEF t
<1>2. Gentle(t, u)
  BY <1>1, GentleReflexive, ShowSplashIsGentle
<1> HIDE DEF u
<1>3. Gentle(s, OnDevices(t, u))
  BY <1>1, <1>2, OnDevicesIsGentle, GentleTransitive
<1>4. HandleAskForPassword(s, r) \in {s, OnDevices(t, u)}
  BY DEF HandleAskForPassword, t, u
<1> QED BY <1>3, <1>4, GentleReflexive, GentleKeeps

LEMMA HandleChangeModeKeeps ==
    ASSUME NEW s \in State, Safe(s), ~s.fault,
           NEW m \in Mode, NEW forgets \in BOOLEAN
    PROVE  Keeps(s, HandleChangeMode(s, m, forgets))
<1> DEFINE i == IF s.idle = "animating" /\ m # s.mode /\ forgets
                THEN "lost" ELSE s.idle
           t == [s EXCEPT !.mode = m, !.idle = i]
<1>1. i \in Idle /\ (i # "none" => s.idle # "none")
  BY DEF Idle, State
<1>2. HandleChangeMode(s, m, forgets) = t
  BY DEF HandleChangeMode
<1>3. /\ t \in State /\ SameRequests(s, t)
      /\ t.idle = i /\ t.splash = s.splash /\ t.frames = s.frames
      /\ t.keyboards = s.keyboards /\ t.tty = s.tty
      /\ t.attached = s.attached /\ t.output = s.output /\ t.fault = s.fault
  <2> HIDE DEF i
  <2>1. t \in State
    BY <1>1, ZenonT(60) DEF State
  <2>2. SameRequests(s, t)
    BY DEF SameRequests, State
  <2>3. /\ t.idle = i /\ t.splash = s.splash /\ t.frames = s.frames
        /\ t.keyboards = s.keyboards /\ t.tty = s.tty
        /\ t.attached = s.attached /\ t.output = s.output /\ t.fault = s.fault
    BY DEF State
  <2> QED BY <2>1, <2>2, <2>3
<1> HIDE DEF t, i
<1>4. Once(t) /\ Released(t) /\ Exits(t) /\ Awaited(t)
  BY <1>1, <1>3 DEF SameRequests, Safe, Sound, Once, Released, Exits, Awaited,
     Framed, Dark
<1> QED BY <1>2, <1>3, <1>4 DEF Keeps, Answers, Safe, Sound, SameRequests

(* plymouthd_attach_session on an active daemon.                            *)
LEMMA AttachSessionKeeps ==
    ASSUME NEW s \in State, Safe(s), ~s.fault, ~s.inactive, ~s.exiting,
           NEW succeeds \in BOOLEAN
    PROVE  Keeps(s, AttachSession(s, succeeds))
<1> DEFINE o == s.output /\ succeeds
           t == [s EXCEPT !.terminal = succeeds, !.attached = succeeds,
                          !.output = o]
<1>1. o \in BOOLEAN /\ (o => s.output)
  OBVIOUS
<1>2. AttachSession(s, succeeds) = t
  BY DEF AttachSession
<1>3. /\ t \in State /\ SameRequests(s, t)
      /\ t.idle = s.idle /\ t.splash = s.splash /\ t.frames = s.frames
      /\ t.keyboards = s.keyboards /\ t.tty = s.tty
      /\ t.output = o /\ t.fault = s.fault
  <2> HIDE DEF o
  <2>1. t \in State
    BY <1>1, ZenonT(60) DEF State
  <2>2. SameRequests(s, t)
    BY DEF SameRequests, State
  <2>3. /\ t.idle = s.idle /\ t.splash = s.splash /\ t.frames = s.frames
        /\ t.keyboards = s.keyboards /\ t.tty = s.tty
        /\ t.output = o /\ t.fault = s.fault
    BY DEF State
  <2> QED BY <2>1, <2>2, <2>3
<1> HIDE DEF t, o
<1>4. Once(t) /\ Released(t) /\ Exits(t) /\ Awaited(t)
  BY <1>3 DEF SameRequests, Safe, Sound, Once, Released, Exits, Awaited,
     Framed, Dark
<1> QED BY <1>1, <1>2, <1>3, <1>4
        DEF Keeps, Answers, Safe, Sound, SameRequests

LEMMA HandleShowSplashKeeps ==
    ASSUME NEW s \in State, Safe(s), ~s.fault,
           NEW attaches \in BOOLEAN, NEW r \in Outcome
    PROVE  Keeps(s, HandleShowSplash(s, attaches, r))
<1> DEFINE t == [s EXCEPT !.shown = TRUE]
           a == AttachSession(t, attaches)
           u == IF ~t.attached /\ t.shouldAttach /\ t.displays THEN a ELSE t
           v == IF u.displays THEN ShowSplash(u, r) ELSE u
           q == [s EXCEPT !.retain = TRUE]
<1>1. /\ Gentle(s, t) /\ t \in State /\ t.fault = s.fault
      /\ Gentle(s, q) /\ q \in State
      /\ q.splash = s.splash /\ q.frames = s.frames
  <2>1. /\ t.fault = s.fault
        /\ q.splash = s.splash /\ q.frames = s.frames
    BY DEF State
  <2>2. Gentle(s, t) /\ Gentle(s, q)
    BY SettingIsGentle
  <2> QED BY <2>1, <2>2 DEF Gentle, Quiet
<1>2. HandleShowSplash(s, attaches, r) \in
          {s, DumpDetailsAndQuitSplash(q), OnDevices(s, v)}
      /\ (s.inactive => HandleShowSplash(s, attaches, r) = s)
  BY DEF HandleShowSplash
<1>3. Keeps(s, s)
  BY GentleReflexive, GentleKeeps
<1>4. Keeps(s, DumpDetailsAndQuitSplash(q))
  <2>1. Framed(q)
    BY <1>1 DEF Framed, Safe, Sound, Exits
  <2> HIDE DEF q
  <2> QED BY <1>1, <2>1, DumpDetailsAndQuitSplashIsQuiet, GentleTransitive,
          GentleKeeps
<1>5. CASE ~s.devices
  <2>1. OnDevices(s, v) = Fault(s)
    BY <1>5 DEF OnDevices
  <2> HIDE DEF v, q
  <2> QED BY <1>2, <1>3, <1>4, <1>5, <2>1, FaultKeeps
<1>6. CASE s.devices /\ ~s.inactive
  <2>1. OnDevices(s, v) = v
    BY <1>6 DEF OnDevices
  <2>2. /\ t.output = s.output /\ ~t.inactive /\ ~t.exiting /\ ~t.fault
        /\ s.exiting = t.exiting
        /\ s.quitters = t.quitters /\ s.deactivators = t.deactivators
    BY <1>6 DEF State, Safe, Sound, Exits
  <2>3. Safe(t)
    <3> HIDE DEF t
    <3> QED BY <1>1, <2>2, GentleKeeps DEF Keeps
  <2>4. Keeps(t, u) /\ ~u.fault /\ u.exiting = t.exiting
        /\ u.quitters = t.quitters /\ u.deactivators = t.deactivators
    <3>1. /\ a.fault = t.fault /\ a.exiting = t.exiting
          /\ a.quitters = t.quitters /\ a.deactivators = t.deactivators
      <4> HIDE DEF t
      <4> QED BY <1>1 DEF AttachSession, State
    <3> HIDE DEF t, a
    <3> QED BY <1>1, <2>2, <2>3, <3>1, AttachSessionKeeps, GentleReflexive,
            GentleKeeps DEF a
  <2>5. Keeps(u, v)
    <3> HIDE DEF u
    <3> QED BY <2>4, ShowSplashIsGentle, GentleReflexive, GentleKeeps DEF Keeps
  <2>6. Keeps(s, v)
    <3> HIDE DEF t, u, v
    <3> QED BY <2>2, <2>4, <2>5 DEF Keeps, Answers
  <2> HIDE DEF v, q
  <2> QED BY <1>2, <1>3, <1>4, <2>1, <2>6
<1> QED BY <1>2, <1>3, <1>5, <1>6

LEMMA HandleReactivateKeeps ==
    ASSUME NEW s \in State, Safe(s), ~s.fault,
           NEW opens \in BOOLEAN, NEW attaches \in BOOLEAN,
           NEW found \in BOOLEAN, NEW r \in Outcome
    PROVE  Keeps(s, HandleReactivate(s, opens, attaches, found, r))
<1> DEFINE y == s.tty \/ opens
           t == [s EXCEPT !.tty = y]
           a == AttachSession(t, attaches)
           u == IF t.terminal /\ t.shouldAttach THEN a ELSE t
           p == u.renderers \/ UsesPixelDisplays(u)
           v == [u EXCEPT !.keyboards = TRUE, !.renderers = p,
                          !.paused = FALSE]
           w == IF v.deviceTimeout /\ found THEN HandleDisplayAdded(v, r)
                ELSE v
           z == [w EXCEPT !.inactive = FALSE]
<1>1. CASE ~s.inactive
  BY <1>1, GentleReflexive, GentleKeeps DEF HandleReactivate
<1>2. CASE ~s.devices
  BY <1>2, <1>1, FaultKeeps DEF HandleReactivate, OnDevices
<1>3. CASE s.inactive /\ s.devices
  <2>1. y \in BOOLEAN
    OBVIOUS
  <2>2. /\ t \in State /\ SameRequests(s, t)
        /\ t.idle = s.idle /\ t.splash = s.splash /\ t.frames = s.frames
        /\ t.output = s.output /\ t.fault = s.fault
    <3> HIDE DEF y
    <3>1. t \in State
      BY <2>1 DEF State
    <3>2. SameRequests(s, t)
      BY DEF SameRequests, State
    <3>3. /\ t.idle = s.idle /\ t.splash = s.splash /\ t.frames = s.frames
          /\ t.output = s.output /\ t.fault = s.fault
      BY DEF State
    <3> QED BY <3>1, <3>2, <3>3
  <2> HIDE DEF t
  <2>3. /\ a \in State /\ SameRequests(t, a)
        /\ a.idle = t.idle /\ a.splash = t.splash /\ a.frames = t.frames
        /\ (a.output => t.output) /\ a.fault = t.fault
    <3> DEFINE o == t.output /\ attaches
               b == [t EXCEPT !.terminal = attaches, !.attached = attaches,
                              !.output = o]
    <3>1. a = b
      BY DEF AttachSession
    <3>2. o \in BOOLEAN /\ (o => t.output)
      OBVIOUS
    <3> HIDE DEF o
    <3>3. b \in State
      BY <2>2, <3>2, ZenonT(60) DEF State
    <3>4. SameRequests(t, b)
      BY <2>2 DEF SameRequests, State
    <3>5. /\ b.idle = t.idle /\ b.splash = t.splash /\ b.frames = t.frames
          /\ b.output = o /\ b.fault = t.fault
      BY <2>2 DEF State
    <3> HIDE DEF a, b
    <3> QED BY <3>1, <3>2, <3>3, <3>4, <3>5
  <2> HIDE DEF a
  <2>4. /\ u \in State /\ SameRequests(s, u)
        /\ u.idle = s.idle /\ u.splash = s.splash /\ u.frames = s.frames
        /\ (u.output => s.output) /\ u.fault = s.fault
    BY <2>2, <2>3 DEF SameRequests
  <2> HIDE DEF u
  <2>5. p \in BOOLEAN
    OBVIOUS
  <2>6. /\ v \in State
        /\ v.quitters = s.quitters /\ v.deactivators = s.deactivators
        /\ v.pulled = s.pulled /\ v.becomingIdle = s.becomingIdle
        /\ v.aborted = s.aborted /\ v.exiting = s.exiting
        /\ v.devices = s.devices
        /\ v.idle = s.idle /\ v.splash = s.splash /\ v.frames = s.frames
        /\ (v.output => s.output) /\ v.fault = s.fault
    <3> HIDE DEF p
    <3>1. v \in State
      BY <2>4, <2>5, ZenonT(60) DEF State
    <3>2. /\ v.quitters = u.quitters /\ v.deactivators = u.deactivators
          /\ v.pulled = u.pulled /\ v.becomingIdle = u.becomingIdle
          /\ v.aborted = u.aborted /\ v.exiting = u.exiting
          /\ v.devices = u.devices
          /\ v.idle = u.idle /\ v.splash = u.splash /\ v.frames = u.frames
          /\ v.output = u.output /\ v.fault = u.fault
      BY <2>4 DEF State
    <3> HIDE DEF v
    <3> QED BY <3>1, <3>2, <2>4 DEF SameRequests
  <2> HIDE DEF v
  <2>7. Gentle(v, w)
    BY <2>6, GentleReflexive, HandleDisplayAddedIsGentle
  <2> HIDE DEF w
  <2>8. w \in State
    BY <2>7 DEF Gentle, Quiet
  <2>9. /\ z \in State /\ z.inactive = FALSE
        /\ z.quitters = w.quitters /\ z.deactivators = w.deactivators
        /\ z.pulled = w.pulled /\ z.becomingIdle = w.becomingIdle
        /\ z.aborted = w.aborted /\ z.exiting = w.exiting
        /\ z.devices = w.devices
        /\ z.idle = w.idle /\ z.splash = w.splash /\ z.frames = w.frames
        /\ z.output = w.output /\ z.fault = w.fault
    BY <2>8, ZenonT(60) DEF State
  <2>10. HandleReactivate(s, opens, attaches, found, r) = z
    BY <1>3 DEF HandleReactivate, OnDevices, w, v, u, a, t
  <2> HIDE DEF z
  <2>11. /\ z.quitters = s.quitters /\ z.deactivators = s.deactivators
         /\ z.pulled = s.pulled /\ z.becomingIdle = s.becomingIdle
         /\ z.aborted = s.aborted /\ z.exiting = s.exiting
         /\ z.devices = s.devices /\ z.idle \in {s.idle, "none"}
         /\ (z.output => s.output) /\ (z.fault => ~z.output)
    BY <1>3, <2>6, <2>7, <2>9 DEF Gentle, Quiet, SameRequests
  <2>12. z.fault \/ Framed(z)
    BY <2>6, <2>7, <2>9 DEF Gentle, Undangled, Framed, Safe, Sound, Exits
  <2>13. z.fault \/ z.frames # "dangling"
    BY <1>3, <2>6, <2>7, <2>9 DEF Gentle, Undangled, Framed, Safe, Sound, Exits
  <2>14. Once(z) /\ Released(z) /\ Awaited(z)
    BY <1>3, <2>9, <2>11 DEF Once, Released, Awaited, Safe, Sound
  <2>15. z.fault \/ Exits(z)
    BY <1>3, <2>11, <2>12, <2>13 DEF Exits, Safe, Sound
  <2> QED BY <2>9, <2>10, <2>11, <2>14, <2>15 DEF Keeps, Answers, Safe, Sound
<1> QED BY <1>1, <1>2, <1>3

LEMMA HandleDeactivateKeeps ==
    ASSUME NEW s \in State, Safe(s), ~s.fault,
           NEW t \in Trigger, NEW animates \in BOOLEAN,
           t \notin s.quitters \union s.deactivators, s.pulled[t] = 0
    PROVE  Keeps(s, HandleDeactivate(s, t, animates))
<1> DEFINE D == s.deactivators \union {t}
           q == [s EXCEPT !.deactivators = D]
           c == CancelPendingShow(q)
           u == [c EXCEPT !.paused = TRUE, !.keyboards = FALSE]
<1>1. CASE s.inactive
  <2> DEFINE d == [s EXCEPT !.attached = FALSE, !.tty = FALSE]
             p == Pull(OnDevices(s, d), {t})
  <2>1. HandleDeactivate(s, t, animates) = p
    BY <1>1 DEF HandleDeactivate, DeactivateConsole
  <2>2. Gentle(s, d)
    <3>1. /\ d \in State /\ d.idle = s.idle /\ d.output = s.output
          /\ d.fault = s.fault /\ d.splash = s.splash /\ d.frames = s.frames
          /\ d.keyboards = s.keyboards /\ d.tty = FALSE /\ d.attached = FALSE
      BY ZenonT(60) DEF State
    <3>2. SameRequests(s, d)
      BY DEF SameRequests, State
    <3> HIDE DEF d
    <3> QED BY <3>1, <3>2 DEF Gentle, Quiet, SameRequests, Undangled, Framed,
            Dark
  <2> DEFINE o == OnDevices(s, d)
  <2> HIDE DEF d
  <2>3. Keeps(s, o) /\ o \in State /\ SameRequests(s, o)
    BY <2>2, OnDevicesIsGentle, GentleKeeps DEF Gentle, Quiet
  <2> HIDE DEF o
  <2>4. /\ p \in State
        /\ \A r \in Trigger : p.pulled[r] =
               IF r \in {t} /\ o.pulled[r] < 2
               THEN o.pulled[r] + 1 ELSE o.pulled[r]
        /\ p = [o EXCEPT !.pulled = p.pulled]
    <3>1. p = Pull(o, {t}) /\ {t} \in SUBSET Trigger
      BY DEF o
    <3> HIDE DEF p
    <3> QED BY <2>3, <3>1, PullSetsPulled
  <2>5. /\ SameSplash(o, p)
        /\ p.quitters = o.quitters /\ p.deactivators = o.deactivators
        /\ p.inactive = o.inactive /\ p.aborted = o.aborted
        /\ p.devices = o.devices /\ p.exiting = o.exiting
        /\ p.keyboards = o.keyboards /\ p.tty = o.tty
        /\ p.attached = o.attached
    <3> HIDE DEF p
    <3> QED BY <2>3, <2>4 DEF SameSplash, State
  <2> HIDE DEF p
  <2>6. Once(p)
    <3> SUFFICES ASSUME NEW r \in Trigger
                 PROVE  /\ p.pulled[r] <= 1
                        /\ r \in o.quitters \union o.deactivators
                               => p.pulled[r] = 0
                        /\ ~(r \in o.quitters /\ r \in o.deactivators)
      BY <2>5 DEF Once
    <3>1. /\ o.quitters = s.quitters /\ o.deactivators = s.deactivators
          /\ o.pulled = s.pulled
      BY <2>3 DEF SameRequests
    <3> QED BY <2>4, <3>1 DEF Safe, Sound, Once
  <2>7. o.fault \/ (Released(p) /\ Exits(p) /\ Awaited(p))
    BY <2>3, <2>5 DEF Keeps, Safe, Sound, Released, Exits, Awaited, SameSplash,
       Framed, Dark
  <2> QED BY <2>1, <2>3, <2>4, <2>5, <2>6, <2>7
          DEF Keeps, Answers, Safe, Sound, SameSplash
<1>2. /\ q \in State
      /\ D \in SUBSET Trigger /\ D # {}
      /\ q.deactivators = D /\ q.quitters = s.quitters
      /\ q.pulled = s.pulled /\ q.inactive = s.inactive
      /\ q.becomingIdle = s.becomingIdle /\ q.aborted = s.aborted
      /\ q.exiting = s.exiting /\ q.paused = s.paused
      /\ q.devices = s.devices /\ q.idle = s.idle /\ q.tty = s.tty
      /\ q.attached = s.attached /\ q.output = s.output
      /\ q.fault = s.fault /\ q.splash = s.splash /\ q.frames = s.frames
      /\ q.keyboards = s.keyboards
  <2>1. D \in SUBSET Trigger /\ D # {}
    BY DEF State
  <2> HIDE DEF D
  <2>2. q \in State
    BY <2>1 DEF State
  <2>3. /\ q.deactivators = D /\ q.quitters = s.quitters
        /\ q.pulled = s.pulled /\ q.inactive = s.inactive
        /\ q.becomingIdle = s.becomingIdle /\ q.aborted = s.aborted
        /\ q.exiting = s.exiting /\ q.paused = s.paused
        /\ q.devices = s.devices /\ q.idle = s.idle /\ q.tty = s.tty
        /\ q.attached = s.attached /\ q.output = s.output
        /\ q.fault = s.fault /\ q.splash = s.splash /\ q.frames = s.frames
        /\ q.keyboards = s.keyboards
    BY DEF State
  <2> QED BY <2>1, <2>2, <2>3
<1> HIDE DEF q
<1>3. Once(q)
  BY <1>2 DEF Once, Safe, Sound
<1>4. CASE ~s.inactive /\ s.deactivators # {}
  <2>1. HandleDeactivate(s, t, animates) = q
    BY <1>4 DEF HandleDeactivate, q
  <2>2. Released(q) /\ Exits(q) /\ Awaited(q)
    BY <1>2, <1>4 DEF Safe, Sound, Released, Exits, Awaited, Framed, Dark
  <2>3. Answers(s, q)
    BY <1>2 DEF Answers
  <2> QED BY <1>2, <1>3, <2>1, <2>2, <2>3 DEF Keeps, Safe, Sound
<1>5. CASE ~s.inactive /\ s.deactivators = {} /\ ~s.devices
  BY <1>5, FaultKeeps DEF HandleDeactivate, OnDevices
<1>6. CASE ~s.inactive /\ s.deactivators = {} /\ s.devices
  <2>1. /\ c \in State /\ SameRequests(q, c)
        /\ c.deactivators = D /\ c.idle = q.idle /\ c.tty = q.tty
        /\ c.attached = q.attached /\ c.output = q.output
        /\ c.fault = q.fault /\ c.splash = q.splash /\ c.frames = q.frames
    <3>1. c \in State
      BY <1>2 DEF CancelPendingShow, State, Delay
    <3>2. SameRequests(q, c)
      BY <1>2 DEF SameRequests, CancelPendingShow, State
    <3>3. /\ c.idle = q.idle /\ c.tty = q.tty
          /\ c.attached = q.attached /\ c.output = q.output
          /\ c.fault = q.fault /\ c.splash = q.splash /\ c.frames = q.frames
      BY <1>2 DEF CancelPendingShow, State
    <3> QED BY <1>2, <3>1, <3>2, <3>3 DEF SameRequests
  <2> HIDE DEF c, D
  <2>2. /\ u \in State /\ u.paused = TRUE /\ u.keyboards = FALSE
        /\ u.quitters = c.quitters /\ u.deactivators = c.deactivators
        /\ u.pulled = c.pulled /\ u.inactive = c.inactive
        /\ u.becomingIdle = c.becomingIdle /\ u.aborted = c.aborted
        /\ u.exiting = c.exiting /\ u.devices = c.devices
        /\ u.idle = c.idle /\ u.tty = c.tty
        /\ u.attached = c.attached /\ u.output = c.output
        /\ u.fault = c.fault /\ u.splash = c.splash /\ u.frames = c.frames
    BY <2>1, ZenonT(60) DEF State
  <2>3. HandleDeactivate(s, t, animates) =
            IF u.splash # "none" THEN BecomeIdle(u, animates)
            ELSE DeactivateSplash(u)
    BY <1>6 DEF HandleDeactivate, OnDevices, u, c, q, D
  <2> HIDE DEF u
  <2>4. /\ u.quitters = s.quitters /\ u.deactivators = D /\ u.pulled = s.pulled
        /\ u.inactive = s.inactive /\ u.becomingIdle = s.becomingIdle
        /\ u.aborted = s.aborted /\ u.exiting = s.exiting
        /\ u.devices = s.devices /\ u.idle = s.idle /\ u.tty = s.tty
        /\ u.attached = s.attached /\ u.output = s.output
        /\ u.fault = s.fault /\ u.splash = s.splash /\ u.frames = s.frames
    BY <1>2, <2>1, <2>2 DEF SameRequests
  <2>5. /\ Sound(u) /\ ~u.exiting /\ ~u.inactive /\ u.devices /\ u.paused
        /\ (u.idle # "none" => u.becomingIdle)
    <3>1. Once(u)
      BY <1>2, <1>3, <2>4 DEF Once
    <3>2. Exits(u) /\ ~u.exiting
      BY <1>6, <2>2, <2>4 DEF Exits, Safe, Sound, Framed
    <3>3. Released(u)
      BY <1>6, <2>2, <2>4 DEF Released
    <3>4. u.idle # "none" => u.becomingIdle
      BY <2>4 DEF Safe, Awaited
    <3> QED BY <1>6, <2>2, <2>4, <3>1, <3>2, <3>3, <3>4 DEF Safe, Sound
  <2>6. CASE u.splash # "none"
    <3>1. u.quitters \union u.deactivators # {}
      BY <1>2, <2>4
    <3> QED BY <1>6, <2>2, <2>3, <2>4, <2>5, <2>6, <3>1, BecomeIdleIsAwaited
            DEF Keeps, Answers, Safe, Sound
  <2>7. CASE u.splash = "none"
    <3> DEFINE v == DeactivateSplash(u)
    <3>1. /\ v \in State /\ Sound(v)
          /\ v.idle = u.idle /\ v.becomingIdle = u.becomingIdle
          /\ v.output = u.output /\ v.fault = u.fault
          /\ v.quitters = u.quitters /\ v.inactive
      BY <2>2, <2>5, DeactivateSplashReleases
    <3> HIDE DEF v
    <3>2. Awaited(v)
      BY <1>6, <2>4, <3>1 DEF Awaited, Safe, Sound, Exits
    <3> QED BY <2>3, <2>4, <2>7, <3>1, <3>2
            DEF Keeps, Answers, Safe, Sound, v
  <2> QED BY <2>6, <2>7
<1> QED BY <1>1, <1>4, <1>5, <1>6

LEMMA KeyboardsOffSetsTwoFields ==
    ASSUME NEW q \in State, NEW b \in BOOLEAN
    PROVE  LET u == [q EXCEPT !.retain = b, !.keyboards = FALSE]
           IN  /\ u \in State
               /\ u.quitters = q.quitters /\ u.deactivators = q.deactivators
               /\ u.pulled = q.pulled /\ u.inactive = q.inactive
               /\ u.becomingIdle = q.becomingIdle /\ u.aborted = q.aborted
               /\ u.exiting = q.exiting /\ u.paused = q.paused
               /\ u.devices = q.devices /\ u.idle = q.idle /\ u.tty = q.tty
               /\ u.attached = q.attached /\ u.output = q.output
               /\ u.fault = q.fault /\ u.splash = q.splash
               /\ u.frames = q.frames
<1> DEFINE u == [q EXCEPT !.retain = b, !.keyboards = FALSE]
<1>1. u \in State
  BY ZenonT(60) DEF State
<1>2. /\ u.quitters = q.quitters /\ u.deactivators = q.deactivators
      /\ u.pulled = q.pulled /\ u.inactive = q.inactive
      /\ u.becomingIdle = q.becomingIdle /\ u.aborted = q.aborted
      /\ u.exiting = q.exiting /\ u.paused = q.paused
      /\ u.devices = q.devices /\ u.idle = q.idle /\ u.tty = q.tty
      /\ u.attached = q.attached /\ u.output = q.output
      /\ u.fault = q.fault /\ u.splash = q.splash
      /\ u.frames = q.frames
  BY DEF State
<1> QED BY <1>1, <1>2

LEMMA HandleQuitKeeps ==
    ASSUME NEW s \in State, Safe(s), ~s.fault, NEW retains \in BOOLEAN,
           NEW t \in Trigger, NEW animates \in BOOLEAN,
           t \notin s.quitters \union s.deactivators, s.pulled[t] = 0
    PROVE  Keeps(s, HandleQuit(s, retains, t, animates))
<1> DEFINE Q == s.quitters \union {t}
           q == [s EXCEPT !.quitters = Q]
           u == [q EXCEPT !.retain = retains, !.keyboards = FALSE]
<1>1. CASE s.exiting
  <2>1. ~s.devices /\ s.quitters = {}
    BY <1>1 DEF Safe, Sound, Exits
  <2> QED BY <2>1, FaultKeeps DEF HandleQuit, OnDevices
<1>2. CASE ~s.exiting
  <2>1. /\ q \in State
        /\ Q \in SUBSET Trigger /\ Q # {}
        /\ q.quitters = Q /\ q.deactivators = s.deactivators
        /\ q.pulled = s.pulled /\ q.inactive = s.inactive
        /\ q.becomingIdle = s.becomingIdle /\ q.aborted = s.aborted
        /\ q.exiting = s.exiting /\ q.paused = s.paused
        /\ q.devices = s.devices /\ q.idle = s.idle /\ q.tty = s.tty
        /\ q.attached = s.attached /\ q.output = s.output
        /\ q.fault = s.fault /\ q.splash = s.splash /\ q.frames = s.frames
    <3>1. Q \in SUBSET Trigger /\ Q # {}
      BY DEF State
    <3> HIDE DEF Q
    <3>2. q \in State
      BY <3>1 DEF State
    <3>3. /\ q.quitters = Q /\ q.deactivators = s.deactivators
          /\ q.pulled = s.pulled /\ q.inactive = s.inactive
          /\ q.becomingIdle = s.becomingIdle /\ q.aborted = s.aborted
          /\ q.exiting = s.exiting /\ q.paused = s.paused
          /\ q.devices = s.devices /\ q.idle = s.idle /\ q.tty = s.tty
          /\ q.attached = s.attached /\ q.output = s.output
          /\ q.fault = s.fault /\ q.splash = s.splash /\ q.frames = s.frames
      BY DEF State
    <3> QED BY <3>1, <3>2, <3>3
  <2> HIDE DEF q
  <2>2. /\ u \in State
        /\ u.quitters = q.quitters /\ u.deactivators = q.deactivators
        /\ u.pulled = q.pulled /\ u.inactive = q.inactive
        /\ u.becomingIdle = q.becomingIdle /\ u.aborted = q.aborted
        /\ u.exiting = q.exiting /\ u.paused = q.paused
        /\ u.devices = q.devices /\ u.idle = q.idle /\ u.tty = q.tty
        /\ u.attached = q.attached /\ u.output = q.output
        /\ u.fault = q.fault /\ u.splash = q.splash /\ u.frames = q.frames
    BY <2>1, KeyboardsOffSetsTwoFields
  <2>3. HandleQuit(s, retains, t, animates) =
            IF s.quitters # {} THEN q
            ELSE OnDevices(s,
                IF u.inactive /\ ~retains
                THEN QuitProgram(DumpDetailsAndQuitSplash(u))
                ELSE IF u.splash # "none" THEN BecomeIdle(u, animates)
                ELSE EndProgram(u))
    <3>1. EndProgram(u) = QuitProgram(QuitSplash(
                              IF u.retain THEN u ELSE HideSplash(u)))
      BY DEF EndProgram
    <3> QED BY <3>1 DEF HandleQuit, q
  <2> HIDE DEF u, Q
  <2>4. Once(q) /\ Once(u)
    BY <2>1, <2>2 DEF Once, Safe, Sound, Q
  <2>5. /\ Released(q) /\ Exits(q) /\ Awaited(q)
        /\ Released(u) /\ Exits(u) /\ Awaited(u)
    BY <1>2, <2>1, <2>2
       DEF Safe, Sound, Released, Exits, Awaited, Framed, Dark
  <2>6. CASE s.quitters # {}
    BY <2>1, <2>3, <2>4, <2>5, <2>6 DEF Keeps, Answers, Safe, Sound, Q
  <2>7. CASE s.quitters = {} /\ ~s.devices
    BY <2>3, <2>7, FaultKeeps DEF OnDevices
  <2>8. CASE s.quitters = {} /\ s.devices
    <3>1. HandleQuit(s, retains, t, animates) \in
              {QuitProgram(DumpDetailsAndQuitSplash(u)),
               BecomeIdle(u, animates), EndProgram(u)}
      BY <2>3, <2>8 DEF OnDevices
    <3>2. \A v : Ends(u, v) => Keeps(s, v)
      <4> SUFFICES ASSUME NEW v, Ends(u, v) PROVE Keeps(s, v)
        OBVIOUS
      <4>1. v.fault \/ Awaited(v)
        BY <2>5 DEF Ends, Awaited
      <4> QED BY <2>1, <2>2, <4>1 DEF Ends, Keeps, Answers, Safe
    <3>3. Sound(u) /\ ~u.aborted /\ ~u.fault /\ u.devices /\ Framed(u)
          /\ (u.inactive => u.paused)
      BY <2>1, <2>2, <2>4, <2>5, <2>8
         DEF Safe, Sound, Exits, Released
    <3>4. Ends(u, EndProgram(u))
      BY <2>2, <2>4, <3>3, EndProgramEnds
    <3>5. Ends(u, QuitProgram(DumpDetailsAndQuitSplash(u)))
      BY <2>2, <2>4, <3>3, DumpAndQuitEnds
    <3>6. Keeps(s, BecomeIdle(u, animates))
      <4>1. /\ u.quitters \union u.deactivators # {} /\ ~u.exiting
            /\ u.idle # "none" => u.becomingIdle
        BY <1>2, <2>1, <2>2, <2>5 DEF Awaited
      <4> QED BY <2>1, <2>2, <3>3, <4>1, BecomeIdleIsAwaited
              DEF Keeps, Answers, Safe, Sound, Q
    <3> QED BY <3>1, <3>2, <3>4, <3>5, <3>6
  <2> QED BY <2>6, <2>7, <2>8
<1> QED BY <1>1, <1>2

LEMMA OnBootSplashIdleKeeps ==
    ASSUME NEW s \in State, Safe(s), ~s.fault
    PROVE  Keeps(s, OnBootSplashIdle(s))
<1> DEFINE t == [s EXCEPT !.idle = "none"]
           u == IF t.quitters # {} THEN EndProgram(t)
                ELSE IF t.deactivators # {} THEN DeactivateSplash(t)
                ELSE t
           v == [u EXCEPT !.becomingIdle = FALSE]
<1>1. /\ t \in State /\ SameRequests(s, t)
      /\ t.idle = "none" /\ t.splash = s.splash /\ t.frames = s.frames
      /\ t.keyboards = s.keyboards /\ t.tty = s.tty
      /\ t.attached = s.attached /\ t.output = s.output /\ t.fault = s.fault
  <2>1. t \in State
    BY DEF State, Idle
  <2>2. SameRequests(s, t)
    BY DEF SameRequests, State
  <2>3. /\ t.idle = "none" /\ t.splash = s.splash /\ t.frames = s.frames
        /\ t.keyboards = s.keyboards /\ t.tty = s.tty
        /\ t.attached = s.attached /\ t.output = s.output
        /\ t.fault = s.fault
    BY DEF State
  <2> QED BY <2>1, <2>2, <2>3
<1>2. OnBootSplashIdle(s) = v
  <2>1. EndProgram(t) = QuitProgram(QuitSplash(
                            IF t.retain THEN t ELSE HideSplash(t)))
    BY DEF EndProgram
  <2> QED BY <2>1 DEF OnBootSplashIdle
<1> HIDE DEF t
<1>3. Sound(t)
  BY <1>1 DEF Safe, Sound, Once, Released, Exits, SameRequests, Framed, Dark
<1>4. /\ u \in State /\ ~u.aborted /\ u.idle = "none"
      /\ u.output => s.output
      /\ u.fault => ~u.output
      /\ u.fault \/ Sound(u)
      /\ Answers(s, u)
  <2>1. CASE t.quitters # {}
    <3>1. t.devices /\ ~t.fault /\ ~t.aborted /\ Framed(t)
          /\ (t.inactive => t.paused) /\ Once(t)
      BY <1>1, <1>3, <2>1 DEF Sound, Exits, Released
    <3>2. Ends(t, EndProgram(t))
      BY <1>1, <3>1, EndProgramEnds
    <3> QED BY <1>1, <2>1, <3>2 DEF Ends, Answers
  <2>2. CASE t.quitters = {} /\ t.deactivators # {}
    <3>1. t.devices /\ t.paused /\ ~t.inactive
      BY <1>3, <2>2 DEF Sound, Exits, Released
    <3> QED BY <1>1, <1>3, <2>2, <3>1, DeactivateSplashReleases
            DEF Sound, Answers, SameRequests
  <2>3. CASE t.quitters = {} /\ t.deactivators = {}
    BY <1>1, <1>3, <2>3 DEF Sound, Answers, SameRequests
  <2> QED BY <2>1, <2>2, <2>3
<1> HIDE DEF u
<1>5. /\ v \in State /\ v.becomingIdle = FALSE
      /\ v.quitters = u.quitters /\ v.deactivators = u.deactivators
      /\ v.pulled = u.pulled /\ v.inactive = u.inactive
      /\ v.aborted = u.aborted /\ v.exiting = u.exiting
      /\ v.paused = u.paused /\ v.devices = u.devices
      /\ v.idle = u.idle /\ v.splash = u.splash /\ v.frames = u.frames
      /\ v.keyboards = u.keyboards /\ v.tty = u.tty
      /\ v.attached = u.attached /\ v.output = u.output /\ v.fault = u.fault
  BY <1>4, ZenonT(60) DEF State
<1> HIDE DEF v
<1>6. u.fault \/ (Once(v) /\ Released(v) /\ Exits(v))
  BY <1>4, <1>5 DEF Sound, Once, Released, Exits, Framed, Dark
<1>7. Awaited(v)
  BY <1>4, <1>5 DEF Awaited
<1> QED BY <1>2, <1>4, <1>5, <1>6, <1>7 DEF Keeps, Answers, Safe, Sound

LEMMA DelayPassesKeeps ==
    ASSUME NEW s \in State, Safe(s), ~s.fault, NEW d \in Delay
    PROVE  Keeps(s, [s EXCEPT !.delay = d])
<1> DEFINE t == [s EXCEPT !.delay = d]
<1>1. t \in State
  BY DEF State
<1>2. SameRequests(s, t)
  BY DEF SameRequests, State
<1>3. SameRest(s, t) /\ t.splash = s.splash /\ t.frames = s.frames
      /\ t.keyboards = s.keyboards
  BY DEF SameRest, State
<1> HIDE DEF t
<1>4. Gentle(s, t)
  BY <1>1, <1>2, <1>3 DEF Gentle, Quiet, SameRequests, SameRest, Undangled,
     Framed, Dark
<1> QED BY <1>4, GentleKeeps DEF t

LEMMA OnPluginIdleKeeps ==
    ASSUME NEW s \in State, Safe(s), ~s.fault, s.idle = "animating"
    PROVE  Keeps(s, [s EXCEPT !.idle = "timer"])
<1> DEFINE t == [s EXCEPT !.idle = "timer"]
<1>1. t \in State
  BY DEF State, Idle
<1>2. SameRequests(s, t)
  BY DEF SameRequests, State
<1>3. /\ t.idle = "timer" /\ t.splash = s.splash /\ t.frames = s.frames
      /\ t.keyboards = s.keyboards /\ t.tty = s.tty
      /\ t.attached = s.attached /\ t.output = s.output /\ t.fault = s.fault
  BY DEF State
<1> HIDE DEF t
<1>4. Once(t) /\ Released(t) /\ Exits(t) /\ Awaited(t)
  BY <1>2, <1>3 DEF SameRequests, Safe, Sound, Once, Released, Exits, Awaited,
     Framed, Dark
<1> QED BY <1>1, <1>2, <1>3, <1>4
        DEF Keeps, Answers, Safe, Sound, SameRequests, t

LEMMA OnDeviceTimeoutKeeps ==
    ASSUME NEW s \in State, Safe(s), ~s.fault,
           NEW found \in BOOLEAN, NEW r \in Outcome
    PROVE  LET t == [s EXCEPT !.deviceTimeout = TRUE]
           IN  Keeps(s, IF found /\ ~t.paused
                        THEN HandleDisplayAdded(t, r) ELSE t)
<1> DEFINE t == [s EXCEPT !.deviceTimeout = TRUE]
<1>1. Gentle(s, t) /\ t \in State
  BY SettingIsGentle DEF Gentle, Quiet
<1> HIDE DEF t
<1>2. Gentle(s, HandleDisplayAdded(t, r))
  BY <1>1, HandleDisplayAddedIsGentle, GentleTransitive
<1> QED BY <1>1, <1>2, GentleKeeps DEF t

-----------------------------------------------------------------------------
(* The inductive invariant, and the theorems.                               *)

IInv ==
    /\ TypeOK
    /\ Safe(daemon)
    /\ FaultsOnlyAtExit
    /\ daemon.fault => phase = "crashed"
    /\ phase = "stopped" => daemon.exiting

LEMMA InitIInv == Init => IInv
<1> SUFFICES ASSUME Init PROVE IInv
  OBVIOUS
<1>1. daemon \in State /\ phase = "timeouts"
  BY DEF Init, State, Splash, Idle, Frames, Delay
<1>2. /\ daemon.quitters = {} /\ daemon.deactivators = {}
      /\ daemon.pulled = [t \in Trigger |-> 0]
      /\ ~daemon.becomingIdle /\ ~daemon.inactive /\ daemon.idle = "none"
      /\ daemon.frames = "off" /\ daemon.devices
      /\ ~daemon.exiting /\ ~daemon.fault /\ ~daemon.aborted
  BY DEF Init
<1>3. Once(daemon)
  <2>1. \A t \in Trigger : daemon.pulled[t] = 0
    BY <1>2
  <2>2. daemon.quitters = {} /\ daemon.deactivators = {}
    BY <1>2
  <2> SUFFICES ASSUME NEW t \in Trigger PROVE daemon.pulled[t] <= 1
    BY <2>2 DEF Once
  <2>3. daemon.pulled[t] = 0
    BY <2>1
  <2> QED BY <2>3
<1>4. Released(daemon) /\ Exits(daemon) /\ Awaited(daemon)
  BY <1>2 DEF Released, Exits, Framed, Awaited
<1> QED BY <1>1, <1>2, <1>3, <1>4
        DEF IInv, TypeOK, Phase, Safe, Sound, FaultsOnlyAtExit

(* Whatever a handler keeps, the daemon keeps, crashed or not.              *)
LEMMA BecomesKeeps ==
    ASSUME IInv, ~daemon.fault, NEW t, Keeps(daemon, t), Becomes(t)
    PROVE  /\ daemon' \in State /\ Safe(daemon)' /\ FaultsOnlyAtExit'
           /\ daemon'.fault = t.fault
           /\ ~t.fault => daemon' = t
           /\ Answers(daemon, daemon')
<1>1. CASE t.fault
  <2> DEFINE d == [daemon EXCEPT !.fault = t.fault, !.aborted = t.aborted,
                                 !.output = t.output]
  <2>1. daemon \in State /\ t \in State /\ ~daemon.aborted /\ ~t.aborted
    BY DEF IInv, TypeOK, Safe, Sound, Keeps
  <2>2. daemon' = d
    BY <1>1 DEF Becomes, Crashes
  <2>3. d \in State
    BY <2>1, ZenonT(60) DEF State
  <2>4. SameRequests(daemon, d)
    BY <2>1 DEF SameRequests, State
  <2>5. /\ d.idle = daemon.idle /\ d.tty = daemon.tty
        /\ d.attached = daemon.attached /\ d.splash = daemon.splash
        /\ d.frames = daemon.frames /\ d.keyboards = daemon.keyboards
        /\ d.fault = t.fault /\ d.output = t.output
    BY <2>1 DEF State
  <2> HIDE DEF d
  <2>6. Safe(d)
    BY <2>4, <2>5 DEF IInv, Safe, Sound, Once, Released, Exits, Awaited,
       Framed, Dark, SameRequests
  <2>7. d.fault => d.exiting \/ ~d.output
    BY <2>4, <2>5 DEF Keeps, SameRequests
  <2>8. Safe(daemon)'
    BY <2>2, <2>6 DEF Safe, Sound, Once, Released, Exits, Awaited, Framed, Dark
  <2>9. Answers(daemon, d)
    BY <2>4 DEF Answers, SameRequests
  <2> QED BY <1>1, <2>2, <2>3, <2>5, <2>7, <2>8, <2>9 DEF FaultsOnlyAtExit
<1>2. CASE ~t.fault
  <2>1. daemon' = t
    BY <1>2 DEF Becomes, Crashes, Keeps
  <2>2. Safe(daemon)'
    BY <1>2, <2>1 DEF Keeps, Safe, Sound, Once, Released, Exits, Awaited,
       Framed, Dark
  <2> QED BY <1>2, <2>1, <2>2 DEF Keeps, FaultsOnlyAtExit
<1> QED BY <1>1, <1>2

LEMMA TimeoutKeeps ==
    ASSUME IInv, NEW t, Timeout(t), ~daemon.fault => Keeps(daemon, t)
    PROVE  IInv' /\ Answers(daemon, daemon')
<1>1. ~daemon.fault /\ Becomes(t) /\ phase = "timeouts"
  BY DEF Timeout, IInv
<1>2. Keeps(daemon, t)
  BY <1>1
<1>3. /\ daemon' \in State /\ Safe(daemon)' /\ FaultsOnlyAtExit'
      /\ daemon'.fault = t.fault /\ Answers(daemon, daemon')
  BY <1>1, <1>2, BecomesKeeps
<1>4. phase' = IF t.fault THEN "crashed" ELSE "timeouts"
  BY <1>1, <1>2 DEF Timeout, Crashes, Keeps
<1> QED BY <1>3, <1>4 DEF IInv, TypeOK, Phase

LEMMA EventKeeps ==
    ASSUME IInv, NEW t, Event(t), ~daemon.fault => Keeps(daemon, t)
    PROVE  IInv' /\ Answers(daemon, daemon')
<1>1. ~daemon.fault /\ Becomes(t) /\ phase = "events"
  BY DEF Event, IInv
<1>2. Keeps(daemon, t)
  BY <1>1
<1>3. /\ daemon' \in State /\ Safe(daemon)' /\ FaultsOnlyAtExit'
      /\ daemon'.fault = t.fault /\ Answers(daemon, daemon')
      /\ ~t.fault => daemon' = t
  BY <1>1, <1>2, BecomesKeeps
<1>4. phase' = IF t.fault THEN "crashed"
               ELSE IF t.exiting THEN "stopped" ELSE "events"
  BY <1>1, <1>2 DEF Event, Crashes, Keeps
<1> QED BY <1>3, <1>4 DEF IInv, TypeOK, Phase

LEMMA StutterKeeps ==
    ASSUME IInv, UNCHANGED daemon, phase' \in Phase,
           phase' = "stopped" => daemon.exiting,
           phase = "crashed" => phase' = "crashed"
    PROVE  IInv' /\ Answers(daemon, daemon')
<1>1. Safe(daemon)'
  BY DEF IInv, Safe, Sound, Once, Released, Exits, Awaited, Framed, Dark
<1> QED BY <1>1 DEF IInv, TypeOK, FaultsOnlyAtExit, Answers

LEMMA DisturbancesKeep ==
    ASSUME IInv, Disturbances
    PROVE  IInv' /\ Answers(daemon, daemon')
<1>1. daemon \in State /\ Safe(daemon)
  BY DEF IInv, TypeOK
<1>2. CASE HideRequest
  BY <1>1, <1>2, HandleHideSplashKeeps, EventKeeps DEF HideRequest
<1>3. ASSUME NEW r \in Outcome, ReloadRequest(r)
      PROVE  IInv' /\ Answers(daemon, daemon')
  BY <1>1, <1>3, HandleReloadKeeps, EventKeeps DEF ReloadRequest
<1>4. ASSUME NEW r \in Outcome, OnEscapePressed(r)
      PROVE  IInv' /\ Answers(daemon, daemon')
  BY <1>1, <1>4, ToggleDetailsIsGentle, GentleKeeps, EventKeeps
     DEF OnEscapePressed
<1>5. ASSUME NEW m \in Mode, NEW forgets \in BOOLEAN,
             ChangeModeRequest(m, forgets)
      PROVE  IInv' /\ Answers(daemon, daemon')
  BY <1>1, <1>5, HandleChangeModeKeeps, EventKeeps DEF ChangeModeRequest
<1>6. ASSUME NEW attaches \in BOOLEAN, NEW r \in Outcome,
             ShowRequest(attaches, r)
      PROVE  IInv' /\ Answers(daemon, daemon')
  BY <1>1, <1>6, HandleShowSplashKeeps, EventKeeps DEF ShowRequest
<1> QED BY <1>2, <1>3, <1>4, <1>5, <1>6 DEF Disturbances

LEMMA OtherEventsKeep ==
    ASSUME IInv, OtherEvents
    PROVE  IInv' /\ Answers(daemon, daemon')
<1>1. daemon \in State /\ Safe(daemon)
  BY DEF IInv, TypeOK
<1>2. ASSUME NEW r \in Outcome, PasswordRequest(r)
      PROVE  IInv' /\ Answers(daemon, daemon')
  BY <1>1, <1>2, HandleAskForPasswordKeeps, EventKeeps DEF PasswordRequest
<1>3. ASSUME NEW r \in Outcome, OnDisplayAdded(r)
      PROVE  IInv' /\ Answers(daemon, daemon')
  BY <1>1, <1>3, HandleDisplayAddedIsGentle, GentleKeeps, EventKeeps
     DEF OnDisplayAdded
<1>4. ASSUME NEW left \in BOOLEAN, OnDisplayRemoved(left)
      PROVE  IInv' /\ Answers(daemon, daemon')
  BY <1>1, <1>4, SettingIsGentle, GentleKeeps, EventKeeps
     DEF OnDisplayRemoved
<1>5. ASSUME NEW opens \in BOOLEAN, NEW attaches \in BOOLEAN,
             NEW found \in BOOLEAN, NEW r \in Outcome,
             ReactivateRequest(opens, attaches, found, r)
      PROVE  IInv' /\ Answers(daemon, daemon')
  BY <1>1, <1>5, HandleReactivateKeeps, EventKeeps DEF ReactivateRequest
<1>6. ASSUME NEW t \in Trigger, NEW animates \in BOOLEAN,
             DeactivateRequest(t, animates)
      PROVE  IInv' /\ Answers(daemon, daemon')
  BY <1>1, <1>6, HandleDeactivateKeeps, EventKeeps
     DEF DeactivateRequest, Unused
<1>7. ASSUME NEW t \in Trigger, NEW animates \in BOOLEAN,
             NEW retains \in BOOLEAN,
             Unused(t), Event(HandleQuit(daemon, retains, t, animates))
      PROVE  IInv' /\ Answers(daemon, daemon')
  BY <1>1, <1>7, HandleQuitKeeps, EventKeeps DEF Unused
<1>8. ASSUME NEW t \in Trigger, NEW animates \in BOOLEAN,
             OnTermSignal(t, animates)
      PROVE  IInv' /\ Answers(daemon, daemon')
  <2> DEFINE b == daemon.mode \in PowerOff /\ ~daemon.inactive
                      /\ UsesPixelDisplays(daemon)
  <2>1. b \in BOOLEAN
    OBVIOUS
  <2>2. Unused(t) /\ Event(HandleQuit(daemon, b, t, animates))
    BY <1>8 DEF OnTermSignal
  <2> HIDE DEF b
  <2> QED BY <2>1, <2>2, <1>7
<1> QED BY <1>2, <1>3, <1>4, <1>5, <1>6, <1>7, <1>8
        DEF OtherEvents, QuitRequest

LEMMA TimeoutsKeep ==
    ASSUME IInv, Timeouts
    PROVE  IInv' /\ Answers(daemon, daemon')
<1>1. daemon \in State /\ Safe(daemon)
  BY DEF IInv, TypeOK
<1>2. CASE DelayPasses
  <2> DEFINE d == IF daemon.delay = "scheduled" THEN "overdue" ELSE "over"
  <2>1. d \in Delay /\ ~daemon.fault /\ daemon' = [daemon EXCEPT !.delay = d]
    BY <1>2 DEF DelayPasses, Delay, IInv
  <2> HIDE DEF d
  <2>2. Keeps(daemon, daemon')
    BY <1>1, <2>1, DelayPassesKeeps
  <2>3. ~daemon'.fault
    BY <1>1, <2>1 DEF State
  <2>4. Becomes(daemon') /\ phase' = phase
    BY <1>2, <2>2, <2>3 DEF DelayPasses, Becomes, Crashes, Keeps
  <2>5. /\ daemon' \in State /\ Safe(daemon)' /\ FaultsOnlyAtExit'
        /\ Answers(daemon, daemon')
    BY <2>1, <2>2, <2>4, BecomesKeeps
  <2> QED BY <1>2, <2>3, <2>4, <2>5 DEF DelayPasses, IInv, TypeOK
<1>3. CASE OnIdleTimeout
  BY <1>1, <1>3, OnBootSplashIdleKeeps, TimeoutKeeps DEF OnIdleTimeout
<1>4. CASE OnPluginIdle
  BY <1>1, <1>4, OnPluginIdleKeeps, TimeoutKeeps DEF OnPluginIdle
<1>5. CASE OnNewFrame
  <2>1. daemon.exiting /\ Timeout(Fault(daemon))
    BY <1>1, <1>5 DEF OnNewFrame, Safe, Sound, Exits
  <2> QED BY <1>1, <2>1, FaultKeeps, TimeoutKeeps
<1>6. ASSUME NEW r \in Outcome, OnSplashDelayElapsed(r)
      PROVE  IInv' /\ Answers(daemon, daemon')
  <2> DEFINE t == CancelPendingShow(daemon)
  <2>1. Gentle(daemon, t) /\ t \in State
    BY <1>1, CancelPendingShowIsGentle DEF Gentle, Quiet
  <2>2. Timeout(ShowSplash(t, r))
    BY <1>6 DEF OnSplashDelayElapsed
  <2> HIDE DEF t
  <2>3. Gentle(daemon, ShowSplash(t, r))
    BY <1>1, <2>1, ShowSplashIsGentle, GentleTransitive
  <2> QED BY <1>1, <2>2, <2>3, GentleKeeps, TimeoutKeeps
<1>7. ASSUME NEW found \in BOOLEAN, NEW r \in Outcome,
             OnDeviceTimeout(found, r)
      PROVE  IInv' /\ Answers(daemon, daemon')
  <2> DEFINE s == [daemon EXCEPT !.deviceTimeout = TRUE]
             t == IF found /\ ~s.paused THEN HandleDisplayAdded(s, r) ELSE s
  <2>1. Timeout(t)
    BY <1>7 DEF OnDeviceTimeout
  <2>2. ~daemon.fault => Keeps(daemon, t)
    BY <1>1, OnDeviceTimeoutKeeps
  <2> HIDE DEF t
  <2> QED BY <2>1, <2>2, TimeoutKeeps
<1> QED BY <1>2, <1>3, <1>4, <1>5, <1>6, <1>7 DEF Timeouts

LEMMA NextIInv ==
    ASSUME IInv, [Next]_vars
    PROVE  IInv' /\ Answers(daemon, daemon')
<1>1. CASE EndTimeouts
  <2>1. UNCHANGED daemon /\ phase' = "events" /\ phase = "timeouts"
    BY <1>1 DEF EndTimeouts
  <2> QED BY <2>1, StutterKeeps DEF Phase
<1>2. CASE EndEvents
  <2>1. /\ UNCHANGED daemon /\ phase = "events"
        /\ phase' = IF daemon.exiting THEN "stopped" ELSE "timeouts"
    BY <1>2 DEF EndEvents
  <2> QED BY <2>1, StutterKeeps DEF Phase
<1>3. CASE Finished \/ UNCHANGED vars
  <2>1. UNCHANGED daemon /\ phase' = phase
    BY <1>3 DEF Finished, vars
  <2> QED BY <2>1, StutterKeeps DEF IInv, TypeOK
<1> QED BY <1>1, <1>2, <1>3, TimeoutsKeep, DisturbancesKeep, OtherEventsKeep
        DEF Next

LEMMA SpecIInv == Spec => []IInv
<1>1. Init => IInv
  BY InitIInv
<1>2. IInv /\ [Next]_vars => IInv'
  BY NextIInv
<1> QED BY <1>1, <1>2, PTL DEF Spec

(* Every state of the daemon is a record of the declared fields: no handler *)
(* enters an unknown mode or pulls a trigger nobody made.                   *)
THEOREM DaemonTypes == Spec => []TypeOK
<1>1. IInv => TypeOK
  BY DEF IInv
<1> QED BY <1>1, SpecIInv, PTL

(* However many clients ask the daemon to quit and to deactivate, in        *)
(* whatever order, each is answered at most once.                           *)
THEOREM EachRequestAnsweredOnce == Spec => []RequestsAnsweredOnce
<1>1. IInv => RequestsAnsweredOnce
  BY DEF IInv, Safe, Sound, Once, RequestsAnsweredOnce
<1> QED BY <1>1, SpecIInv, PTL

(* The asserts of ply_boot_splash_become_idle and deactivate_splash hold.   *)
THEOREM AssertsHold == Spec => []NoAssertFails
<1>1. IInv => NoAssertFails
  BY DEF IInv, Safe, Sound, NoAssertFails
<1> QED BY <1>1, SpecIInv, PTL

(* becoming_idle records exactly the idle requests somebody waits for.      *)
THEOREM IdlenessIsAwaited == Spec => []IdleIsAwaited
<1>1. IInv => IdleIsAwaited
  BY DEF IInv, Safe, Awaited, IdleIsAwaited
<1> QED BY <1>1, SpecIInv, PTL

(* An inactive daemon has let go of the console.                            *)
THEOREM InactivityReleasesConsole == Spec => []InactiveReleasesConsole
<1>1. IInv => InactiveReleasesConsole
  BY DEF IInv, Safe, Sound, Released, InactiveReleasesConsole
<1> QED BY <1>1, SpecIInv, PTL

(* A stale pointer is followed only in the last pass of the loop, or after  *)
(* a failed attach.                                                         *)
THEOREM FaultsAreLate == Spec => []FaultsOnlyAtExit
<1>1. IInv => FaultsOnlyAtExit
  BY DEF IInv
<1> QED BY <1>1, SpecIInv, PTL

(* A loop that stopped leaves nobody waiting and nothing displayed.         *)
THEOREM ExitsAreClean == Spec => []ExitIsClean
<1>1. IInv => ExitIsClean
  BY DEF IInv, Safe, Sound, Exits, Dark, ExitIsClean
<1> QED BY <1>1, SpecIInv, PTL

(* All of this together: what a run of the control plane must never lose.   *)
THEOREM ControlPlaneIsSafe == Spec => []ControlIsSafe
<1>1. ControlIsSafe <=> /\ TypeOK
                        /\ RequestsAnsweredOnce
                        /\ NoAssertFails
                        /\ IdleIsAwaited
                        /\ InactiveReleasesConsole
                        /\ FaultsOnlyAtExit
                        /\ ExitIsClean
  BY DEF ControlIsSafe
<1> QED BY <1>1, DaemonTypes, EachRequestAnsweredOnce, AssertsHold, IdlenessIsAwaited,
           InactivityReleasesConsole, FaultsAreLate, ExitsAreClean, PTL

(* Nobody is told that the daemon quit, or let go of the console, before it *)
(* did.                                                                     *)
THEOREM AnswersTellTheTruth == Spec => AnswersAreTrue
<1>1. ASSUME IInv, [Next]_vars
      PROVE  [ /\ ~(daemon.quitters \subseteq daemon'.quitters)
                     => daemon'.exiting /\ daemon'.splash = "none"
               /\ ~(daemon.deactivators \subseteq daemon'.deactivators)
                     => daemon'.exiting
                        \/ (daemon'.inactive /\ ~daemon'.tty
                                /\ ~daemon'.attached) ]_vars
  <2>1. IInv' /\ Answers(daemon, daemon')
    BY <1>1, NextIInv
  <2> QED BY <2>1 DEF IInv, Answers, Safe, Sound, Exits, Released, Dark
<1> QED BY <1>1, SpecIInv, PTL DEF Spec, AnswersAreTrue

-----------------------------------------------------------------------------
(* TransitionService on states of the daemon.                               *)

Status(s) == IF s.exiting THEN "gone"
             ELSE IF s.inactive THEN "inactive" ELSE "active"

SameService(s, t) ==
    /\ t.quitters = s.quitters /\ t.deactivators = s.deactivators
    /\ t.pulled = s.pulled /\ Status(t) = Status(s)

Told(s, t, A) ==
    t.pulled = [r \in Trigger |->
                    IF r \in A THEN s.pulled[r] + 1 ELSE s.pulled[r]]

Fresh(s, r) == r \notin s.quitters \union s.deactivators /\ s.pulled[r] = 0

Callers(s) == {{}} \union {{r} : r \in {q \in Trigger : Fresh(s, q)}}

QueuesQuit(s, t, r) ==
    /\ Status(s) # "gone" /\ Fresh(s, r)
    /\ t.quitters = s.quitters \union {r}
    /\ t.deactivators = s.deactivators /\ t.pulled = s.pulled
    /\ Status(t) = Status(s)

QueuesDeactivate(s, t, r) ==
    /\ Status(s) = "active" /\ Fresh(s, r)
    /\ t.deactivators = s.deactivators \union {r}
    /\ t.quitters = s.quitters /\ t.pulled = s.pulled
    /\ Status(t) = Status(s)

Deactivates(s, t, new) ==
    /\ Status(s) = "active" /\ s.deactivators \union new # {}
    /\ Status(t) = "inactive" /\ t.deactivators = {}
    /\ Told(s, t, s.deactivators \union new)
    /\ t.quitters = s.quitters

Confirms(s, t, r) ==
    /\ Status(s) = "inactive" /\ Fresh(s, r)
    /\ Told(s, t, {r})
    /\ t.quitters = s.quitters /\ t.deactivators = s.deactivators
    /\ Status(t) = Status(s)

Reactivates(s, t) ==
    /\ Status(s) = "inactive" /\ Status(t) = "active"
    /\ t.quitters = s.quitters /\ t.deactivators = s.deactivators
    /\ t.pulled = s.pulled

Quits(s, t, new) ==
    /\ Status(s) # "gone" /\ s.quitters \union new # {}
    /\ Status(t) = "gone" /\ t.quitters = {} /\ t.deactivators = {}
    /\ Told(s, t, s.quitters \union s.deactivators \union new)

Serves(s, t) ==
    \/ SameService(s, t)
    \/ Reactivates(s, t)
    \/ \E r \in Trigger :
           QueuesQuit(s, t, r) \/ QueuesDeactivate(s, t, r) \/ Confirms(s, t, r)
    \/ \E new \in Callers(s) : Deactivates(s, t, new) \/ Quits(s, t, new)

LEMMA SameRequestsServe ==
    ASSUME NEW s, NEW t, SameRequests(s, t)
    PROVE  SameService(s, t) /\ Serves(s, t)
BY DEF SameRequests, SameService, Serves, Status

(* A step of the service may be followed by changes it does not see.        *)
LEMMA ServesSame ==
    ASSUME NEW s, NEW t, NEW u, Serves(s, t), SameService(t, u)
    PROVE  Serves(s, u)
BY DEF Serves, SameService, Reactivates, QueuesQuit, QueuesDeactivate,
       Confirms, Deactivates, Quits, Told

LEMMA GentleServes ==
    ASSUME NEW s, NEW t, Gentle(s, t) \/ Quiet(s, t)
    PROVE  SameRequests(s, t) /\ Serves(s, t)
BY SameRequestsServe DEF Gentle, Quiet

LEMMA FaultServes ==
    ASSUME NEW s \in State
    PROVE  SameRequests(s, Fault(s)) /\ Serves(s, Fault(s))
<1>1. SameRequests(s, Fault(s))
  BY DEF Fault, SameRequests, State
<1> QED BY <1>1, SameRequestsServe

-----------------------------------------------------------------------------
(* The helpers that answer.                                                 *)

LEMMA PullTells ==
    ASSUME NEW s \in State, NEW A \in SUBSET Trigger,
           \A r \in A : s.pulled[r] = 0
    PROVE  Told(s, Pull(s, A), A)
<1> DEFINE f == [r \in Trigger |-> IF r \in A /\ s.pulled[r] < 2
                                   THEN s.pulled[r] + 1 ELSE s.pulled[r]]
           g == [r \in Trigger |-> IF r \in A THEN s.pulled[r] + 1
                                   ELSE s.pulled[r]]
<1>1. Pull(s, A) = [s EXCEPT !.pulled = f]
  BY DEF Pull
<1>2. f = g
  <2>1. \A r \in Trigger : r \in A => s.pulled[r] < 2
    OBVIOUS
  <2> QED BY <2>1
<1>3. [s EXCEPT !.pulled = f].pulled = f
  <2> HIDE DEF f
  <2> QED BY DEF State
<1>4. Pull(s, A).pulled = g
  <2> HIDE DEF f, g
  <2> QED BY <1>1, <1>2, <1>3
<1> QED BY <1>4 DEF Told

LEMMA CompleteDeactivateTells ==
    ASSUME NEW s \in State, Once(s)
    PROVE  Told(s, CompleteDeactivate(s), s.deactivators)
<1> DEFINE p == Pull(s, s.deactivators)
           t == [p EXCEPT !.inactive = TRUE, !.deactivators = {}]
<1>1. s.deactivators \in SUBSET Trigger
  BY DEF State
<1>2. \A r \in s.deactivators : s.pulled[r] = 0
  BY <1>1 DEF Once
<1>3. Told(s, p, s.deactivators) /\ p \in State
  BY <1>1, <1>2, PullTells, PullSetsPulled
<1>4. t.pulled = p.pulled
  <2> HIDE DEF p
  <2> QED BY <1>3 DEF State
<1>5. CompleteDeactivate(s) = t
  BY DEF CompleteDeactivate
<1> HIDE DEF p, t
<1> QED BY <1>3, <1>4, <1>5 DEF Told

LEMMA CompleteAllTells ==
    ASSUME NEW s \in State, Once(s)
    PROVE  Told(s, CompleteAll(s), s.quitters \union s.deactivators)
<1> DEFINE p == Pull(s, s.deactivators)
           q == Pull(p, s.quitters)
           t == [q EXCEPT !.deactivators = {}, !.quitters = {}]
<1>1. s.deactivators \in SUBSET Trigger /\ s.quitters \in SUBSET Trigger
  BY DEF State
<1>2. \A r \in s.deactivators : s.pulled[r] = 0
  BY <1>1 DEF Once
<1>3. Told(s, p, s.deactivators) /\ p \in State
  BY <1>1, <1>2, PullTells, PullSetsPulled
<1>4. p.quitters = s.quitters
  <2>1. p = [s EXCEPT !.pulled = p.pulled]
    BY <1>1, PullSetsPulled
  <2> HIDE DEF p
  <2> QED BY <2>1 DEF State
<1> HIDE DEF p
<1>5. \A r \in s.quitters : p.pulled[r] = 0
  <2> SUFFICES ASSUME NEW r \in s.quitters PROVE p.pulled[r] = 0
    OBVIOUS
  <2>1. r \in Trigger /\ s.pulled[r] = 0 /\ r \notin s.deactivators
    BY <1>1 DEF Once
  <2> QED BY <1>3, <2>1 DEF Told
<1>6. Told(p, q, s.quitters) /\ q \in State
  BY <1>1, <1>3, <1>5, PullTells, PullSetsPulled
<1>7. t.pulled = q.pulled
  <2> HIDE DEF q
  <2> QED BY <1>6, ZenonT(60) DEF State
<1>8. CompleteAll(s) = t
  BY <1>4 DEF CompleteAll, p
<1> HIDE DEF t, q
<1>9. \A r \in Trigger : r \in s.quitters => r \notin s.deactivators
  BY DEF Once
<1> QED BY <1>3, <1>6, <1>7, <1>8, <1>9 DEF Told

LEMMA QuitProgramTells ==
    ASSUME NEW s \in State, Once(s)
    PROVE  LET t == QuitProgram(s)
           IN  /\ Told(s, t, s.quitters \union s.deactivators)
               /\ t.quitters = {} /\ t.deactivators = {} /\ Status(t) = "gone"
<1> DEFINE u == [s EXCEPT !.devices = FALSE, !.displays = FALSE,
                          !.keyboards = FALSE, !.renderers = FALSE,
                          !.tty = FALSE, !.exiting = TRUE]
           t == CompleteAll(u)
<1>1. u \in State
  BY ZenonT(60) DEF State
<1>2. /\ u.quitters = s.quitters /\ u.deactivators = s.deactivators
      /\ u.pulled = s.pulled /\ u.exiting = TRUE
  BY DEF State
<1>3. QuitProgram(s) = t
  BY DEF QuitProgram
<1> HIDE DEF u
<1>4. Once(u)
  BY <1>2 DEF Once
<1>5. /\ Told(u, t, u.quitters \union u.deactivators)
      /\ t.quitters = {} /\ t.deactivators = {} /\ t.exiting = u.exiting
  BY <1>1, <1>4, CompleteAllTells, CompleteAllAnswers
<1> HIDE DEF t
<1> QED BY <1>2, <1>3, <1>5 DEF Told, Status

LEMMA DeactivateSplashTells ==
    ASSUME NEW s \in State, Once(s), s.devices, ~s.exiting
    PROVE  LET t == DeactivateSplash(s)
           IN  /\ Told(s, t, s.deactivators)
               /\ t.quitters = s.quitters /\ t.deactivators = {}
               /\ Status(t) = "inactive" /\ t \in State
<1> DEFINE a == s.aborted \/ s.inactive
           r == s.renderers /\ ~UsesPixelDisplays(s)
           u == [s EXCEPT !.aborted = a, !.renderers = r]
           v == [u EXCEPT !.attached = FALSE, !.tty = FALSE]
           t == CompleteDeactivate(v)
<1>1. a \in BOOLEAN /\ r \in BOOLEAN
  BY DEF State
<1>2. /\ u \in State
      /\ u.devices = s.devices /\ u.exiting = s.exiting
      /\ u.quitters = s.quitters
      /\ u.deactivators = s.deactivators /\ u.pulled = s.pulled
  <2> HIDE DEF a, r
  <2> QED BY <1>1, ZenonT(60) DEF State
<1>3. DeactivateSplash(s) = t
  <2>1. DeactivateSplash(s) = CompleteDeactivate(DeactivateConsole(u))
    BY DEF DeactivateSplash
  <2>2. DeactivateConsole(u) = v
    <3> HIDE DEF u
    <3> QED BY <1>2 DEF DeactivateConsole, OnDevices
  <2> QED BY <2>1, <2>2
<1> HIDE DEF u
<1>4. /\ v \in State /\ v.exiting = u.exiting
      /\ v.quitters = u.quitters
      /\ v.deactivators = u.deactivators /\ v.pulled = u.pulled
  BY <1>2, ZenonT(60) DEF State
<1> HIDE DEF v
<1>5. Once(v)
  BY <1>2, <1>4 DEF Once
<1>6. /\ t \in State /\ t.deactivators = {} /\ t.inactive
      /\ t.quitters = v.quitters /\ t.exiting = v.exiting
      /\ Told(v, t, v.deactivators)
  BY <1>4, <1>5, CompleteDeactivateAnswers, CompleteDeactivateTells
<1> HIDE DEF t
<1> QED BY <1>2, <1>3, <1>4, <1>6 DEF Told, Status

LEMMA BecomeIdleServes ==
    ASSUME NEW s \in State, NEW animates \in BOOLEAN
    PROVE  SameService(s, BecomeIdle(s, animates))
<1> DEFINE a == s.aborted \/ s.idle \in {"animating", "lost"}
           i == IF animates /\ UsesPixelDisplays(s)
                THEN "animating" ELSE "timer"
           t == [s EXCEPT !.becomingIdle = TRUE, !.aborted = a, !.idle = i]
<1>1. BecomeIdle(s, animates) \in {s, t}
  BY DEF BecomeIdle
<1>2. /\ t.quitters = s.quitters /\ t.deactivators = s.deactivators
      /\ t.pulled = s.pulled /\ t.inactive = s.inactive
      /\ t.exiting = s.exiting
  <2> HIDE DEF a, i
  <2> QED BY DEF State
<1> HIDE DEF t
<1> QED BY <1>1, <1>2 DEF SameService, Status

-----------------------------------------------------------------------------
(* The handlers.                                                            *)

LEMMA HandleHideSplashServes ==
    ASSUME NEW s \in State
    PROVE  Serves(s, HandleHideSplash(s))
<1> DEFINE t == [s EXCEPT !.retain = TRUE]
<1>1. Gentle(s, t) /\ t \in State
  BY SettingIsGentle DEF Gentle, Quiet
<1>2. HandleHideSplash(s) \in {s, DumpDetailsAndQuitSplash(t)}
  BY DEF HandleHideSplash
<1> HIDE DEF t
<1>3. Quiet(s, DumpDetailsAndQuitSplash(t))
  BY <1>1, DumpDetailsAndQuitSplashIsQuiet, QuietTransitive DEF Gentle
<1> QED BY <1>2, <1>3, GentleReflexive, GentleServes

LEMMA HandleReloadServes ==
    ASSUME NEW s \in State, NEW r \in Outcome
    PROVE  Serves(s, HandleReload(s, r))
<1> DEFINE f == IF s.splash # "none" THEN "off" ELSE s.frames
           u == [s EXCEPT !.frames = f]
           t == FreeSplash(u)
<1>1. u \in State /\ SameRequests(s, u)
  <2>1. f \in Frames
    BY DEF Frames, State
  <2> HIDE DEF f
  <2> QED BY <2>1 DEF State, SameRequests
<1> HIDE DEF u
<1>2. SameRequests(s, t) /\ t \in State
  BY <1>1, FreeSplashIsQuiet DEF Quiet, SameRequests
<1>3. HandleReload(s, r) \in
          {t, ShowDetailedSplash(t), ShowDefaultSplash(t, r)}
  BY DEF HandleReload, u
<1> HIDE DEF t
<1>4. /\ SameRequests(t, ShowDetailedSplash(t))
      /\ SameRequests(t, ShowDefaultSplash(t, r))
  BY <1>2, ShowDetailedSplashIsGentle, ShowDefaultSplashIsGentle,
     GentleServes
<1> QED BY <1>2, <1>3, <1>4, SameRequestsServe DEF SameRequests

LEMMA HandleAskForPasswordServes ==
    ASSUME NEW s \in State, NEW r \in Outcome
    PROVE  Serves(s, HandleAskForPassword(s, r))
<1> DEFINE t == CancelPendingShow(s)
           u == IF t.displays THEN ShowSplash(t, r) ELSE t
<1>1. Gentle(s, t) /\ t \in State
  BY CancelPendingShowIsGentle DEF Gentle, Quiet
<1> HIDE DEF t
<1>2. Gentle(t, u)
  BY <1>1, GentleReflexive, ShowSplashIsGentle
<1> HIDE DEF u
<1>3. Gentle(s, OnDevices(t, u))
  BY <1>1, <1>2, OnDevicesIsGentle, GentleTransitive
<1>4. HandleAskForPassword(s, r) \in {s, OnDevices(t, u)}
  BY DEF HandleAskForPassword, t, u
<1> QED BY <1>3, <1>4, GentleReflexive, GentleServes

LEMMA HandleChangeModeServes ==
    ASSUME NEW s \in State, NEW m \in Mode, NEW forgets \in BOOLEAN
    PROVE  Serves(s, HandleChangeMode(s, m, forgets))
<1> DEFINE i == IF s.idle = "animating" /\ m # s.mode /\ forgets
                THEN "lost" ELSE s.idle
           t == [s EXCEPT !.mode = m, !.idle = i]
<1>1. HandleChangeMode(s, m, forgets) = t
  BY DEF HandleChangeMode
<1>2. SameRequests(s, t)
  <2> HIDE DEF i
  <2> QED BY DEF SameRequests, State
<1> QED BY <1>1, <1>2, SameRequestsServe

LEMMA HandleShowSplashServes ==
    ASSUME NEW s \in State, NEW attaches \in BOOLEAN, NEW r \in Outcome
    PROVE  Serves(s, HandleShowSplash(s, attaches, r))
<1> DEFINE t == [s EXCEPT !.shown = TRUE]
           a == AttachSession(t, attaches)
           u == IF ~t.attached /\ t.shouldAttach /\ t.displays THEN a ELSE t
           v == IF u.displays THEN ShowSplash(u, r) ELSE u
           q == [s EXCEPT !.retain = TRUE]
<1>1. /\ t \in State /\ SameRequests(s, t)
      /\ q \in State /\ SameRequests(s, q)
  BY SettingIsGentle, GentleServes DEF Gentle, Quiet
<1>2. HandleShowSplash(s, attaches, r) \in
          {s, DumpDetailsAndQuitSplash(q), OnDevices(s, v)}
  BY DEF HandleShowSplash
<1> HIDE DEF t, q
<1>3. a \in State /\ SameRequests(t, a)
  <2> DEFINE o == t.output /\ attaches
             b == [t EXCEPT !.terminal = attaches, !.attached = attaches,
                            !.output = o]
  <2>1. a = b /\ o \in BOOLEAN
    BY DEF AttachSession
  <2> HIDE DEF o
  <2>2. b \in State
    BY <1>1, <2>1, ZenonT(60) DEF State
  <2>3. SameRequests(t, b)
    BY <1>1 DEF SameRequests, State
  <2> HIDE DEF a, b
  <2> QED BY <2>1, <2>2, <2>3
<1> HIDE DEF a
<1>4. u \in State /\ SameRequests(s, u)
  BY <1>1, <1>3 DEF SameRequests
<1> HIDE DEF u
<1>5. SameRequests(s, v)
  BY <1>4, ShowSplashIsGentle, GentleServes DEF SameRequests
<1> HIDE DEF v
<1>6. SameRequests(s, DumpDetailsAndQuitSplash(q))
  BY <1>1, DumpDetailsAndQuitSplashIsQuiet DEF Quiet, SameRequests
<1>7. SameRequests(s, OnDevices(s, v))
  BY <1>5, FaultServes DEF OnDevices
<1> QED BY <1>2, <1>6, <1>7, GentleReflexive, GentleServes, SameRequestsServe

(* A daemon that is inactive becomes active, or follows a NULL pointer.     *)
LEMMA HandleReactivateServes ==
    ASSUME NEW s \in State, Safe(s),
           NEW opens \in BOOLEAN, NEW attaches \in BOOLEAN,
           NEW found \in BOOLEAN, NEW r \in Outcome
    PROVE  Serves(s, HandleReactivate(s, opens, attaches, found, r))
<1> DEFINE y == s.tty \/ opens
           t == [s EXCEPT !.tty = y]
           a == AttachSession(t, attaches)
           u == IF t.terminal /\ t.shouldAttach THEN a ELSE t
           p == u.renderers \/ UsesPixelDisplays(u)
           v == [u EXCEPT !.keyboards = TRUE, !.renderers = p,
                          !.paused = FALSE]
           w == IF v.deviceTimeout /\ found THEN HandleDisplayAdded(v, r)
                ELSE v
           z == [w EXCEPT !.inactive = FALSE]
<1>1. CASE ~s.inactive
  BY <1>1, GentleReflexive, GentleServes DEF HandleReactivate
<1>2. CASE ~s.devices
  BY <1>2, <1>1, FaultServes DEF HandleReactivate, OnDevices
<1>3. CASE s.inactive /\ s.devices
  <2>1. t \in State /\ SameRequests(s, t)
    <3>1. y \in BOOLEAN
      BY DEF State
    <3> HIDE DEF y
    <3> QED BY <3>1 DEF State, SameRequests
  <2> HIDE DEF t
  <2>2. a \in State /\ SameRequests(t, a)
    <3> DEFINE o == t.output /\ attaches
               b == [t EXCEPT !.terminal = attaches, !.attached = attaches,
                              !.output = o]
    <3>1. a = b /\ o \in BOOLEAN
      BY DEF AttachSession
    <3> HIDE DEF o
    <3>2. b \in State
      BY <2>1, <3>1, ZenonT(60) DEF State
    <3>3. SameRequests(t, b)
      BY <2>1 DEF SameRequests, State
    <3> HIDE DEF a, b
    <3> QED BY <3>1, <3>2, <3>3
  <2> HIDE DEF a
  <2>3. u \in State /\ SameRequests(s, u)
    BY <2>1, <2>2 DEF SameRequests
  <2> HIDE DEF u
  <2>4. /\ v \in State
        /\ v.quitters = u.quitters /\ v.deactivators = u.deactivators
        /\ v.pulled = u.pulled /\ v.exiting = u.exiting
    <3>1. p \in BOOLEAN
      BY <2>3 DEF State
    <3> HIDE DEF p
    <3> QED BY <2>3, <3>1, ZenonT(60) DEF State
  <2> HIDE DEF v
  <2>5. SameRequests(v, w) /\ w \in State
    BY <2>4, GentleReflexive, HandleDisplayAddedIsGentle, GentleServes
       DEF Gentle, Quiet
  <2> HIDE DEF w
  <2>6. /\ z.inactive = FALSE
        /\ z.quitters = w.quitters /\ z.deactivators = w.deactivators
        /\ z.pulled = w.pulled /\ z.exiting = w.exiting
    BY <2>5, ZenonT(60) DEF State
  <2>7. HandleReactivate(s, opens, attaches, found, r) = z
    BY <1>3 DEF HandleReactivate, OnDevices, w, v, u, a, t
  <2> HIDE DEF z
  <2>8. ~s.exiting
    BY <1>3 DEF Safe, Sound, Exits
  <2>9. Reactivates(s, z)
    BY <1>3, <2>3, <2>4, <2>5, <2>6, <2>8
       DEF SameRequests, Reactivates, Status
  <2> QED BY <2>7, <2>9 DEF Serves
<1> QED BY <1>1, <1>2, <1>3

(* However the splash is taken away, the program that ends answers all.     *)
LEMMA QuietProgramTells ==
    ASSUME NEW s \in State, Once(s), NEW w, Quiet(s, w)
    PROVE  LET t == QuitProgram(w)
           IN  /\ Told(s, t, s.quitters \union s.deactivators)
               /\ t.quitters = {} /\ t.deactivators = {} /\ Status(t) = "gone"
               /\ t \in State
<1> DEFINE t == QuitProgram(w)
<1>1. /\ w \in State /\ w.quitters = s.quitters
      /\ w.deactivators = s.deactivators /\ w.pulled = s.pulled
  BY DEF Quiet, SameRequests
<1>2. Once(w)
  BY <1>1 DEF Once
<1>3. /\ Told(w, t, w.quitters \union w.deactivators)
      /\ t.quitters = {} /\ t.deactivators = {} /\ Status(t) = "gone"
      /\ t \in State
  BY <1>1, <1>2, QuitProgramTells, QuitProgramEnds
<1> HIDE DEF t
<1> QED BY <1>1, <1>3 DEF Told, t

LEMMA EndProgramTells ==
    ASSUME NEW s \in State, Once(s)
    PROVE  LET t == EndProgram(s)
           IN  /\ Told(s, t, s.quitters \union s.deactivators)
               /\ t.quitters = {} /\ t.deactivators = {} /\ Status(t) = "gone"
               /\ t \in State
<1> DEFINE h == IF s.retain THEN s ELSE HideSplash(s)
           w == QuitSplash(h)
<1>1. Quiet(s, h) /\ h \in State
  BY GentleReflexive, HideSplashIsGentle DEF Gentle, Quiet
<1> HIDE DEF h
<1>2. Quiet(s, w)
  BY <1>1, QuitSplashIsQuiet, QuietTransitive
<1>3. EndProgram(s) = QuitProgram(w)
  BY DEF EndProgram, h
<1> HIDE DEF w
<1> DEFINE t == QuitProgram(w)
<1>4. /\ Told(s, t, s.quitters \union s.deactivators)
      /\ t.quitters = {} /\ t.deactivators = {} /\ Status(t) = "gone"
      /\ t \in State
  BY <1>2, QuietProgramTells
<1> HIDE DEF t
<1> QED BY <1>3, <1>4 DEF t

LEMMA HandleDeactivateServes ==
    ASSUME NEW s \in State, Safe(s), NEW t \in Trigger,
           NEW animates \in BOOLEAN, Fresh(s, t)
    PROVE  LET h == HandleDeactivate(s, t, animates)
           IN  h.fault \/ Serves(s, h)
<1> DEFINE D == s.deactivators \union {t}
           q == [s EXCEPT !.deactivators = D]
           c == CancelPendingShow(q)
           u == [c EXCEPT !.paused = TRUE, !.keyboards = FALSE]
<1>1. CASE s.inactive /\ ~s.devices
  <2> DEFINE f == Fault(s)
  <2>1. f \in State /\ f.fault
    BY ZenonT(60) DEF Fault, State
  <2>2. HandleDeactivate(s, t, animates) = Pull(f, {t})
    BY <1>1 DEF HandleDeactivate, DeactivateConsole, OnDevices
  <2> HIDE DEF f
  <2> DEFINE p == Pull(f, {t})
  <2>3. p = [f EXCEPT !.pulled = p.pulled]
    BY <2>1, PullSetsPulled
  <2> HIDE DEF p
  <2>4. p.fault
    BY <2>1, <2>3 DEF State
  <2> QED BY <2>2, <2>4 DEF p
<1>2. CASE s.inactive /\ s.devices
  <2> DEFINE d == [s EXCEPT !.attached = FALSE, !.tty = FALSE]
             p == Pull(d, {t})
  <2>1. HandleDeactivate(s, t, animates) = p
    BY <1>2 DEF HandleDeactivate, DeactivateConsole, OnDevices
  <2>2. d \in State /\ SameRequests(s, d)
    <3>1. d \in State
      BY ZenonT(60) DEF State
    <3>2. SameRequests(s, d)
      BY DEF SameRequests, State
    <3> QED BY <3>1, <3>2
  <2> HIDE DEF d
  <2>3. Told(d, p, {t}) /\ p = [d EXCEPT !.pulled = p.pulled]
    <3>1. {t} \in SUBSET Trigger /\ \A r \in {t} : d.pulled[r] = 0
      BY <2>2 DEF SameRequests, Fresh
    <3> QED BY <2>2, <3>1, PullTells, PullSetsPulled
  <2> HIDE DEF p
  <2>4. /\ p.quitters = d.quitters /\ p.deactivators = d.deactivators
        /\ p.inactive = d.inactive /\ p.exiting = d.exiting
    BY <2>2, <2>3 DEF State
  <2>5. ~s.exiting
    BY <1>2 DEF Safe, Sound, Exits
  <2>6. Confirms(s, p, t)
    BY <1>2, <2>2, <2>3, <2>4, <2>5
       DEF Confirms, SameRequests, Told, Status
  <2> QED BY <2>1, <2>6 DEF Serves
<1>3. /\ q \in State /\ q.deactivators = D /\ q.quitters = s.quitters
      /\ q.pulled = s.pulled /\ q.inactive = s.inactive
      /\ q.exiting = s.exiting /\ q.devices = s.devices
  <2>1. D \in SUBSET Trigger
    BY DEF State
  <2> HIDE DEF D
  <2>2. q \in State
    BY <2>1 DEF State
  <2>3. /\ q.deactivators = D /\ q.quitters = s.quitters
        /\ q.pulled = s.pulled /\ q.inactive = s.inactive
        /\ q.exiting = s.exiting /\ q.devices = s.devices
    BY DEF State
  <2> QED BY <2>2, <2>3
<1> HIDE DEF q
<1>4. CASE ~s.inactive /\ s.deactivators # {}
  <2>1. HandleDeactivate(s, t, animates) = q
    BY <1>4 DEF HandleDeactivate, q
  <2>2. ~s.exiting
    BY <1>4 DEF Safe, Sound, Exits
  <2>3. QueuesDeactivate(s, q, t)
    BY <1>3, <1>4, <2>2 DEF QueuesDeactivate, Status
  <2> QED BY <2>1, <2>3 DEF Serves
<1>5. CASE ~s.inactive /\ s.deactivators = {} /\ ~s.devices
  BY <1>5, FaultServes DEF HandleDeactivate, OnDevices
<1>6. CASE ~s.inactive /\ s.deactivators = {} /\ s.devices
  <2>1. c \in State /\ SameRequests(q, c)
    BY <1>3, CancelPendingShowIsGentle DEF Gentle, Quiet
  <2> HIDE DEF c, D
  <2>2. /\ u \in State
        /\ u.quitters = c.quitters /\ u.deactivators = c.deactivators
        /\ u.pulled = c.pulled /\ u.inactive = c.inactive
        /\ u.exiting = c.exiting /\ u.devices = c.devices
    BY <2>1, ZenonT(60) DEF State
  <2>3. HandleDeactivate(s, t, animates) \in
            {BecomeIdle(u, animates), DeactivateSplash(u)}
    BY <1>6 DEF HandleDeactivate, OnDevices, u, c, q, D
  <2> HIDE DEF u
  <2>4. /\ u.quitters = s.quitters /\ u.deactivators = D
        /\ u.pulled = s.pulled /\ ~u.inactive /\ ~u.exiting /\ u.devices
        /\ ~s.exiting
    BY <1>3, <1>6, <2>1, <2>2 DEF SameRequests, Safe, Sound, Exits
  <2>5. SameService(u, BecomeIdle(u, animates))
    BY <2>2, BecomeIdleServes
  <2>6. QueuesDeactivate(s, BecomeIdle(u, animates), t)
    BY <1>6, <2>4, <2>5 DEF SameService, QueuesDeactivate, Status, D
  <2> DEFINE v == DeactivateSplash(u)
  <2>7. Once(u)
    BY <2>4 DEF Once, Safe, Sound, Fresh, D
  <2>8. /\ Told(u, v, u.deactivators) /\ v.quitters = u.quitters
        /\ v.deactivators = {} /\ Status(v) = "inactive"
    BY <2>2, <2>4, <2>7, DeactivateSplashTells
  <2> HIDE DEF v
  <2>9. Deactivates(s, v, {t}) /\ {t} \in Callers(s)
    <3>1. Status(s) = "active"
      BY <1>6, <2>4 DEF Status
    <3>2. Told(s, v, s.deactivators \union {t})
      BY <2>4, <2>8 DEF Told, D
    <3>3. {t} \in Callers(s)
      BY DEF Callers
    <3> QED BY <2>4, <2>8, <3>1, <3>2, <3>3 DEF Deactivates
  <2> QED BY <2>3, <2>6, <2>9 DEF Serves, v
<1> QED BY <1>1, <1>2, <1>4, <1>5, <1>6

LEMMA HandleQuitServes ==
    ASSUME NEW s \in State, Safe(s), NEW retains \in BOOLEAN,
           NEW t \in Trigger, NEW animates \in BOOLEAN, Fresh(s, t)
    PROVE  Serves(s, HandleQuit(s, retains, t, animates))
<1> DEFINE Q == s.quitters \union {t}
           q == [s EXCEPT !.quitters = Q]
           u == [q EXCEPT !.retain = retains, !.keyboards = FALSE]
<1>1. CASE s.quitters = {} /\ ~s.devices
  BY <1>1, FaultServes DEF HandleQuit, OnDevices
<1>2. CASE s.quitters # {} \/ s.devices
  <2>1. ~s.exiting
    BY <1>2 DEF Safe, Sound, Exits
  <2>2. /\ q \in State /\ q.quitters = Q /\ q.deactivators = s.deactivators
        /\ q.pulled = s.pulled /\ q.inactive = s.inactive
        /\ q.exiting = s.exiting
    <3>1. Q \in SUBSET Trigger
      BY DEF State
    <3> HIDE DEF Q
    <3>2. q \in State
      BY <3>1 DEF State
    <3>3. /\ q.quitters = Q /\ q.deactivators = s.deactivators
          /\ q.pulled = s.pulled /\ q.inactive = s.inactive
          /\ q.exiting = s.exiting
      BY DEF State
    <3> QED BY <3>2, <3>3
  <2> HIDE DEF q
  <2>3. /\ u \in State
        /\ u.quitters = q.quitters /\ u.deactivators = q.deactivators
        /\ u.pulled = q.pulled /\ u.inactive = q.inactive
        /\ u.exiting = q.exiting
    <3>1. u \in State
      BY <2>2, ZenonT(60) DEF State
    <3>2. /\ u.quitters = q.quitters /\ u.deactivators = q.deactivators
          /\ u.pulled = q.pulled /\ u.inactive = q.inactive
          /\ u.exiting = q.exiting
      BY <2>2 DEF State
    <3> QED BY <3>1, <3>2
  <2>4. HandleQuit(s, retains, t, animates) \in
            {q, QuitProgram(DumpDetailsAndQuitSplash(u)),
             BecomeIdle(u, animates), EndProgram(u)}
    <3>1. EndProgram(u) = QuitProgram(QuitSplash(
                              IF u.retain THEN u ELSE HideSplash(u)))
      BY DEF EndProgram
    <3> QED BY <1>2, <3>1 DEF HandleQuit, OnDevices, q
  <2> HIDE DEF u, Q
  <2>5. Once(u)
    BY <2>2, <2>3 DEF Once, Safe, Sound, Fresh, Q
  <2>6. QueuesQuit(s, q, t)
    BY <2>1, <2>2 DEF QueuesQuit, Status, Q
  <2>7. QueuesQuit(s, BecomeIdle(u, animates), t)
    <3>1. SameService(u, BecomeIdle(u, animates))
      BY <2>3, BecomeIdleServes
    <3> QED BY <2>1, <2>2, <2>3, <3>1
            DEF SameService, QueuesQuit, Status, Q
  <2>8. ASSUME NEW v, Told(u, v, u.quitters \union u.deactivators),
               v.quitters = {}, v.deactivators = {}, Status(v) = "gone"
        PROVE  Serves(s, v)
    <3>1. {t} \in Callers(s)
      BY DEF Callers
    <3>2. Told(s, v, s.quitters \union s.deactivators \union {t})
      <4>1. u.quitters \union u.deactivators
                = s.quitters \union s.deactivators \union {t}
        BY <2>2, <2>3 DEF Q
      <4>2. u.pulled = s.pulled
        BY <2>2, <2>3
      <4> QED BY <2>8, <4>1, <4>2 DEF Told
    <3>3. Quits(s, v, {t})
      BY <2>1, <2>8, <3>2 DEF Quits, Status
    <3> QED BY <3>1, <3>3 DEF Serves
  <2>9. Serves(s, EndProgram(u))
    BY <2>3, <2>5, <2>8, EndProgramTells
  <2>10. Serves(s, QuitProgram(DumpDetailsAndQuitSplash(u)))
    BY <2>3, <2>5, <2>8, DumpDetailsAndQuitSplashIsQuiet, QuietProgramTells
  <2> QED BY <2>4, <2>6, <2>7, <2>9, <2>10 DEF Serves
<1> QED BY <1>1, <1>2

LEMMA OnBootSplashIdleServes ==
    ASSUME NEW s \in State, Safe(s)
    PROVE  Serves(s, OnBootSplashIdle(s))
<1> DEFINE t == [s EXCEPT !.idle = "none"]
           u == IF t.quitters # {} THEN EndProgram(t)
                ELSE IF t.deactivators # {} THEN DeactivateSplash(t)
                ELSE t
           v == [u EXCEPT !.becomingIdle = FALSE]
<1>1. t \in State /\ SameRequests(s, t)
  <2>1. t \in State
    BY DEF State, Idle
  <2>2. SameRequests(s, t)
    BY DEF SameRequests, State
  <2> QED BY <2>1, <2>2
<1>2. OnBootSplashIdle(s) = v
  <2>1. EndProgram(t) = QuitProgram(QuitSplash(
                            IF t.retain THEN t ELSE HideSplash(t)))
    BY DEF EndProgram
  <2> QED BY <2>1 DEF OnBootSplashIdle
<1> HIDE DEF t
<1>3. Once(t) /\ {} \in Callers(s)
  BY <1>1 DEF Safe, Sound, Once, SameRequests, Callers
<1>4. u \in State /\ Serves(s, u)
  <2>1. CASE t.quitters # {}
    <3> DEFINE e == EndProgram(t)
    <3>1. /\ Told(t, e, t.quitters \union t.deactivators)
          /\ e.quitters = {} /\ e.deactivators = {} /\ Status(e) = "gone"
          /\ e \in State
      BY <1>1, <1>3, EndProgramTells
    <3> HIDE DEF e
    <3>2. ~s.exiting
      BY <1>1, <2>1 DEF SameRequests, Safe, Sound, Exits
    <3>3. Quits(s, e, {})
      BY <1>1, <2>1, <3>1, <3>2 DEF Quits, SameRequests, Told, Status
    <3>4. u = e
      BY <2>1 DEF e
    <3> QED BY <1>3, <3>1, <3>3, <3>4 DEF Serves
  <2>2. CASE t.quitters = {} /\ t.deactivators # {}
    <3> DEFINE d == DeactivateSplash(t)
    <3>1. ~s.exiting /\ ~s.inactive /\ t.devices /\ ~t.exiting
      BY <1>1, <2>2 DEF SameRequests, Safe, Sound, Exits, Released
    <3>2. /\ Told(t, d, t.deactivators) /\ d.quitters = t.quitters
          /\ d.deactivators = {} /\ Status(d) = "inactive" /\ d \in State
      BY <1>1, <1>3, <3>1, DeactivateSplashTells
    <3> HIDE DEF d
    <3>3. Deactivates(s, d, {})
      BY <1>1, <2>2, <3>1, <3>2 DEF Deactivates, SameRequests, Told, Status
    <3>4. u = d
      BY <2>2 DEF d
    <3> QED BY <1>3, <3>2, <3>3, <3>4 DEF Serves
  <2>3. CASE t.quitters = {} /\ t.deactivators = {}
    BY <1>1, <2>3, SameRequestsServe
  <2> QED BY <2>1, <2>2, <2>3
<1> HIDE DEF u
<1>5. SameService(u, v)
  <2>1. /\ v.quitters = u.quitters /\ v.deactivators = u.deactivators
        /\ v.pulled = u.pulled /\ v.inactive = u.inactive
        /\ v.exiting = u.exiting
    BY <1>4 DEF State
  <2> QED BY <2>1 DEF SameService, Status
<1> HIDE DEF v
<1> QED BY <1>2, <1>4, <1>5, ServesSame

-----------------------------------------------------------------------------
(* The actions.                                                             *)

(* A process that crashes serves nobody, and harms nobody.                  *)
LEMMA BecomesServes ==
    ASSUME daemon \in State, NEW t, Timeout(t) \/ Event(t),
           t.fault \/ Serves(daemon, t)
    PROVE  Serves(daemon, daemon')
<1> DEFINE d == [daemon EXCEPT !.fault = t.fault, !.aborted = t.aborted,
                               !.output = t.output]
<1>1. daemon' = IF Crashes(t) THEN d ELSE t
  BY DEF Timeout, Event, Becomes
<1>2. SameService(daemon, d)
  <2>1. /\ d.quitters = daemon.quitters /\ d.deactivators = daemon.deactivators
        /\ d.pulled = daemon.pulled /\ d.inactive = daemon.inactive
        /\ d.exiting = daemon.exiting
    BY DEF State
  <2> QED BY <2>1 DEF SameService, Status
<1> HIDE DEF d
<1> QED BY <1>1, <1>2 DEF Crashes, Serves

LEMMA DisturbancesServe ==
    ASSUME IInv, Disturbances
    PROVE  Serves(daemon, daemon')
<1>1. daemon \in State /\ Safe(daemon)
  BY DEF IInv, TypeOK
<1>2. CASE HideRequest
  BY <1>1, <1>2, HandleHideSplashServes, BecomesServes DEF HideRequest
<1>3. ASSUME NEW r \in Outcome, ReloadRequest(r)
      PROVE  Serves(daemon, daemon')
  BY <1>1, <1>3, HandleReloadServes, BecomesServes DEF ReloadRequest
<1>4. ASSUME NEW r \in Outcome, OnEscapePressed(r)
      PROVE  Serves(daemon, daemon')
  BY <1>1, <1>4, ToggleDetailsIsGentle, GentleServes, BecomesServes
     DEF OnEscapePressed
<1>5. ASSUME NEW m \in Mode, NEW forgets \in BOOLEAN,
             ChangeModeRequest(m, forgets)
      PROVE  Serves(daemon, daemon')
  BY <1>1, <1>5, HandleChangeModeServes, BecomesServes DEF ChangeModeRequest
<1>6. ASSUME NEW attaches \in BOOLEAN, NEW r \in Outcome,
             ShowRequest(attaches, r)
      PROVE  Serves(daemon, daemon')
  BY <1>1, <1>6, HandleShowSplashServes, BecomesServes DEF ShowRequest
<1> QED BY <1>2, <1>3, <1>4, <1>5, <1>6 DEF Disturbances

LEMMA OtherEventsServe ==
    ASSUME IInv, OtherEvents
    PROVE  Serves(daemon, daemon')
<1>1. daemon \in State /\ Safe(daemon)
  BY DEF IInv, TypeOK
<1>2. ASSUME NEW r \in Outcome, PasswordRequest(r)
      PROVE  Serves(daemon, daemon')
  BY <1>1, <1>2, HandleAskForPasswordServes, BecomesServes
     DEF PasswordRequest
<1>3. ASSUME NEW r \in Outcome, OnDisplayAdded(r)
      PROVE  Serves(daemon, daemon')
  BY <1>1, <1>3, HandleDisplayAddedIsGentle, GentleServes, BecomesServes
     DEF OnDisplayAdded
<1>4. ASSUME NEW left \in BOOLEAN, OnDisplayRemoved(left)
      PROVE  Serves(daemon, daemon')
  BY <1>1, <1>4, SettingIsGentle, GentleServes, BecomesServes
     DEF OnDisplayRemoved
<1>5. ASSUME NEW opens \in BOOLEAN, NEW attaches \in BOOLEAN,
             NEW found \in BOOLEAN, NEW r \in Outcome,
             ReactivateRequest(opens, attaches, found, r)
      PROVE  Serves(daemon, daemon')
  BY <1>1, <1>5, HandleReactivateServes, BecomesServes DEF ReactivateRequest
<1>6. \A t \in Trigger : Unused(t) => Fresh(daemon, t)
  BY DEF Unused, Fresh
<1>7. ASSUME NEW t \in Trigger, NEW animates \in BOOLEAN,
             DeactivateRequest(t, animates)
      PROVE  Serves(daemon, daemon')
  <2> DEFINE h == HandleDeactivate(daemon, t, animates)
  <2>1. Event(h) /\ Fresh(daemon, t)
    BY <1>6, <1>7 DEF DeactivateRequest
  <2>2. h.fault \/ Serves(daemon, h)
    BY <1>1, <2>1, HandleDeactivateServes
  <2> HIDE DEF h
  <2> QED BY <1>1, <2>1, <2>2, BecomesServes
<1>8. ASSUME NEW t \in Trigger, NEW animates \in BOOLEAN,
             NEW retains \in BOOLEAN,
             Unused(t), Event(HandleQuit(daemon, retains, t, animates))
      PROVE  Serves(daemon, daemon')
  BY <1>1, <1>6, <1>8, HandleQuitServes, BecomesServes
<1>9. ASSUME NEW t \in Trigger, NEW animates \in BOOLEAN,
             OnTermSignal(t, animates)
      PROVE  Serves(daemon, daemon')
  <2> DEFINE b == daemon.mode \in PowerOff /\ ~daemon.inactive
                      /\ UsesPixelDisplays(daemon)
  <2>1. b \in BOOLEAN
    OBVIOUS
  <2>2. Unused(t) /\ Event(HandleQuit(daemon, b, t, animates))
    BY <1>9 DEF OnTermSignal
  <2> HIDE DEF b
  <2> QED BY <2>1, <2>2, <1>8
<1> QED BY <1>2, <1>3, <1>4, <1>5, <1>7, <1>8, <1>9
        DEF OtherEvents, QuitRequest

LEMMA TimeoutsServe ==
    ASSUME IInv, Timeouts
    PROVE  Serves(daemon, daemon')
<1>1. daemon \in State /\ Safe(daemon)
  BY DEF IInv, TypeOK
<1>2. CASE DelayPasses
  <2> DEFINE d == IF daemon.delay = "scheduled" THEN "overdue" ELSE "over"
  <2>1. daemon' = [daemon EXCEPT !.delay = d]
    BY <1>2 DEF DelayPasses
  <2> HIDE DEF d
  <2>2. SameRequests(daemon, daemon')
    BY <1>1, <2>1 DEF SameRequests, State
  <2> QED BY <2>2, SameRequestsServe
<1>3. CASE OnIdleTimeout
  BY <1>1, <1>3, OnBootSplashIdleServes, BecomesServes DEF OnIdleTimeout
<1>4. CASE OnPluginIdle
  <2> DEFINE t == [daemon EXCEPT !.idle = "timer"]
  <2>1. SameRequests(daemon, t)
    BY <1>1 DEF SameRequests, State
  <2>2. Timeout(t)
    BY <1>4 DEF OnPluginIdle
  <2> HIDE DEF t
  <2> QED BY <1>1, <2>1, <2>2, SameRequestsServe, BecomesServes
<1>5. CASE OnNewFrame
  BY <1>1, <1>5, FaultServes, BecomesServes DEF OnNewFrame
<1>6. ASSUME NEW r \in Outcome, OnSplashDelayElapsed(r)
      PROVE  Serves(daemon, daemon')
  <2> DEFINE t == CancelPendingShow(daemon)
  <2>1. Gentle(daemon, t) /\ t \in State
    BY <1>1, CancelPendingShowIsGentle DEF Gentle, Quiet
  <2>2. Timeout(ShowSplash(t, r))
    BY <1>6 DEF OnSplashDelayElapsed
  <2> HIDE DEF t
  <2>3. Gentle(daemon, ShowSplash(t, r))
    BY <1>1, <2>1, ShowSplashIsGentle, GentleTransitive
  <2> QED BY <1>1, <2>2, <2>3, GentleServes, BecomesServes
<1>7. ASSUME NEW found \in BOOLEAN, NEW r \in Outcome,
             OnDeviceTimeout(found, r)
      PROVE  Serves(daemon, daemon')
  <2> DEFINE s == [daemon EXCEPT !.deviceTimeout = TRUE]
             t == IF found /\ ~s.paused THEN HandleDisplayAdded(s, r) ELSE s
  <2>1. Timeout(t)
    BY <1>7 DEF OnDeviceTimeout
  <2>2. Gentle(daemon, s) /\ s \in State
    BY <1>1, SettingIsGentle DEF Gentle, Quiet
  <2> HIDE DEF s
  <2>3. Gentle(daemon, t)
    BY <1>1, <2>2, HandleDisplayAddedIsGentle, GentleTransitive
  <2> HIDE DEF t
  <2> QED BY <1>1, <2>1, <2>3, GentleServes, BecomesServes
<1> QED BY <1>2, <1>3, <1>4, <1>5, <1>6, <1>7 DEF Timeouts

LEMMA NextServes ==
    ASSUME IInv, [Next]_vars
    PROVE  Serves(daemon, daemon')
<1>1. CASE UNCHANGED daemon
  BY <1>1 DEF Serves, SameService, Status
<1> QED BY <1>1, TimeoutsServe, DisturbancesServe, OtherEventsServe
        DEF Next, EndTimeouts, EndEvents, Finished, vars

(* What Serves says of the records, TransitionService says of its           *)
(* variables.                                                               *)
LEMMA ServesImplements ==
    ASSUME Serves(daemon, daemon')
    PROVE  [Service!Next]_(Service!service)
<1>1. CASE SameService(daemon, daemon')
  BY <1>1 DEF SameService, Status, Service!service
<1>2. CASE Reactivates(daemon, daemon')
  BY <1>2 DEF Reactivates, Status, Service!Next, Service!Reactivate
<1>3. ASSUME NEW r \in Trigger, QueuesQuit(daemon, daemon', r)
      PROVE  Service!AskToQuit(r)
  BY <1>3 DEF QueuesQuit, Status, Fresh, Service!AskToQuit, Service!New
<1>4. ASSUME NEW r \in Trigger, QueuesDeactivate(daemon, daemon', r)
      PROVE  Service!AskToDeactivate(r)
  BY <1>4 DEF QueuesDeactivate, Status, Fresh, Service!AskToDeactivate,
              Service!New
<1>5. ASSUME NEW r \in Trigger, Confirms(daemon, daemon', r)
      PROVE  Service!Confirm(r)
  BY <1>5 DEF Confirms, Status, Fresh, Told, Service!Confirm, Service!New,
              Service!Answer
<1>6. Callers(daemon) = Service!Asking
  BY DEF Callers, Fresh, Service!Asking, Service!New
<1>7. ASSUME NEW new \in Callers(daemon), Deactivates(daemon, daemon', new)
      PROVE  Service!Deactivate(new)
  BY <1>7 DEF Deactivates, Status, Told, Service!Deactivate, Service!Answer
<1>8. ASSUME NEW new \in Callers(daemon), Quits(daemon, daemon', new)
      PROVE  Service!Quit(new)
  BY <1>8 DEF Quits, Status, Told, Service!Quit, Service!Answer
<1> QED BY <1>1, <1>2, <1>3, <1>4, <1>5, <1>6, <1>7, <1>8
        DEF Serves, Service!Next

LEMMA InitImplements == Init => Service!Init
<1> SUFFICES ASSUME Init PROVE Service!Init
  OBVIOUS
<1>1. /\ daemon.quitters = {} /\ daemon.deactivators = {}
      /\ daemon.pulled = [t \in Trigger |-> 0]
      /\ ~daemon.inactive /\ ~daemon.exiting
  BY DEF Init
<1> QED BY <1>1 DEF Service!Init

(* To its clients the daemon is a TransitionService: each request to quit   *)
(* or to deactivate waits until it is granted, all of a kind are granted    *)
(* together, a quit answers everybody, and between these the daemon only    *)
(* becomes active again (plymouthd-transition.c, and handle_deactivate,     *)
(* handle_reactivate and handle_quit of plymouthd-control.c).               *)
THEOREM DaemonServesRequests == Spec => ServesRequests
<1>1. Init => Service!Init
  BY InitImplements
<1>2. IInv /\ [Next]_vars => [Service!Next]_(Service!service)
  BY NextServes, ServesImplements
<1> QED BY <1>1, <1>2, SpecIInv, PTL DEF Spec, ServesRequests, Service!Spec
=============================================================================
