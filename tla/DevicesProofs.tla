---------------------------- MODULE DevicesProofs ----------------------------
(* Theorems about Devices, for any devices, screens, changes and commands.  *)
EXTENDS Devices, FiniteSetTheorems, SequenceTheorems, WellFoundedInduction,
        TLAPS

-----------------------------------------------------------------------------
(* Folds.  A fold over a finite set is the value at that set of a function  *)
(* on its subsets; choice is the element that is taken out of each.         *)

Chooses(choice, S) == \A s \in SUBSET S : s # {} => choice[s] \in s

(* it follows the steps F from base, as long as it stays in G               *)
Folds(it, S, choice, G, base, F) ==
    \A s \in SUBSET S :
        /\ s = {} => it[s] = base
        /\ s # {} /\ it[s \ {choice[s]}] \in G
           => it[s] = F[<<choice[s], it[s \ {choice[s]}]>>]

(* Induction over the subsets that a fold goes through.                     *)
LEMMA SubsetsInduction ==
  ASSUME NEW S, IsFiniteSet(S), NEW choice, Chooses(choice, S),
         NEW P \in SUBSET SUBSET S, {} \in P,
         \A s \in SUBSET S : s # {} /\ s \ {choice[s]} \in P => s \in P
  PROVE  S \in P
<1>1. SUFFICES ASSUME S \notin P PROVE FALSE
  OBVIOUS
<1>2. PICK T : T = (SUBSET S) \ P
  OBVIOUS
<1>3. T # {} /\ T \subseteq FiniteSubsetsOf(S)
  BY <1>1, <1>2, FS_Subset DEF FiniteSubsetsOf
<1>4. PICK s \in T : \A r \in T : <<r, s>> \notin StrictSubsetOrdering(S)
  <2>1. IsWellFoundedOn(StrictSubsetOrdering(S), FiniteSubsetsOf(S))
    BY FS_StrictSubsetOrderingWellFounded
  <2> QED
    BY <1>3, <2>1, WFMin
<1>5. s \in SUBSET S /\ s # {} /\ choice[s] \in s
  BY <1>2, <1>4 DEF Chooses
<1>6. s \ {choice[s]} \in T
  BY <1>2, <1>5
<1>7. <<s \ {choice[s]}, s>> \in StrictSubsetOrdering(S)
  BY <1>5 DEF StrictSubsetOrdering
<1> QED
  BY <1>4, <1>6, <1>7

LEMMA LeastIs ==
  ASSUME NEW T \in SUBSET Nat, T # {}
  PROVE  \E n \in T : \A m \in T : n <= m
<1>1. PICK B : B = {1..n : n \in T}
  OBVIOUS
<1>2. B # {} /\ B \subseteq FiniteSubsetsOf(Nat)
  <2> SUFFICES ASSUME NEW n \in T PROVE 1..n \in FiniteSubsetsOf(Nat)
    BY <1>1
  <2>1. IsFiniteSet(1..n)
    BY FS_Interval
  <2> QED BY <2>1 DEF FiniteSubsetsOf
<1>3. PICK b \in B : \A c \in B : <<c, b>> \notin StrictSubsetOrdering(Nat)
  BY <1>2, FS_StrictSubsetOrderingWellFounded, WFMin
<1>4. PICK n \in T : b = 1..n
  BY <1>1
<1>5. ASSUME NEW m \in T, m < n PROVE FALSE
  <2>1. n \in 1..n /\ n \notin 1..m /\ 1..m \subseteq 1..n
    BY <1>5
  <2>2. <<1..m, 1..n>> \in StrictSubsetOrdering(Nat)
    BY <2>1 DEF StrictSubsetOrdering
  <2> QED BY <1>1, <1>3, <1>4, <2>2
<1> QED
  BY <1>4, <1>5

(* The functions that a fold is the value of do exist.                      *)
LEMMA FoldExists ==
  ASSUME NEW S, IsFiniteSet(S), NEW choice, Chooses(choice, S),
         NEW G, NEW base \in G, NEW F \in [S \X G -> G]
  PROVE  \E it \in [SUBSET S -> G] : Folds(it, S, choice, G, base, F)
<1> DEFINE Next1(it) == [s \in SUBSET S |->
               IF s = {} THEN base ELSE F[<<choice[s], it[s \ {choice[s]}]>>]]
           UpTo(n, it) == \A s \in SUBSET S : Cardinality(s) <= n => it[s] = Next1(it)[s]
           Reached == {n \in Nat : \E it \in [SUBSET S -> G] : UpTo(n, it)}
<1>1. ASSUME NEW it \in [SUBSET S -> G] PROVE Next1(it) \in [SUBSET S -> G]
  BY DEF Chooses
<1>2. \A s \in SUBSET S : IsFiniteSet(s) /\ Cardinality(s) \in Nat
  BY FS_Subset, FS_CardinalityType
<1>3. ASSUME NEW s \in SUBSET S, s # {}
      PROVE  /\ s \ {choice[s]} \in SUBSET S
             /\ Cardinality(s \ {choice[s]}) = Cardinality(s) - 1
  BY <1>2, <1>3, FS_RemoveElement DEF Chooses
<1>4. 0 \in Reached
  <2>1. PICK it : it = [s \in SUBSET S |-> base]
    OBVIOUS
  <2>2. it \in [SUBSET S -> G]
    BY <2>1
  <2>3. ASSUME NEW s \in SUBSET S, Cardinality(s) <= 0 PROVE s = {}
    BY <1>2, <2>3, FS_EmptySet
  <2> QED
    BY <2>1, <2>2, <2>3
<1>5. ASSUME NEW n \in Reached PROVE n + 1 \in Reached
  <2>1. PICK it \in [SUBSET S -> G] : UpTo(n, it)
    OBVIOUS
  <2>2. PICK jt : jt = Next1(it)
    OBVIOUS
  <2>3. ASSUME NEW s \in SUBSET S, Cardinality(s) <= n + 1
        PROVE  jt[s] = Next1(jt)[s]
    <3>1. CASE s = {}
      BY <2>2, <3>1
    <3>2. CASE s # {}
      <4>1. Cardinality(s \ {choice[s]}) <= n
        BY <1>2, <1>3, <2>3, <3>2
      <4>2. jt[s \ {choice[s]}] = it[s \ {choice[s]}]
        BY <1>3, <2>1, <2>2, <3>2, <4>1
      <4> QED
        BY <2>2, <3>2, <4>2
    <3> QED
      BY <3>1, <3>2
  <2>4. jt \in [SUBSET S -> G] /\ n + 1 \in Nat
    <3>1. n \in Nat
      BY <1>5
    <3>2. Next1(it) \in [SUBSET S -> G]
      BY <1>1, <2>1
    <3> HIDE DEF Next1
    <3> QED
      BY <3>1, <3>2, <2>2
  <2>5. UpTo(n + 1, jt)
    BY <2>3, <2>4
  <2>6. \E kt \in [SUBSET S -> G] : UpTo(n + 1, kt)
    BY <2>4, <2>5
  <2> QED
    BY <2>4, <2>6
<1>6. Reached = Nat
  <2>1. PICK R : R = Reached
    OBVIOUS
  <2>2. R \subseteq Nat /\ 0 \in R /\ \A n \in R : n + 1 \in R
    <3> HIDE DEF Reached
    <3>1. Reached \subseteq Nat
      BY DEF Reached
    <3> QED
      BY <1>4, <1>5, <2>1, <3>1
  <2>3. ASSUME NEW n \in Nat \ R, \A m \in Nat \ R : n <= m PROVE FALSE
    <3>1. n # 0
      BY <2>2
    <3>2. n - 1 \in Nat /\ (n - 1) + 1 = n /\ ~(n <= n - 1)
      BY <3>1
    <3> QED
      BY <2>2, <2>3, <3>2
  <2>4. Nat \ R = {}
    BY <2>3, LeastIs
  <2> HIDE DEF Reached
  <2> QED
    BY <2>1, <2>2, <2>4
<1>7. PICK n : n = Cardinality(S) /\ n \in Nat
  BY <1>2
<1>8. PICK it \in [SUBSET S -> G] : UpTo(n, it)
  BY <1>6, <1>7
<1>9. \A s \in SUBSET S : Cardinality(s) <= n
  BY <1>7, FS_Subset
<1>10. Folds(it, S, choice, G, base, F)
  BY <1>8, <1>9 DEF Folds
<1> QED
  BY <1>8, <1>10

(* A fold that starts in G stays in G.                                      *)
LEMMA FoldStays ==
  ASSUME NEW S, IsFiniteSet(S), NEW choice, Chooses(choice, S),
         NEW G, NEW base \in G, NEW F \in [S \X G -> G], NEW it,
         Folds(it, S, choice, G, base, F)
  PROVE  it[S] \in G
<1>1. PICK P : P = {s \in SUBSET S : it[s] \in G}
  OBVIOUS
<1>2. P \in SUBSET SUBSET S /\ {} \in P
  BY <1>1 DEF Folds
<1>3. ASSUME NEW s \in SUBSET S, s # {}, s \ {choice[s]} \in P PROVE s \in P
  <2>1. choice[s] \in S /\ it[s \ {choice[s]}] \in G
    BY <1>1, <1>3 DEF Chooses
  <2>2. it[s] = F[<<choice[s], it[s \ {choice[s]}]>>]
    BY <1>3, <2>1 DEF Folds
  <2> QED
    BY <1>1, <2>1, <2>2
<1> QED
  BY <1>1, <1>2, <1>3, SubsetsInduction

-----------------------------------------------------------------------------
(* The inductive invariant.                                                 *)

(* There is a display for each head of each renderer, but none of those in  *)
(* cs, whose displays are being replaced.                                   *)
Matches(w, cs) ==
    \A c \in Card, s \in Screen :
        <<c, s>> \in w.manager.displays
            <=> c \in w.manager.renderers \ cs /\ s \in w.manager.heads[c]

(* Each renderer has a keyboard, one at most has the console, and a console *)
(* with a text terminal keeps it.                                           *)
ConsoleFits(m) ==
    /\ m.keyboards = m.renderers
    /\ m.console \subseteq m.renderers
    /\ \A a, b \in m.console : a = b
    /\ m.managed => m.keyboards # {} \/ m.ttys > 0
    /\ ~m.managed => m.console = {}
    /\ m.isText => m.ttys > 0
    /\ \A c \in m.renderers : m.inputs[c] = m.devices

(* A graphical splash draws on the displays, but for those in new, of which *)
(* it was not told yet; it has the renderers until the daemon is inactive.  *)
Drawn(w, new) ==
    /\ w.daemon.attached \subseteq w.manager.displays
    /\ w.daemon.splash = "graphical" =>
           /\ w.manager.displays \ w.daemon.attached \subseteq w.missed \cup new
           /\ ~w.manager.renderersActivated => w.daemon.phase = "inactive"

Sound(w) == Matches(w, {}) /\ ConsoleFits(w.manager) /\ Drawn(w, {})

(* What is handed over with the screens.                                    *)
HandedOver ==
    /\ manager.paused <=> daemon.phase # "active"
    /\ manager.paused => ~manager.watching
    /\ ~manager.renderersActivated =>
           /\ manager.master \subseteq unmapped
           /\ daemon.splash = "graphical" => Card \ manager.mapped \subseteq unmapped

Added(q) == {q[k].device : k \in {k \in DOMAIN q : q[k].action = "add"}}

(* A keyboard that is plugged in is known, or the manager will be told, or  *)
(* does not look for it any more.                                           *)
KeyboardsFit ==
    /\ hungup \subseteq manager.devices
    /\ hungup \cap plugged \subseteq replugged
    /\ (manager.timeout \/ manager.elapsed) /\ ~(manager.managed /\ manager.isText)
       => plugged \cap Input \subseteq manager.devices \cup replugged \cup Added(udev)

IInv == TypeOK /\ Sound(now) /\ HandedOver /\ KeyboardsFit

(* From v to w the console's text terminal, keyboards and screens are kept, *)
(* and what only the commands change.                                       *)
Onward(v, w) ==
    /\ v.hardware = w.hardware
    /\ v.manager.paused = w.manager.paused
    /\ v.manager.elapsed = w.manager.elapsed
    /\ v.manager.watching = w.manager.watching
    /\ v.manager.timeout = w.manager.timeout
    /\ v.daemon.phase = w.daemon.phase
    /\ ~w.manager.renderersActivated =>
           ~v.manager.renderersActivated /\ w.manager.master \subseteq v.manager.master
    /\ v.manager.devices \subseteq w.manager.devices
    /\ v.manager.managed /\ v.manager.isText => w.manager.managed /\ w.manager.isText

(* Nothing but what the daemon draws changes.                               *)
Redrawn(v, w) ==
    /\ Onward(v, w)
    /\ w.manager.renderers = v.manager.renderers
    /\ w.manager.console = v.manager.console
    /\ w.manager.heads = v.manager.heads
    /\ w.manager.inputs = v.manager.inputs
    /\ w.manager.displays = v.manager.displays
    /\ w.manager.keyboards = v.manager.keyboards
    /\ w.manager.ttys = v.manager.ttys
    /\ w.manager.devices = v.manager.devices
    /\ w.manager.managed = v.manager.managed
    /\ w.manager.isText = v.manager.isText
    /\ w.daemon.shown = v.daemon.shown

Good(w) == w \in World /\ Sound(w)

-----------------------------------------------------------------------------
(* What the daemon does with new displays.                                  *)

LEMMA Assumed ==
  /\ IsFiniteSet(Card) /\ IsFiniteSet(Input) /\ Card \cap Input = {}
  /\ Simple \subseteq Card /\ FrameBuffer \subseteq Card
  /\ Theme \subseteq {"graphical", "text"}
BY DevicesAssumption

LEMMA WorldIs ==
  ASSUME NEW w \in World
  PROVE  /\ w.hardware \in Hardware /\ w.manager \in Manager /\ w.daemon \in Daemon /\ w.missed \subseteq Display
         /\ w.manager.renderers \subseteq Card /\ w.manager.displays \subseteq Display
         /\ w.manager.heads \in [Card -> SUBSET Screen]
         /\ w.manager.inputs \in [Card -> SUBSET Input]
         /\ w.manager.devices \subseteq Input /\ w.manager.keyboards \subseteq Card
         /\ w.manager.ttys \in Nat /\ w.manager.texts \in Nat
         /\ w.manager.managed \in BOOLEAN /\ w.manager.isText \in BOOLEAN
         /\ w.manager.renderersActivated \in BOOLEAN
         /\ w.manager.elapsed \in BOOLEAN
         /\ w.daemon.attached \subseteq Display /\ w.daemon.theme \in {"graphical", "text"}
         /\ w.daemon.splash \in {"none", "graphical", "text"}
         /\ w.daemon.shown \in BOOLEAN
BY Assumed DEF World, Manager, Daemon

LEMMA ShowThemeIs ==
  ASSUME NEW w \in World, NEW kind \in {"graphical", "text"},
         NEW u, u = ShowTheme(w, kind)
  PROVE  u \in World /\ Redrawn(w, u) /\ Drawn(u, {}) /\ u.missed = w.missed
<1>1. PICK m : m = TakeScreens(w.manager, kind)
  OBVIOUS
<1>2. /\ m \in Manager
      /\ m.paused = w.manager.paused /\ m.elapsed = w.manager.elapsed
      /\ m.watching = w.manager.watching /\ m.timeout = w.manager.timeout
      /\ m.renderers = w.manager.renderers /\ m.console = w.manager.console
      /\ m.heads = w.manager.heads /\ m.inputs = w.manager.inputs
      /\ m.displays = w.manager.displays /\ m.keyboards = w.manager.keyboards
      /\ m.ttys = w.manager.ttys /\ m.devices = w.manager.devices
      /\ m.managed = w.manager.managed /\ m.isText = w.manager.isText
      /\ kind = "graphical" => m.renderersActivated
      /\ kind # "graphical" => m = w.manager
  BY <1>1 DEF TakeScreens, ActivateRenderers, World, Manager
<1>3. u = [w EXCEPT !.manager = ActivateKeyboards(m),
                    !.daemon.splash = kind,
                    !.daemon.attached = IF kind = "graphical" THEN m.displays ELSE {}]
  BY <1>1 DEF ShowTheme
<1>4. PICK k : k = ActivateKeyboards(m)
  OBVIOUS
<1>5. /\ k \in Manager
      /\ k.paused = m.paused /\ k.elapsed = m.elapsed
      /\ k.watching = m.watching /\ k.timeout = m.timeout
      /\ k.renderers = m.renderers /\ k.console = m.console
      /\ k.heads = m.heads /\ k.inputs = m.inputs
      /\ k.displays = m.displays /\ k.keyboards = m.keyboards
      /\ k.ttys = m.ttys /\ k.devices = m.devices
      /\ k.managed = m.managed /\ k.isText = m.isText /\ k.master = m.master
      /\ k.renderersActivated = m.renderersActivated
  BY <1>2, <1>4 DEF ActivateKeyboards, Manager
<1>6. /\ u \in World /\ u.manager = k /\ u.missed = w.missed
      /\ u.hardware = w.hardware
      /\ u.daemon.splash = kind /\ u.daemon.phase = w.daemon.phase
      /\ u.daemon.shown = w.daemon.shown
      /\ u.daemon.attached = IF kind = "graphical" THEN m.displays ELSE {}
  <2>1. m.displays \subseteq Display
    BY <1>2, WorldIs
  <2>2. PICK a : a = IF kind = "graphical" THEN m.displays ELSE {}
    OBVIOUS
  <2>3. PICK d : d = [w.daemon EXCEPT !.splash = kind, !.attached = a]
    OBVIOUS
  <2>4. /\ d \in Daemon /\ d.splash = kind /\ d.attached = a
        /\ d.phase = w.daemon.phase /\ d.shown = w.daemon.shown
    BY <2>1, <2>2, <2>3, WorldIs DEF Daemon
  <2>5. u = [w EXCEPT !.manager = k, !.daemon = d]
    BY <1>3, <1>4, <2>2, <2>3 DEF World
  <2> QED
    BY <1>5, <2>2, <2>4, <2>5 DEF World
<1>7. Redrawn(w, u)
  BY <1>2, <1>5, <1>6 DEF Redrawn, Onward
<1>8. Drawn(u, {})
  BY <1>2, <1>5, <1>6 DEF Drawn
<1> QED
  BY <1>6, <1>7, <1>8

LEMMA RedrawnIs ==
  /\ \A w : Onward(w, w) /\ Redrawn(w, w)
  /\ \A v, w, u : Onward(v, w) /\ Onward(w, u) => Onward(v, u)
  /\ \A v, w, u : Redrawn(v, w) /\ Redrawn(w, u) => Redrawn(v, u)
  /\ \A v, w, cs : Redrawn(v, w) => /\ Matches(v, cs) <=> Matches(w, cs)
                                    /\ ConsoleFits(v.manager) <=> ConsoleFits(w.manager)
                                    /\ Onward(v, w)
<1>1. \A v, w, u : Onward(v, w) /\ Onward(w, u) => Onward(v, u)
  BY DEF Onward
<1>2. \A v, w, u : Redrawn(v, w) /\ Redrawn(w, u) => Redrawn(v, u)
  BY <1>1 DEF Redrawn
<1>3. \A w : Onward(w, w) /\ Redrawn(w, w)
  BY DEF Redrawn, Onward
<1>4. ASSUME NEW v, NEW w, NEW cs, Redrawn(v, w)
      PROVE  /\ Matches(v, cs) <=> Matches(w, cs)
             /\ ConsoleFits(v.manager) <=> ConsoleFits(w.manager)
             /\ Onward(v, w)
  <2>1. Matches(v, cs) <=> Matches(w, cs)
    BY <1>4 DEF Redrawn, Matches
  <2>2. ConsoleFits(v.manager) <=> ConsoleFits(w.manager)
    BY <1>4 DEF Redrawn, ConsoleFits
  <2> QED
    BY <1>4, <2>1, <2>2 DEF Redrawn
<1> QED
  BY <1>1, <1>2, <1>3, <1>4

LEMMA ShowSplashIs ==
  ASSUME NEW w \in World, NEW new, Drawn(w, new),
         w.daemon.splash = "graphical" => new = {}, NEW u, u = ShowSplash(w)
  PROVE  u \in World /\ Redrawn(w, u) /\ Drawn(u, {})
<1>1. CASE w.daemon.splash # "none"
  BY <1>1, RedrawnIs DEF ShowSplash, Drawn
<1>2. CASE w.daemon.splash = "none"
  <2>1. w.daemon.theme \in {"graphical", "text"}
    BY WorldIs
  <2>2. u = ShowTheme(w, w.daemon.theme)
    BY <1>2 DEF ShowSplash
  <2> QED
    BY <2>1, <2>2, ShowThemeIs
<1> QED
  BY <1>1, <1>2

(* The daemon is told of the displays in new, or finds them by itself.      *)
LEMMA PixelDisplaysAddedIs ==
  ASSUME NEW w \in World, NEW new, Drawn(w, new), new \subseteq w.manager.displays,
         NEW u, u = PixelDisplaysAdded(w, new)
  PROVE  u \in World /\ Redrawn(w, u) /\ Drawn(u, {})
<1>1. CASE new = {} \/ (~w.daemon.shown /\ w.daemon.splash # "graphical")
  BY <1>1, RedrawnIs DEF PixelDisplaysAdded, Drawn
<1>2. CASE new # {} /\ ~w.daemon.shown /\ w.daemon.splash = "graphical"
  <2>1. u = [w EXCEPT !.missed = @ \cup new]
    BY <1>2 DEF PixelDisplaysAdded
  <2>2. /\ u \in World /\ u.manager = w.manager /\ u.daemon = w.daemon
        /\ u.hardware = w.hardware
        /\ u.missed = w.missed \cup new
    BY <2>1, WorldIs DEF World
  <2> QED
    BY <2>2 DEF Drawn, Redrawn, Onward
<1>3. CASE new # {} /\ w.daemon.shown /\ w.daemon.splash = "none"
  <2>1. u = ShowSplash(w)
    BY <1>3 DEF PixelDisplaysAdded
  <2> QED
    BY <1>3, <2>1, ShowSplashIs DEF Drawn
<1>4. CASE new # {} /\ w.daemon.shown /\ w.daemon.splash = "graphical"
  <2>1. u = [w EXCEPT !.daemon.attached = @ \cup new]
    BY <1>4 DEF PixelDisplaysAdded
  <2>2. PICK d : d = [w.daemon EXCEPT !.attached = @ \cup new]
    OBVIOUS
  <2>3. /\ d \in Daemon /\ d.splash = w.daemon.splash
        /\ d.attached = w.daemon.attached \cup new
        /\ d.phase = w.daemon.phase /\ d.shown = w.daemon.shown
    BY <2>2, WorldIs DEF Daemon
  <2>4. u \in World /\ u.manager = w.manager /\ u.missed = w.missed /\ u.daemon = d
        /\ u.hardware = w.hardware
    <3>1. u = [w EXCEPT !.daemon = d]
      BY <2>1, <2>2 DEF World
    <3> QED
      BY <2>3, <3>1 DEF World
  <2> QED
    BY <2>3, <2>4 DEF Drawn, Redrawn, Onward
<1>5. CASE new # {} /\ w.daemon.shown /\ w.daemon.splash = "text"
  BY <1>5, RedrawnIs DEF PixelDisplaysAdded, Drawn
<1> QED
  BY <1>1, <1>2, <1>3, <1>4, <1>5, WorldIs

(* A text display makes a splash show.                                      *)
LEMMA CreateTextDisplayIs ==
  ASSUME NEW w \in World, Drawn(w, {}), NEW u, u = CreateTextDisplay(w)
  PROVE  u \in World /\ Redrawn(w, u) /\ Drawn(u, {})
<1>1. PICK v : v = [w EXCEPT !.manager.texts = @ + 1]
  OBVIOUS
<1>2. /\ v \in World /\ Redrawn(w, v) /\ Drawn(v, {}) /\ v.daemon = w.daemon
  <2>1. PICK m : m = [w.manager EXCEPT !.texts = @ + 1]
    OBVIOUS
  <2>2. v = [w EXCEPT !.manager = m]
    BY <1>1, <2>1 DEF World
  <2>3. m \in Manager
    BY <2>1, WorldIs DEF Manager
  <2>4. v \in World /\ v.daemon = w.daemon /\ v.missed = w.missed /\ v.manager = m
        /\ v.hardware = w.hardware
    BY <2>2, <2>3 DEF World
  <2>5. Redrawn(w, v)
    BY <2>1, <2>4, WorldIs DEF Redrawn, Onward, Manager
  <2>6. m.displays = w.manager.displays /\ m.renderersActivated = w.manager.renderersActivated
    BY <2>1, WorldIs DEF Manager
  <2> QED
    BY <2>4, <2>5, <2>6 DEF Drawn
<1>3. u = IF v.daemon.shown THEN ShowSplash(v) ELSE v
  BY <1>1 DEF CreateTextDisplay, TextDisplayAdded
<1>4. ASSUME NEW x, x = ShowSplash(v) PROVE x \in World /\ Redrawn(v, x) /\ Drawn(x, {})
  BY <1>2, <1>4, ShowSplashIs
<1> QED
  BY <1>2, <1>3, <1>4, RedrawnIs

-----------------------------------------------------------------------------
(* Devices go.                                                              *)

LEMMA FreeDisplaysIs ==
  ASSUME NEW w \in World, NEW c \in Card, NEW u, u = FreeDisplaysForRenderer(w, c)
  PROVE  /\ u \in World
         /\ u.manager = [w.manager EXCEPT !.displays = @ \ OfCard(c)]
         /\ \A new : Drawn(w, new) => Drawn(u, new)
         /\ u.daemon.phase = w.daemon.phase /\ u.hardware = w.hardware
<1>1. PICK X : X = OfCard(c)
  OBVIOUS
<1>2. PICK m, d : /\ m = [w.manager EXCEPT !.displays = @ \ X]
                  /\ d = [w.daemon EXCEPT !.attached = @ \ X]
  OBVIOUS
<1>3. u = [w EXCEPT !.manager = m, !.daemon = d, !.missed = @ \ X]
  BY <1>1, <1>2 DEF FreeDisplaysForRenderer, World
<1>4. /\ m \in Manager /\ m.displays = w.manager.displays \ X
      /\ m.renderersActivated = w.manager.renderersActivated
  BY <1>2, WorldIs, SMTT(30) DEF Manager
<1>5. /\ d \in Daemon /\ d.attached = w.daemon.attached \ X
      /\ d.splash = w.daemon.splash /\ d.phase = w.daemon.phase
  BY <1>2, WorldIs DEF Daemon
<1>6. u \in World /\ u.manager = m /\ u.daemon = d /\ u.missed = w.missed \ X
      /\ u.hardware = w.hardware
  BY <1>3, <1>4, <1>5, WorldIs DEF World
<1>7. ASSUME NEW new, Drawn(w, new) PROVE Drawn(u, new)
  BY <1>4, <1>5, <1>6, <1>7 DEF Drawn
<1> QED
  BY <1>1, <1>2, <1>5, <1>6, <1>7

LEMMA FreeDevicesIs ==
  ASSUME NEW w, Good(w), NEW c \in Card, NEW u, u = FreeDevices(w, c)
  PROVE  /\ Good(u) /\ Onward(w, u)
         /\ u.manager.renderers \subseteq w.manager.renderers
<1>1. CASE c \notin w.manager.renderers
  BY <1>1, RedrawnIs DEF FreeDevices
<1>2. CASE c \in w.manager.renderers
  <2>1. PICK f, v : f = FreeDisplaysForRenderer(w, c) /\ v = FreeKeyboardsForRenderer(f, c)
    OBVIOUS
  <2>2. PICK m : m = f.manager
    OBVIOUS
  <2>3. /\ f \in World /\ m = [w.manager EXCEPT !.displays = @ \ OfCard(c)]
        /\ Drawn(f, {}) /\ f.daemon.phase = w.daemon.phase
        /\ f.hardware = w.hardware
    BY <2>1, <2>2, FreeDisplaysIs DEF Good, Sound
  <2>4. PICK k, n :
            /\ n \in BOOLEAN
            /\ n = (m.managed /\ (m.keyboards \ {c} # {} \/ m.ttys > 0))
            /\ k = [m EXCEPT !.keyboards = m.keyboards \ {c},
                             !.watched = @ \ {c}, !.managed = n]
    <3>1. PICK n \in BOOLEAN : n = (m.managed /\ (m.keyboards \ {c} # {} \/ m.ttys > 0))
      BY <2>2, <2>3, WorldIs
    <3> QED
      BY <3>1
  <2>5. v = [f EXCEPT !.manager = k]
    BY <2>1, <2>2, <2>3, <2>4 DEF FreeKeyboardsForRenderer, World
  <2>6. k \in Manager /\ v.manager = k /\ v.daemon = f.daemon /\ v.missed = f.missed
        /\ v \in World /\ v.hardware = f.hardware
    <3>1. k \in Manager
      <4>1. m \in Manager
        BY <2>2, <2>3, WorldIs
      <4> QED
        BY <2>4, <4>1, ZenonT(60) DEF Manager
    <3> QED
      BY <2>3, <2>5, <3>1 DEF World
  <2>7. PICK h, i, r : /\ h = [k.heads EXCEPT ![c] = {}]
                       /\ i = [k.inputs EXCEPT ![c] = {}]
                       /\ r = FreeRenderer(k, c)
    OBVIOUS
  <2>8. u = [v EXCEPT !.manager = r]
    BY <1>2, <2>1, <2>6, <2>7 DEF FreeDevices
  <2>9. w \in World /\ w.manager \in Manager
    BY WorldIs DEF Good
  <2>10. r \in Manager /\ r.heads = h /\ r.inputs = i
    <3>1. h \in [Card -> SUBSET Screen] /\ i \in [Card -> SUBSET Input]
      BY <2>6, <2>7 DEF Manager
    <3>2. r = [k EXCEPT !.renderers = @ \ {c}, !.console = @ \ {c},
                        !.heads = h, !.inputs = i,
                        !.active = @ \ {c}, !.mapped = @ \ {c}, !.master = @ \ {c}]
      BY <2>6, <2>7 DEF FreeRenderer, Manager
    <3>3. r.heads = h /\ r.inputs = i
      BY <2>6, <3>2 DEF Manager
    <3>4. k \in Manager
      BY <2>6
    <3>5. r \in Manager
      BY <3>1, <3>2, <3>4 DEF Manager
    <3> QED
      BY <3>3, <3>5
  <2>11. u \in World /\ u.manager = r /\ u.daemon = f.daemon /\ u.missed = f.missed
         /\ u.hardware = f.hardware
    BY <2>6, <2>8, <2>10 DEF World
  <2>12. /\ r.displays = w.manager.displays \ OfCard(c)
         /\ r.renderers = w.manager.renderers \ {c}
         /\ r.console = w.manager.console \ {c}
         /\ r.keyboards = w.manager.keyboards \ {c}
         /\ r.heads = [w.manager.heads EXCEPT ![c] = {}]
         /\ r.inputs = [w.manager.inputs EXCEPT ![c] = {}]
         /\ r.managed = n /\ r.isText = w.manager.isText
         /\ r.ttys = w.manager.ttys /\ r.devices = w.manager.devices
         /\ r.paused = w.manager.paused /\ r.elapsed = w.manager.elapsed
         /\ r.watching = w.manager.watching /\ r.timeout = w.manager.timeout
         /\ r.renderersActivated = w.manager.renderersActivated
         /\ r.master \subseteq w.manager.master
         /\ n = (w.manager.managed /\ (r.keyboards # {} \/ r.ttys > 0))
    BY <2>3, <2>4, <2>7, <2>9 DEF FreeRenderer, Manager
  <2>13. Matches(u, {})
    <3>1. SUFFICES ASSUME NEW e \in Card, NEW s \in Screen
                   PROVE  <<e, s>> \in r.displays <=> e \in r.renderers /\ s \in r.heads[e]
      BY <2>11 DEF Matches
    <3>2. <<e, s>> \in w.manager.displays
             <=> e \in w.manager.renderers /\ s \in w.manager.heads[e]
      BY DEF Good, Sound, Matches
    <3>3. <<e, s>> \in OfCard(c) <=> e = c
      BY DEF OfCard
    <3>4. e # c => r.heads[e] = w.manager.heads[e]
      BY <2>9, <2>12, WorldIs
    <3> QED
      BY <2>12, <3>2, <3>3, <3>4
  <2>14. ConsoleFits(r)
    BY <2>9, <2>12, WorldIs DEF Good, Sound, ConsoleFits
  <2>15. Drawn(u, {})
    <3>1. m.displays = r.displays /\ m.renderersActivated = r.renderersActivated
      BY <2>3, <2>9, <2>12 DEF Manager
    <3> QED
      BY <2>2, <2>3, <2>11, <3>1 DEF Drawn
  <2>16. Onward(w, u)
    BY <2>3, <2>9, <2>11, <2>12 DEF Good, Sound, ConsoleFits, Onward
  <2> QED
    BY <2>11, <2>12, <2>13, <2>14, <2>15, <2>16 DEF Good, Sound
<1> QED
  BY <1>1, <1>2

FreedTo(w, it, s) ==
    IF s = {} THEN w
    ELSE LET x == CHOOSE x \in s : TRUE
         IN  Then(it[s \ {x}], LAMBDA u : FreeDevices(u, x))

Freed(w) == CHOOSE it : it = [s \in SUBSET Simple |-> FreedTo(w, it, s)]

LEMMA FreeSimpleDrmIs ==
  ASSUME NEW w, Good(w), NEW u, u = FreeSimpleDrm(w)
  PROVE  /\ Good(u) /\ Onward(w, u)
         /\ u.manager.renderers \subseteq w.manager.renderers
<1> DEFINE It(it) == it = [s \in SUBSET Simple |-> FreedTo(w, it, s)]
<1>1. PICK G : G = {v \in World : /\ Sound(v) /\ Onward(w, v)
                                  /\ v.manager.renderers \subseteq w.manager.renderers}
  OBVIOUS
<1>2. PICK F : F = [x \in Simple \X G |-> FreeDevices(x[2], x[1])]
  OBVIOUS
<1>3. PICK pick : pick = [s \in SUBSET Simple |-> CHOOSE x \in s : TRUE]
  OBVIOUS
<1>4. IsFiniteSet(Simple) /\ Chooses(pick, Simple) /\ w \in G
  <2>1. IsFiniteSet(Simple)
    BY Assumed, FS_Subset
  <2>2. w \in G
    BY <1>1, RedrawnIs DEF Good
  <2> QED
    BY <1>3, <2>1, <2>2 DEF Chooses
<1>5. ASSUME NEW c \in Simple, NEW v \in G
      PROVE  FreeDevices(v, c) \in G
  <2>1. Good(v) /\ Onward(w, v) /\ c \in Card
        /\ v.manager.renderers \subseteq w.manager.renderers
    BY <1>1, Assumed DEF Good
  <2>2. PICK x : x = FreeDevices(v, c)
    OBVIOUS
  <2>3. Good(x) /\ Onward(v, x) /\ x.manager.renderers \subseteq v.manager.renderers
    BY <2>1, <2>2, FreeDevicesIs
  <2> QED
    BY <1>1, <2>1, <2>2, <2>3, RedrawnIs DEF Good
<1>6. F \in [Simple \X G -> G]
  BY <1>2, <1>5
<1>7. ASSUME NEW it, NEW s \in SUBSET Simple
      PROVE  /\ s = {} => FreedTo(w, it, s) = w
             /\ s # {} => FreedTo(w, it, s) = FreeDevices(it[s \ {pick[s]}], pick[s])
  <2>1. s = {} => FreedTo(w, it, s) = w
    BY DEF FreedTo
  <2>2. PICK x : x = CHOOSE k \in s : TRUE
    OBVIOUS
  <2>3. PICK y : y = it[s \ {x}]
    OBVIOUS
  <2>4. PICK z : z = FreeDevices(y, x)
    OBVIOUS
  <2>5. s # {} => FreedTo(w, it, s) = CHOOSE v \in {z} : TRUE
    BY <2>2, <2>3, <2>4 DEF FreedTo, Then
  <2>6. x = pick[s]
    BY <1>3, <2>2
  <2> QED
    BY <2>1, <2>3, <2>4, <2>5, <2>6
<1>8. ASSUME NEW it, NEW s \in SUBSET Simple, s # {}, it[s \ {pick[s]}] \in G
      PROVE  FreedTo(w, it, s) = F[<<pick[s], it[s \ {pick[s]}]>>]
  <2>1. pick[s] \in Simple
    BY <1>4, <1>8 DEF Chooses
  <2>2. F[<<pick[s], it[s \ {pick[s]}]>>] = FreeDevices(it[s \ {pick[s]}], pick[s])
    BY <1>2, <1>8, <2>1
  <2> QED
    BY <1>7, <1>8, <2>2
<1>9. \E it : It(it)
  <2>1. PICK it \in [SUBSET Simple -> G] : Folds(it, Simple, pick, G, w, F)
    BY <1>4, <1>6, FoldExists
  <2>2. ASSUME NEW s \in SUBSET Simple PROVE it[s] = FreedTo(w, it, s)
    <3>1. it[s \ {pick[s]}] \in G
      BY <2>1
    <3>2. /\ s = {} => it[s] = w
          /\ s # {} => it[s] = F[<<pick[s], it[s \ {pick[s]}]>>]
      BY <2>1, <3>1 DEF Folds
    <3> QED
      BY <1>7, <1>8, <3>1, <3>2
  <2> QED
    BY <2>1, <2>2
<1>10. It(Freed(w))
  <2>1. Freed(w) = CHOOSE it : It(it)
    BY DEF Freed
  <2> HIDE DEF It
  <2> QED
    BY <1>9, <2>1
<1>11. Freed(w)[Simple] \in G
  <2>1. PICK it : it = Freed(w)
    OBVIOUS
  <2>2. \A s \in SUBSET Simple : it[s] = FreedTo(w, it, s)
    BY <1>10, <2>1
  <2>3. Folds(it, Simple, pick, G, w, F)
    BY <1>7, <1>8, <2>2 DEF Folds
  <2> QED
    BY <1>4, <1>6, <2>1, <2>3, FoldStays
<1>12. FreeSimpleDrm(w) = Freed(w)[Simple]
  BY DEF FreeSimpleDrm, FoldSet, MapThenFoldSet, Freed, FreedTo
<1> QED
  BY <1>1, <1>11, <1>12 DEF Good

-----------------------------------------------------------------------------
(* Devices come.                                                            *)

(* The displays of a renderer that has none are made.                       *)
LEMMA CreatePixelDisplaysIs ==
  ASSUME NEW w \in World, NEW c \in w.manager.renderers,
         Matches(w, {c}), ConsoleFits(w.manager), Drawn(w, {}),
         NEW u, u = CreatePixelDisplays(w, c)
  PROVE  /\ Good(u) /\ Onward(w, u)
         /\ u.manager.renderers = w.manager.renderers
         /\ u.manager.devices = w.manager.devices
         /\ u.manager.managed = w.manager.managed
         /\ u.manager.console = w.manager.console
<1>1. PICK new, m, v : /\ new = {c} \X w.manager.heads[c]
                       /\ m = [w.manager EXCEPT !.displays = @ \cup new]
                       /\ v = [w EXCEPT !.manager = m]
  OBVIOUS
<1>2. u = PixelDisplaysAdded(v, new)
  <2>1. v = [w EXCEPT !.manager.displays = @ \cup new]
    BY <1>1 DEF World
  <2> QED
    BY <1>1, <2>1 DEF CreatePixelDisplays
<1>3. c \in Card /\ w.manager.heads[c] \subseteq Screen /\ new \subseteq Display
  <2>1. c \in Card /\ w.manager.heads[c] \subseteq Screen
    BY WorldIs
  <2> QED
    BY <1>1, <2>1 DEF Display
<1>4. /\ m \in Manager /\ m.displays = w.manager.displays \cup new
      /\ m.renderers = w.manager.renderers /\ m.heads = w.manager.heads
      /\ m.console = w.manager.console /\ m.keyboards = w.manager.keyboards
      /\ m.managed = w.manager.managed /\ m.isText = w.manager.isText
      /\ m.ttys = w.manager.ttys /\ m.inputs = w.manager.inputs
      /\ m.devices = w.manager.devices /\ m.master = w.manager.master
      /\ m.renderersActivated = w.manager.renderersActivated
      /\ m.paused = w.manager.paused /\ m.elapsed = w.manager.elapsed
      /\ m.watching = w.manager.watching /\ m.timeout = w.manager.timeout
  <2>1. w.manager \in Manager
    BY WorldIs
  <2> QED
    BY <1>1, <1>3, <2>1 DEF Manager
<1>5. v \in World /\ v.manager = m /\ v.daemon = w.daemon /\ v.missed = w.missed
      /\ v.hardware = w.hardware
  BY <1>1, <1>4 DEF World
<1>6. Matches(v, {})
  <2>1. SUFFICES ASSUME NEW e \in Card, NEW s \in Screen
                 PROVE  <<e, s>> \in m.displays <=> e \in m.renderers /\ s \in m.heads[e]
    BY <1>5 DEF Matches
  <2>2. <<e, s>> \in w.manager.displays
           <=> e \in w.manager.renderers \ {c} /\ s \in w.manager.heads[e]
    BY DEF Matches
  <2>3. <<e, s>> \in new <=> e = c /\ s \in w.manager.heads[c]
    BY <1>1
  <2> QED
    BY <1>4, <2>2, <2>3
<1>7. ConsoleFits(v.manager)
  BY <1>4, <1>5 DEF ConsoleFits
<1>8. Drawn(v, new)
  BY <1>4, <1>5 DEF Drawn
<1>9. Onward(w, v)
  BY <1>4, <1>5 DEF Onward
<1>10. u \in World /\ Redrawn(v, u) /\ Drawn(u, {})
  BY <1>2, <1>4, <1>5, <1>8, PixelDisplaysAddedIs
<1>11. Good(u) /\ Onward(w, u)
  BY <1>6, <1>7, <1>9, <1>10, RedrawnIs DEF Good, Sound
<1> QED
  BY <1>4, <1>5, <1>10, <1>11 DEF Redrawn

(* A renderer that opened is in the table, without displays.                *)
LEMMA OpenedIs ==
  ASSUME NEW w, Good(w), NEW c \in Card, c \notin w.manager.renderers,
         NEW heads \in SUBSET Screen,
         NEW m, m = Opened(w.manager, c, heads),
         NEW u, u.manager = m, u.daemon = w.daemon, u.missed = w.missed,
         u.hardware = w.hardware, m \in Manager => u \in World
  PROVE  /\ u \in World /\ Matches(u, {c}) /\ Drawn(u, {}) /\ Onward(w, u)
         /\ ConsoleFits(u.manager)
         /\ u.manager.renderers = w.manager.renderers \cup {c}
         /\ u.manager.managed = w.manager.managed
         /\ u.manager.console = w.manager.console
<1>1. PICK k, h, i : /\ k = w.manager
                     /\ h = [k.heads EXCEPT ![c] = heads]
                     /\ i = [k.inputs EXCEPT ![c] = k.devices]
  OBVIOUS
<1>2. w \in World /\ k \in Manager
  BY <1>1, WorldIs DEF Good
<1>3. h \in [Card -> SUBSET Screen] /\ i \in [Card -> SUBSET Input]
      /\ i[c] = k.devices
  BY <1>1, <1>2 DEF Manager
<1>4. m = [k EXCEPT !.renderers = @ \cup {c}, !.keyboards = @ \cup {c},
                    !.active = @ \cup {c}, !.found = TRUE,
                    !.heads = h, !.inputs = i]
  BY <1>1, <1>2 DEF Opened, Manager
<1>5. m \in Manager
  BY ONLY c \in Card, <1>2, <1>3, <1>4 DEF Manager
<1>6. /\ m.displays = k.displays /\ m.renderers = k.renderers \cup {c}
      /\ m.heads = h /\ m.inputs = i
      /\ m.console = k.console /\ m.keyboards = k.keyboards \cup {c}
      /\ m.managed = k.managed /\ m.isText = k.isText
      /\ m.ttys = k.ttys /\ m.devices = k.devices /\ m.master = k.master
      /\ m.renderersActivated = k.renderersActivated
      /\ m.paused = k.paused /\ m.elapsed = k.elapsed
      /\ m.watching = k.watching /\ m.timeout = k.timeout
  BY <1>2, <1>4 DEF Manager
<1>7. u \in World /\ u.manager = m
  BY <1>5
<1>8. Matches(u, {c})
  <2>1. SUFFICES ASSUME NEW e \in Card, NEW s \in Screen
                 PROVE  <<e, s>> \in m.displays
                            <=> e \in m.renderers \ {c} /\ s \in m.heads[e]
    BY <1>7 DEF Matches
  <2>2. <<e, s>> \in k.displays <=> e \in k.renderers /\ s \in k.heads[e]
    BY <1>1 DEF Good, Sound, Matches
  <2>3. e # c => h[e] = k.heads[e]
    BY <1>1, <1>2 DEF Manager
  <2> QED
    BY <1>1, <1>6, <2>2, <2>3
<1>9. ConsoleFits(m)
  <2>1. ConsoleFits(k)
    BY <1>1 DEF Good, Sound
  <2>2. ASSUME NEW e \in m.renderers PROVE m.inputs[e] = m.devices
    <3>1. e \in Card
      BY <1>5, <2>2 DEF Manager
    <3>2. e # c => e \in k.renderers /\ i[e] = k.inputs[e]
      BY <1>1, <1>2, <1>6, <3>1 DEF Manager
    <3> QED
      BY <1>3, <1>6, <2>1, <3>2 DEF ConsoleFits
  <2> QED
    BY <1>6, <2>1, <2>2 DEF ConsoleFits
<1>10. Drawn(u, {}) /\ Onward(w, u)
  BY <1>1, <1>6, <1>7 DEF Good, Sound, Drawn, Onward
<1> QED
  BY <1>1, <1>6, <1>7, <1>8, <1>9, <1>10

(* The first renderer gets the console, and a text display with it.         *)
LEMMA OnConsoleIs ==
  ASSUME NEW w, Good(w), NEW c \in w.manager.renderers,
         NEW u, u = OnConsole(w, c)
  PROVE  Good(u) /\ Onward(w, u)
<1>1. CASE w.manager.managed
  BY <1>1, RedrawnIs DEF OnConsole
<1>2. CASE ~w.manager.managed
  <2>1. PICK t : t = CreateTextDisplay(w)
    OBVIOUS
  <2>2. t \in World /\ Redrawn(w, t) /\ Drawn(t, {})
    BY <2>1, CreateTextDisplayIs DEF Good, Sound
  <2>3. PICK k, m : /\ k = t.manager
                    /\ m = [k EXCEPT !.console = @ \cup {c}, !.isText = FALSE,
                                     !.managed = TRUE]
    OBVIOUS
  <2>4. u = [t EXCEPT !.manager = m]
    BY <1>2, <2>1, <2>2, <2>3 DEF OnConsole, World
  <2>5. c \in Card /\ k \in Manager
    BY <2>2, <2>3, WorldIs DEF Good
  <2>6. /\ m \in Manager
        /\ m.displays = k.displays /\ m.renderers = k.renderers
        /\ m.heads = k.heads /\ m.inputs = k.inputs
        /\ m.console = k.console \cup {c} /\ m.keyboards = k.keyboards
        /\ m.managed = TRUE /\ m.isText = FALSE
        /\ m.ttys = k.ttys /\ m.devices = k.devices /\ m.master = k.master
        /\ m.renderersActivated = k.renderersActivated
        /\ m.paused = k.paused /\ m.elapsed = k.elapsed
        /\ m.watching = k.watching /\ m.timeout = k.timeout
    BY <2>3, <2>5, ZenonT(60) DEF Manager
  <2>7. u \in World /\ u.manager = m /\ u.daemon = t.daemon /\ u.missed = t.missed
        /\ u.hardware = t.hardware
    BY <2>2, <2>4, <2>6 DEF World
  <2>8. /\ Matches(t, {}) /\ ConsoleFits(k) /\ Onward(w, t) /\ Drawn(t, {})
        /\ k.managed = FALSE /\ c \in k.renderers
    BY <1>2, <2>2, <2>3, RedrawnIs, WorldIs DEF Good, Sound, Redrawn
  <2>9. Matches(u, {})
    <3>1. t.manager = k
      BY <2>3
    <3> QED
      BY <2>6, <2>7, <2>8, <3>1 DEF Matches
  <2>10. ConsoleFits(m)
    BY <2>6, <2>8 DEF ConsoleFits
  <2>11. Drawn(u, {})
    BY <2>3, <2>6, <2>7, <2>8 DEF Drawn
  <2>12. Onward(w, u)
    BY <1>2, <2>3, <2>6, <2>7, <2>8 DEF Onward
  <2> QED
    BY <2>7, <2>9, <2>10, <2>11, <2>12 DEF Good, Sound
<1> QED
  BY <1>1, <1>2

LEMMA WithKeyboardIs ==
  ASSUME NEW w, Good(w), NEW c \in Card, NEW u, u = WithKeyboard(w, c)
  PROVE  Good(u) /\ Onward(w, u)
<1>1. PICK k, a, m : /\ k = w.manager
                     /\ a = IF k.keyboardsActivated THEN k.watched \cup {c} ELSE k.watched
                     /\ m = [k EXCEPT !.watched = a]
  OBVIOUS
<1>2. w \in World /\ k \in Manager
  BY <1>1, WorldIs DEF Good
<1>3. u = [w EXCEPT !.manager = m]
  BY <1>1, <1>2 DEF WithKeyboard, World
<1>4. /\ m \in Manager
      /\ m.displays = k.displays /\ m.renderers = k.renderers
      /\ m.heads = k.heads /\ m.inputs = k.inputs
      /\ m.console = k.console /\ m.keyboards = k.keyboards
      /\ m.managed = k.managed /\ m.isText = k.isText
      /\ m.ttys = k.ttys /\ m.devices = k.devices /\ m.master = k.master
      /\ m.renderersActivated = k.renderersActivated
      /\ m.paused = k.paused /\ m.elapsed = k.elapsed
      /\ m.watching = k.watching /\ m.timeout = k.timeout
  BY <1>1, <1>2 DEF Manager
<1>5. u \in World /\ u.manager = m /\ u.daemon = w.daemon /\ u.missed = w.missed
      /\ u.hardware = w.hardware
  BY <1>2, <1>3, <1>4 DEF World
<1>6. Redrawn(w, u) /\ Drawn(u, {})
  BY <1>1, <1>4, <1>5 DEF Good, Sound, Redrawn, Onward, Drawn
<1> QED
  BY <1>5, <1>6, RedrawnIs DEF Good, Sound

LEMMA CreatedIs ==
  ASSUME NEW w, Good(w), NEW c \in Card, c \notin w.manager.renderers,
         NEW u, u = Created(w, c)
  PROVE  Good(u) /\ Onward(w, u)
<1>1. CASE ~OpenRenderer(w.hardware, c, w.manager.elapsed)
  BY <1>1, RedrawnIs DEF Created
<1>2. CASE OpenRenderer(w.hardware, c, w.manager.elapsed)
  <2>1. PICK x \in SUBSET Screen : x = w.hardware.screens[c]
    BY WorldIs DEF Good, Hardware
  <2>2. PICK m : m = Opened(w.manager, c, x)
    OBVIOUS
  <2>3. PICK o : o = [w EXCEPT !.manager = m]
    OBVIOUS
  <2>4. PICK p : p = CreatePixelDisplays(o, c)
    OBVIOUS
  <2>5. PICK q : q = OnConsole(p, c)
    OBVIOUS
  <2>6. PICK r : r = WithKeyboard(q, c)
    OBVIOUS
  <2>7. u = r
    <3>1. o = [w EXCEPT !.manager = Opened(@, c, w.hardware.screens[c])]
      BY <2>1, <2>2, <2>3
    <3> QED
      BY <1>2, <2>4, <2>5, <2>6, <3>1 DEF Created, Then
  <2>8. /\ o \in World /\ Matches(o, {c}) /\ Drawn(o, {}) /\ Onward(w, o)
        /\ ConsoleFits(o.manager) /\ c \in o.manager.renderers
    <3>1. /\ o.manager = m /\ o.daemon = w.daemon /\ o.missed = w.missed
          /\ o.hardware = w.hardware /\ (m \in Manager => o \in World)
      BY <2>3 DEF Good, World
    <3> QED
      BY <2>2, <3>1, OpenedIs
  <2>9. Good(p) /\ Onward(o, p) /\ c \in p.manager.renderers
    BY <2>4, <2>8, CreatePixelDisplaysIs
  <2>10. Good(q) /\ Onward(p, q)
    BY <2>5, <2>9, OnConsoleIs
  <2>11. Good(r) /\ Onward(q, r)
    BY <2>6, <2>10, WithKeyboardIs
  <2> QED
    BY <2>7, <2>8, <2>9, <2>10, <2>11, RedrawnIs
<1> QED
  BY <1>1, <1>2

LEMMA CreateRendererIs ==
  ASSUME NEW w, Good(w), NEW c \in Card, NEW u, u = CreateRenderer(w, c)
  PROVE  Good(u) /\ Onward(w, u)
<1>1. CASE c \in w.manager.renderers
  <2>1. PICK k, m : k = w.manager /\ m = [k EXCEPT !.found = TRUE]
    OBVIOUS
  <2>2. w \in World /\ k \in Manager
    BY <2>1, WorldIs DEF Good
  <2>3. u = [w EXCEPT !.manager = m]
    BY <1>1, <2>1, <2>2 DEF CreateRenderer, World
  <2>4. /\ m \in Manager
        /\ m.displays = k.displays /\ m.renderers = k.renderers
        /\ m.heads = k.heads /\ m.inputs = k.inputs
        /\ m.console = k.console /\ m.keyboards = k.keyboards
        /\ m.managed = k.managed /\ m.isText = k.isText
        /\ m.ttys = k.ttys /\ m.devices = k.devices /\ m.master = k.master
        /\ m.renderersActivated = k.renderersActivated
        /\ m.paused = k.paused /\ m.elapsed = k.elapsed
        /\ m.watching = k.watching /\ m.timeout = k.timeout
    BY <2>1, <2>2 DEF Manager
  <2>5. u \in World /\ u.manager = m /\ u.daemon = w.daemon /\ u.missed = w.missed
        /\ u.hardware = w.hardware
    BY <2>2, <2>3, <2>4 DEF World
  <2>6. Redrawn(w, u) /\ Drawn(u, {})
    BY <2>1, <2>4, <2>5 DEF Good, Sound, Redrawn, Onward, Drawn
  <2> QED
    BY <2>5, <2>6, RedrawnIs DEF Good, Sound
<1>2. CASE c \notin w.manager.renderers
  <2>1. PICK v : v = IF c \in Drm THEN FreeSimpleDrm(w) ELSE w
    OBVIOUS
  <2>2. Good(v) /\ Onward(w, v) /\ c \notin v.manager.renderers
    BY <1>2, <2>1, FreeSimpleDrmIs, RedrawnIs
  <2>3. PICK y : y = Created(v, c)
    OBVIOUS
  <2>4. u = CHOOSE x \in {y} : TRUE
    BY <1>2, <2>1, <2>3 DEF CreateRenderer, Then
  <2>5. Good(y) /\ Onward(v, y)
    BY <2>2, <2>3, CreatedIs
  <2> QED
    BY <2>2, <2>4, <2>5, RedrawnIs
<1> QED
  BY <1>1, <1>2

LEMMA CreateInputDeviceIs ==
  ASSUME NEW w, Good(w), NEW i \in Input, NEW u, u = CreateInputDevice(w, i)
  PROVE  /\ Good(u) /\ Onward(w, u)
         /\ i \in w.hardware.plugged => i \in u.manager.devices
<1>1. CASE i \notin w.hardware.plugged \/ i \in w.manager.devices
  BY <1>1, RedrawnIs DEF CreateInputDevice
<1>2. CASE i \in w.hardware.plugged /\ i \notin w.manager.devices
  <2>1. PICK k : k = w.manager
    OBVIOUS
  <2>2. w \in World /\ k \in Manager
    BY <2>1, WorldIs DEF Good
  <2>3. PICK t : t = [c \in Card |-> IF c \in k.renderers THEN k.inputs[c] \cup {i}
                                                           ELSE k.inputs[c]]
    OBVIOUS
  <2>4. t \in [Card -> SUBSET Input]
    BY <2>2, <2>3 DEF Manager
  <2>5. PICK m : m = [k EXCEPT !.devices = @ \cup {i}, !.inputs = t]
    OBVIOUS
  <2>6. u = [w EXCEPT !.manager = m]
    BY <1>2, <2>1, <2>2, <2>3, <2>5 DEF CreateInputDevice, World, Manager
  <2>7. m \in Manager
    BY <2>2, <2>4, <2>5 DEF Manager
  <2>8. /\ m.displays = k.displays /\ m.renderers = k.renderers
        /\ m.heads = k.heads /\ m.inputs = t
        /\ m.console = k.console /\ m.keyboards = k.keyboards
        /\ m.managed = k.managed /\ m.isText = k.isText
        /\ m.ttys = k.ttys /\ m.devices = k.devices \cup {i} /\ m.master = k.master
        /\ m.renderersActivated = k.renderersActivated
        /\ m.paused = k.paused /\ m.elapsed = k.elapsed
        /\ m.watching = k.watching /\ m.timeout = k.timeout
    BY <2>2, <2>5 DEF Manager
  <2>9. u \in World /\ u.manager = m /\ u.daemon = w.daemon /\ u.missed = w.missed
        /\ u.hardware = w.hardware
    BY <2>2, <2>6, <2>7 DEF World
  <2>10. Matches(w, {}) /\ ConsoleFits(k) /\ Drawn(w, {})
    BY <2>1 DEF Good, Sound
  <2>11. Matches(u, {})
    BY <2>1, <2>8, <2>9, <2>10 DEF Matches
  <2>12. ConsoleFits(m)
    <3>1. ASSUME NEW c \in k.renderers PROVE t[c] = m.devices
      <4>1. c \in Card
        BY <2>2 DEF Manager
      <4>2. k.inputs[c] = k.devices
        BY <2>10 DEF ConsoleFits
      <4> QED
        BY <2>3, <2>8, <4>1, <4>2
    <3> QED
      BY <2>8, <2>10, <3>1 DEF ConsoleFits
  <2>13. Drawn(u, {})
    BY <2>1, <2>8, <2>9, <2>10 DEF Drawn
  <2>14. Onward(w, u)
    BY <2>1, <2>8, <2>9 DEF Onward
  <2> QED
    BY <2>8, <2>9, <2>11, <2>12, <2>13, <2>14 DEF Good, Sound
<1> QED
  BY <1>1, <1>2

LEMMA CreateForUdevDeviceIs ==
  ASSUME NEW w, Good(w), NEW d \in Card \cup Input, NEW u, u = CreateForUdevDevice(w, d)
  PROVE  /\ Good(u) /\ Onward(w, u)
         /\ d \in Input \cap w.hardware.plugged => d \in u.manager.devices
<1>1. CASE d \in Input
  BY <1>1, CreateInputDeviceIs DEF CreateForUdevDevice
<1>2. CASE d \notin Input
  <2>1. u = w \/ u = CreateRenderer(w, d)
    BY <1>2 DEF CreateForUdevDevice
  <2> QED
    BY <1>2, <2>1, CreateRendererIs, RedrawnIs
<1> QED
  BY <1>1, <1>2

MadeTo(w, it, s) ==
    IF s = {} THEN w
    ELSE LET x == CHOOSE x \in s : TRUE
         IN  Then(it[s \ {x}], LAMBDA u : CreateForUdevDevice(u, x))

Made(w, S) == CHOOSE it : it = [s \in SUBSET S |-> MadeTo(w, it, s)]

LEMMA CreateForSubsystemIs ==
  ASSUME NEW w, Good(w), NEW ds \in SUBSET (Card \cup Input),
         NEW u, u = CreateForSubsystem(w, ds)
  PROVE  /\ Good(u) /\ Onward(w, u)
         /\ ds \cap Input \cap w.hardware.plugged \subseteq u.manager.devices
<1>1. PICK S : S = ds \cap w.hardware.plugged
  OBVIOUS
<1> DEFINE It(it) == it = [s \in SUBSET S |-> MadeTo(w, it, s)]
<1>2. PICK G : G = {v \in World : Sound(v) /\ Onward(w, v)}
  OBVIOUS
<1>3. PICK F : F = [x \in S \X G |-> CreateForUdevDevice(x[2], x[1])]
  OBVIOUS
<1>4. PICK pick : pick = [s \in SUBSET S |-> CHOOSE x \in s : TRUE]
  OBVIOUS
<1>5. IsFiniteSet(S) /\ Chooses(pick, S) /\ w \in G /\ S \subseteq Card \cup Input
  <2>1. IsFiniteSet(Card \cup Input) /\ S \subseteq Card \cup Input
    BY <1>1, Assumed, FS_Union
  <2>2. w \in G
    BY <1>2, RedrawnIs DEF Good
  <2>3. IsFiniteSet(S)
    BY <2>1, FS_Subset
  <2> QED
    BY <1>4, <2>1, <2>2, <2>3 DEF Chooses
<1>6. ASSUME NEW d \in S, NEW v \in G, NEW y, y = CreateForUdevDevice(v, d)
      PROVE  /\ y \in G /\ v.manager.devices \subseteq y.manager.devices
             /\ d \in Input => d \in y.manager.devices
  <2>1. Good(v) /\ Onward(w, v) /\ d \in Card \cup Input /\ d \in w.hardware.plugged
    BY <1>1, <1>2, <1>5 DEF Good
  <2>2. /\ Good(y) /\ Onward(v, y)
        /\ d \in Input \cap v.hardware.plugged => d \in y.manager.devices
    BY <1>6, <2>1, CreateForUdevDeviceIs
  <2>3. y \in G
    BY <1>2, <2>1, <2>2, RedrawnIs DEF Good
  <2> QED
    BY <2>1, <2>2, <2>3 DEF Onward
<1>7. F \in [S \X G -> G]
  BY <1>3, <1>6
<1>8. ASSUME NEW it, NEW s \in SUBSET S
      PROVE  /\ s = {} => MadeTo(w, it, s) = w
             /\ s # {} => MadeTo(w, it, s) = CreateForUdevDevice(it[s \ {pick[s]}], pick[s])
  <2>1. s = {} => MadeTo(w, it, s) = w
    BY DEF MadeTo
  <2>2. PICK x : x = CHOOSE k \in s : TRUE
    OBVIOUS
  <2>3. PICK y : y = it[s \ {x}]
    OBVIOUS
  <2>4. PICK z : z = CreateForUdevDevice(y, x)
    OBVIOUS
  <2>5. s # {} => MadeTo(w, it, s) = CHOOSE v \in {z} : TRUE
    BY <2>2, <2>3, <2>4 DEF MadeTo, Then
  <2>6. x = pick[s]
    BY <1>4, <2>2
  <2> QED
    BY <2>1, <2>3, <2>4, <2>5, <2>6
<1>9. ASSUME NEW it, NEW s \in SUBSET S, s # {}, it[s \ {pick[s]}] \in G
      PROVE  MadeTo(w, it, s) = F[<<pick[s], it[s \ {pick[s]}]>>]
  <2>1. pick[s] \in S
    BY <1>5, <1>9 DEF Chooses
  <2>2. F[<<pick[s], it[s \ {pick[s]}]>>] = CreateForUdevDevice(it[s \ {pick[s]}], pick[s])
    BY <1>3, <1>9, <2>1
  <2> QED
    BY <1>8, <1>9, <2>2
<1>10. \E it : It(it)
  <2>1. PICK it \in [SUBSET S -> G] : Folds(it, S, pick, G, w, F)
    BY <1>5, <1>7, FoldExists
  <2>2. ASSUME NEW s \in SUBSET S PROVE it[s] = MadeTo(w, it, s)
    <3>1. it[s \ {pick[s]}] \in G
      BY <2>1
    <3>2. /\ s = {} => it[s] = w
          /\ s # {} => it[s] = F[<<pick[s], it[s \ {pick[s]}]>>]
      BY <2>1, <3>1 DEF Folds
    <3> QED
      BY <1>8, <1>9, <3>1, <3>2
  <2> QED
    BY <2>1, <2>2
<1>11. It(Made(w, S))
  <2>1. Made(w, S) = CHOOSE it : It(it)
    BY DEF Made
  <2> HIDE DEF It
  <2> QED
    BY <1>10, <2>1
<1>12. PICK it : it = Made(w, S)
  OBVIOUS
<1>13. \A s \in SUBSET S : it[s] = MadeTo(w, it, s)
  BY <1>11, <1>12
<1>14. PICK P : P = {s \in SUBSET S : it[s] \in G /\ s \cap Input \subseteq it[s].manager.devices}
  OBVIOUS
<1>15. P \in SUBSET SUBSET S /\ {} \in P
  <2>1. it[{}] = w
    BY <1>8, <1>13
  <2> QED
    BY <1>5, <1>14, <2>1
<1>16. ASSUME NEW s \in SUBSET S, s # {}, s \ {pick[s]} \in P PROVE s \in P
  <2>1. PICK x, y : x = pick[s] /\ y = it[s \ {x}]
    OBVIOUS
  <2>2. x \in s /\ y \in G /\ (s \ {x}) \cap Input \subseteq y.manager.devices
    BY <1>5, <1>14, <1>16, <2>1 DEF Chooses
  <2>3. PICK z : z = CreateForUdevDevice(y, x)
    OBVIOUS
  <2>4. z \in G /\ y.manager.devices \subseteq z.manager.devices
        /\ (x \in Input => x \in z.manager.devices)
    BY <1>6, <2>2, <2>3
  <2>5. it[s] = z
    BY <1>8, <1>13, <1>16, <2>1, <2>3
  <2>6. s \cap Input \subseteq z.manager.devices
    BY <2>2, <2>4
  <2> QED
    BY <1>14, <2>4, <2>5, <2>6
<1>17. S \in P
  BY <1>5, <1>15, <1>16, SubsetsInduction
<1>18. u = it[S]
  BY <1>1, <1>12 DEF CreateForSubsystem, FoldSet, MapThenFoldSet, Made, MadeTo
<1> QED
  BY <1>1, <1>2, <1>14, <1>17, <1>18 DEF Good

(* The text fallback gets the console.                                      *)
LEMMA CreateTerminalDevicesIs ==
  ASSUME NEW w, Good(w), NEW u, u = CreateTerminalDevices(w)
  PROVE  Good(u) /\ Onward(w, u)
<1>1. PICK k, l : k = w.manager /\ l = [k EXCEPT !.ttys = @ + 1]
  OBVIOUS
<1>2. PICK v : v = [w EXCEPT !.manager = l]
  OBVIOUS
<1>3. w \in World /\ k \in Manager
  BY <1>1, WorldIs DEF Good
<1>4. k.ttys \in Nat /\ k.ttys + 1 \in Nat
  BY <1>3 DEF Manager
<1>5. /\ l \in Manager
      /\ l.displays = k.displays /\ l.renderers = k.renderers
      /\ l.heads = k.heads /\ l.inputs = k.inputs
      /\ l.console = k.console /\ l.keyboards = k.keyboards
      /\ l.managed = k.managed /\ l.isText = k.isText
      /\ l.ttys = k.ttys + 1 /\ l.devices = k.devices /\ l.master = k.master
      /\ l.renderersActivated = k.renderersActivated
      /\ l.paused = k.paused /\ l.elapsed = k.elapsed
      /\ l.watching = k.watching /\ l.timeout = k.timeout
  BY <1>1, <1>3, <1>4 DEF Manager
<1>6. v \in World /\ v.manager = l /\ v.daemon = w.daemon /\ v.missed = w.missed
      /\ v.hardware = w.hardware
  BY <1>2, <1>3, <1>5 DEF World
<1>7. Drawn(v, {}) /\ Matches(v, {}) /\ Onward(w, v)
  <2>1. Drawn(w, {}) /\ Matches(w, {})
    BY DEF Good, Sound
  <2>2. Matches(v, {})
    BY <1>1, <1>5, <1>6, <2>1, ZenonT(60) DEF Matches
  <2> QED
    BY <1>1, <1>5, <1>6, <2>1, <2>2 DEF Drawn, Onward
<1>8. PICK t : t = CreateTextDisplay(v)
  OBVIOUS
<1>9. t \in World /\ Redrawn(v, t) /\ Drawn(t, {})
  BY <1>6, <1>7, <1>8, CreateTextDisplayIs
<1>10. PICK j, m : j = t.manager /\ m = [j EXCEPT !.isText = TRUE, !.managed = TRUE]
  OBVIOUS
<1>11. j \in Manager
  BY <1>9, <1>10, WorldIs
<1>12. u = [t EXCEPT !.manager = m]
  <2>1. [w EXCEPT !.manager.ttys = @ + 1] = v
    BY <1>1, <1>2, <1>3 DEF World
  <2> QED
    BY <1>8, <1>9, <1>10, <2>1 DEF CreateTerminalDevices, World
<1>13. /\ m \in Manager
       /\ m.displays = j.displays /\ m.renderers = j.renderers
       /\ m.heads = j.heads /\ m.inputs = j.inputs
       /\ m.console = j.console /\ m.keyboards = j.keyboards
       /\ m.managed = TRUE /\ m.isText = TRUE
       /\ m.ttys = j.ttys /\ m.devices = j.devices /\ m.master = j.master
       /\ m.renderersActivated = j.renderersActivated
       /\ m.paused = j.paused /\ m.elapsed = j.elapsed
       /\ m.watching = j.watching /\ m.timeout = j.timeout
  BY <1>10, <1>11, ZenonT(60) DEF Manager
<1>14. u \in World /\ u.manager = m /\ u.daemon = t.daemon /\ u.missed = t.missed
       /\ u.hardware = t.hardware
  BY <1>9, <1>12, <1>13 DEF World
<1>15. Matches(u, {})
  <2>1. Matches(t, {})
    BY <1>7, <1>9, RedrawnIs
  <2>2. /\ u.manager.displays = t.manager.displays
        /\ u.manager.renderers = t.manager.renderers
        /\ u.manager.heads = t.manager.heads
    BY <1>10, <1>13, <1>14
  <2> QED
    BY <2>1, <2>2 DEF Matches
<1>16. ConsoleFits(m)
  <2>1. ConsoleFits(k)
    BY <1>1 DEF Good, Sound
  <2>2. m.ttys = k.ttys + 1 /\ m.ttys > 0
    BY <1>4, <1>5, <1>6, <1>9, <1>10, <1>13 DEF Redrawn
  <2>3. /\ m.renderers = k.renderers /\ m.inputs = k.inputs
        /\ m.console = k.console /\ m.keyboards = k.keyboards
        /\ m.devices = k.devices
    BY <1>5, <1>6, <1>9, <1>10, <1>13 DEF Redrawn
  <2> QED
    BY <1>13, <2>1, <2>2, <2>3 DEF ConsoleFits
<1>17. Drawn(u, {})
  BY <1>9, <1>10, <1>13, <1>14 DEF Drawn
<1>18. Onward(t, u)
  BY <1>10, <1>13, <1>14 DEF Onward
<1> QED
  BY <1>7, <1>9, <1>14, <1>15, <1>16, <1>17, <1>18, RedrawnIs DEF Good, Sound

LEMMA CreateForSubsystemsIs ==
  ASSUME NEW w, Good(w), NEW u, u = CreateForSubsystems(w)
  PROVE  /\ Good(u) /\ Onward(w, u)
         /\ Input \cap w.hardware.plugged \subseteq u.manager.devices
<1>1. PICK a : a = CreateForSubsystem(w, Input)
  OBVIOUS
<1>2. PICK b : b = CreateForSubsystem(a, Drm \cup Simple)
  OBVIOUS
<1>3. u = b
  BY <1>1, <1>2 DEF CreateForSubsystems, Then
<1>4. /\ Good(a) /\ Onward(w, a)
      /\ Input \cap Input \cap w.hardware.plugged \subseteq a.manager.devices
  <2>1. Input \in SUBSET (Card \cup Input)
    OBVIOUS
  <2> QED
    BY <1>1, <2>1, CreateForSubsystemIs
<1>5. Good(b) /\ Onward(a, b)
  <2>1. Drm \cup Simple \in SUBSET (Card \cup Input)
    BY Assumed DEF Drm
  <2> QED
    BY <1>2, <1>4, <2>1, CreateForSubsystemIs
<1>6. a.manager.devices \subseteq b.manager.devices
  BY <1>5 DEF Onward
<1> QED
  BY <1>3, <1>4, <1>5, <1>6, RedrawnIs

LEMMA LookForDevicesIs ==
  ASSUME NEW w, Good(w), NEW u, u = LookForDevices(w)
  PROVE  /\ Good(u) /\ Onward(w, u)
         /\ Input \cap w.hardware.plugged \subseteq u.manager.devices
<1>1. PICK a : a = CreateForSubsystems(w)
  OBVIOUS
<1>2. PICK b : b = CreateForSubsystem(a, FrameBuffer)
  OBVIOUS
<1>3. PICK d : d = IF b.manager.found THEN b ELSE CreateTerminalDevices(b)
  OBVIOUS
<1>4. u = d
  BY <1>1, <1>2, <1>3 DEF LookForDevices, Then
<1>5. /\ Good(a) /\ Onward(w, a)
      /\ Input \cap w.hardware.plugged \subseteq a.manager.devices
  BY <1>1, CreateForSubsystemsIs
<1>6. Good(b) /\ Onward(a, b)
  <2>1. FrameBuffer \in SUBSET (Card \cup Input)
    BY Assumed
  <2> QED
    BY <1>2, <1>5, <2>1, CreateForSubsystemIs
<1>7. Good(d) /\ Onward(b, d)
  BY <1>3, <1>6, CreateTerminalDevicesIs, RedrawnIs
<1>8. a.manager.devices \subseteq d.manager.devices
  BY <1>6, <1>7 DEF Onward
<1> QED
  BY <1>4, <1>5, <1>6, <1>7, <1>8, RedrawnIs

(* The device timeout: a paused manager creates nothing.                    *)
LEMMA CreateDevicesFromUdevIs ==
  ASSUME NEW w, Good(w), NEW u, u = CreateDevicesFromUdev(w)
  PROVE  \E v : /\ Good(v) /\ Good(u) /\ Onward(v, u)
                /\ v.hardware = w.hardware /\ v.daemon = w.daemon
                /\ v.missed = w.missed
                /\ v.manager = [w.manager EXCEPT !.elapsed = TRUE]
                /\ w.manager.paused => u = v
                /\ ~w.manager.paused =>
                       Input \cap w.hardware.plugged \subseteq u.manager.devices
<1>1. PICK k, m : k = w.manager /\ m = [k EXCEPT !.elapsed = TRUE]
  OBVIOUS
<1>2. PICK v : v = [w EXCEPT !.manager = m]
  OBVIOUS
<1>3. w \in World /\ k \in Manager
  BY <1>1, WorldIs DEF Good
<1>4. /\ m \in Manager
      /\ m.displays = k.displays /\ m.renderers = k.renderers
      /\ m.heads = k.heads /\ m.inputs = k.inputs
      /\ m.console = k.console /\ m.keyboards = k.keyboards
      /\ m.managed = k.managed /\ m.isText = k.isText
      /\ m.ttys = k.ttys /\ m.devices = k.devices
      /\ m.renderersActivated = k.renderersActivated
      /\ m.paused = k.paused
  BY <1>1, <1>3 DEF Manager
<1>5. v \in World /\ v.manager = m /\ v.daemon = w.daemon /\ v.missed = w.missed
      /\ v.hardware = w.hardware
  BY <1>2, <1>3, <1>4 DEF World
<1>6. Good(v)
  <2>1. Matches(w, {}) /\ ConsoleFits(k) /\ Drawn(w, {})
    BY <1>1 DEF Good, Sound
  <2>2. Matches(v, {})
    BY <1>1, <1>4, <1>5, <2>1, ZenonT(60) DEF Matches
  <2>3. ConsoleFits(m)
    BY <1>4, <2>1 DEF ConsoleFits
  <2>4. Drawn(v, {})
    BY <1>1, <1>4, <1>5, <2>1 DEF Drawn
  <2> QED
    BY <1>5, <2>2, <2>3, <2>4 DEF Good, Sound
<1>7. u = IF m.paused THEN v ELSE LookForDevices(v)
  <2>1. [w EXCEPT !.manager.elapsed = TRUE] = v
    BY <1>1, <1>2, <1>3 DEF World
  <2> QED
    BY <1>5, <2>1 DEF CreateDevicesFromUdev
<1>8. CASE m.paused
  BY <1>1, <1>4, <1>5, <1>6, <1>7, <1>8, RedrawnIs
<1>9. CASE ~m.paused
  <2>1. /\ Good(u) /\ Onward(v, u)
        /\ Input \cap v.hardware.plugged \subseteq u.manager.devices
    BY <1>6, <1>7, <1>9, LookForDevicesIs
  <2> QED
    BY <1>1, <1>4, <1>5, <1>6, <1>9, <2>1
<1> QED
  BY <1>8, <1>9

(* A card whose screens changed.                                            *)
LEMMA OnChangeIs ==
  ASSUME NEW w, Good(w), NEW c \in w.manager.renderers, NEW u, u = OnChange(w, c)
  PROVE  Good(u) /\ Onward(w, u)
<1>1. CASE w.manager.heads[c] = w.hardware.screens[c] \/ c \in FrameBuffer
  BY <1>1, RedrawnIs DEF OnChange
<1>2. CASE ~(w.manager.heads[c] = w.hardware.screens[c] \/ c \in FrameBuffer)
  <2>1. PICK f : f = FreeDisplaysForRenderer(w, c)
    OBVIOUS
  <2>2. w \in World /\ w.manager \in Manager /\ c \in Card
        /\ w.hardware.screens[c] \in SUBSET Screen
    BY WorldIs DEF Good, Hardware
  <2>3. /\ f \in World /\ Drawn(f, {})
        /\ f.manager = [w.manager EXCEPT !.displays = @ \ OfCard(c)]
        /\ f.daemon.phase = w.daemon.phase /\ f.hardware = w.hardware
    BY <2>1, <2>2, FreeDisplaysIs DEF Good, Sound
  <2>4. PICK k, h : k = f.manager /\ h = [k.heads EXCEPT ![c] = w.hardware.screens[c]]
    OBVIOUS
  <2>5. PICK m : m = [k EXCEPT !.heads = h]
    OBVIOUS
  <2>6. PICK v : v = [f EXCEPT !.manager = m]
    OBVIOUS
  <2>7. k \in Manager
    BY <2>3, <2>4, WorldIs
  <2>8. u = CreatePixelDisplays(v, c)
    <3>1. v = [f EXCEPT !.manager.heads[c] = w.hardware.screens[c]]
      BY <2>3, <2>4, <2>5, <2>6, <2>7 DEF World, Manager
    <3> QED
      BY <1>2, <2>1, <3>1 DEF OnChange
  <2>9. h \in [Card -> SUBSET Screen]
    BY <2>2, <2>4, <2>7 DEF Manager
  <2>10. m \in Manager
    BY <2>5, <2>7, <2>9 DEF Manager
  <2>11. /\ m.displays = w.manager.displays \ OfCard(c)
         /\ m.renderers = w.manager.renderers
         /\ m.heads = [w.manager.heads EXCEPT ![c] = w.hardware.screens[c]]
         /\ m.inputs = w.manager.inputs
         /\ m.console = w.manager.console /\ m.keyboards = w.manager.keyboards
         /\ m.managed = w.manager.managed /\ m.isText = w.manager.isText
         /\ m.ttys = w.manager.ttys /\ m.devices = w.manager.devices
         /\ m.master = w.manager.master
         /\ m.renderersActivated = w.manager.renderersActivated
         /\ m.paused = w.manager.paused /\ m.elapsed = w.manager.elapsed
         /\ m.watching = w.manager.watching /\ m.timeout = w.manager.timeout
    BY <2>2, <2>3, <2>4, <2>5 DEF Manager
  <2>12. v \in World /\ v.manager = m /\ v.daemon = f.daemon /\ v.missed = f.missed
         /\ v.hardware = f.hardware
    BY <2>3, <2>6, <2>10 DEF World
  <2>13. Matches(v, {c})
    <3>1. SUFFICES ASSUME NEW e \in Card, NEW s \in Screen
                   PROVE  <<e, s>> \in m.displays
                              <=> e \in m.renderers \ {c} /\ s \in m.heads[e]
      BY <2>12 DEF Matches
    <3>2. <<e, s>> \in w.manager.displays
             <=> e \in w.manager.renderers /\ s \in w.manager.heads[e]
      BY DEF Good, Sound, Matches
    <3>3. <<e, s>> \in OfCard(c) <=> e = c
      BY DEF OfCard
    <3>4. e # c => m.heads[e] = w.manager.heads[e]
      BY <2>2, <2>11, WorldIs
    <3> QED
      BY <2>11, <3>2, <3>3, <3>4
  <2>14. ConsoleFits(m)
    BY <2>11 DEF Good, Sound, ConsoleFits
  <2>15. Drawn(v, {})
    <3>1. k.displays = m.displays /\ k.renderersActivated = m.renderersActivated
      BY <2>5, <2>7 DEF Manager
    <3> QED
      BY <2>3, <2>4, <2>12, <3>1 DEF Drawn
  <2>16. Onward(w, v)
    BY <2>3, <2>11, <2>12 DEF Onward
  <2>17. Good(u) /\ Onward(v, u)
    <3>1. c \in v.manager.renderers
      BY <2>11, <2>12
    <3> QED
      BY <2>8, <2>12, <2>13, <2>14, <2>15, <3>1, CreatePixelDisplaysIs
  <2> QED
    BY <2>16, <2>17, RedrawnIs
<1> QED
  BY <1>1, <1>2

LEMMA OnAddOrChangeIs ==
  ASSUME NEW w, Good(w), NEW e \in Event, NEW u, u = OnAddOrChange(w, e)
  PROVE  /\ Good(u) /\ Onward(w, u)
         /\ e.device \in Input \cap w.hardware.plugged => e.device \in u.manager.devices
<1>1. e.device \in Card \cup Input /\ w.manager.renderers \subseteq Card
  BY WorldIs DEF Event, Good
<1>2. CASE e.device \notin w.manager.renderers
  BY <1>1, <1>2, CreateForUdevDeviceIs DEF OnAddOrChange
<1>3. CASE e.device \in w.manager.renderers
  <2>1. e.device \notin Input
    BY <1>1, <1>3, Assumed
  <2>2. u = w \/ u = OnChange(w, e.device)
    BY <1>3 DEF OnAddOrChange
  <2> QED
    BY <1>3, <2>1, <2>2, OnChangeIs, RedrawnIs
<1> QED
  BY <1>2, <1>3

-----------------------------------------------------------------------------
(* The udev events.                                                         *)

LEMMA MaxIs ==
  ASSUME NEW n \in Nat, NEW s \in SUBSET (1..n), s # {}
  PROVE  Max(s) \in s
<1>1. PICK T : T = {n - i : i \in s}
  OBVIOUS
<1>2. T \in SUBSET Nat /\ T # {}
  <2> SUFFICES ASSUME NEW i \in s PROVE n - i \in Nat
    BY <1>1
  <2>1. i \in 1..n
    OBVIOUS
  <2> QED
    BY <2>1
<1>3. PICK t \in T : \A m \in T : t <= m
  BY <1>2, LeastIs
<1>4. PICK i \in s : t = n - i
  BY <1>1, <1>3
<1>5. ASSUME NEW j \in s PROVE i >= j
  <2>1. n - i <= n - j
    BY <1>1, <1>3, <1>4
  <2>2. i \in 1..n /\ j \in 1..n
    OBVIOUS
  <2> QED
    BY <2>1, <2>2
<1> QED
  BY <1>4, <1>5 DEF Max

ProcessedTo(w, q, it, s) ==
    IF s = {} THEN w
    ELSE LET x == Max(s)
         IN  Then(it[s \ {x}], LAMBDA u : OnAddOrChange(u, q[x]))

Processed(w, q) == CHOOSE it : it = [s \in SUBSET DOMAIN q |-> ProcessedTo(w, q, it, s)]

LEMMA ProcessEventsIs ==
  ASSUME NEW w, Good(w), NEW q \in Seq(Event), NEW u, u = ProcessEvents(w, q)
  PROVE  /\ Good(u) /\ Onward(w, u)
         /\ \A k \in DOMAIN q :
                q[k].device \in Input \cap w.hardware.plugged
                    => q[k].device \in u.manager.devices
<1>1. PICK n, S : n \in Nat /\ S = 1..n /\ DOMAIN q = S /\ n = Len(q)
  OBVIOUS
<1> DEFINE It(it) == it = [s \in SUBSET S |-> ProcessedTo(w, q, it, s)]
<1>2. PICK G : G = {v \in World : Sound(v) /\ Onward(w, v)}
  OBVIOUS
<1>3. PICK F : F = [x \in S \X G |-> OnAddOrChange(x[2], q[x[1]])]
  OBVIOUS
<1>4. PICK pick : pick = [s \in SUBSET S |-> Max(s)]
  OBVIOUS
<1>5. IsFiniteSet(S) /\ Chooses(pick, S) /\ w \in G
  <2>1. IsFiniteSet(S)
    BY <1>1, FS_Interval
  <2>2. w \in G
    BY <1>2, RedrawnIs DEF Good
  <2>3. Chooses(pick, S)
    <3> SUFFICES ASSUME NEW s \in SUBSET S, s # {} PROVE pick[s] \in s
      BY DEF Chooses
    <3>1. Max(s) \in s
      BY <1>1, MaxIs
    <3> QED
      BY <1>4, <3>1
  <2> QED
    BY <2>1, <2>2, <2>3
<1>6. ASSUME NEW k \in S, NEW v \in G, NEW y, y = OnAddOrChange(v, q[k])
      PROVE  /\ y \in G /\ v.manager.devices \subseteq y.manager.devices
             /\ q[k].device \in Input \cap w.hardware.plugged
                    => q[k].device \in y.manager.devices
  <2>1. Good(v) /\ Onward(w, v)
    BY <1>2 DEF Good
  <2>2. PICK e \in Event : e = q[k]
    BY <1>1
  <2>3. /\ Good(y) /\ Onward(v, y)
        /\ e.device \in Input \cap v.hardware.plugged => e.device \in y.manager.devices
    BY <1>6, <2>1, <2>2, OnAddOrChangeIs
  <2>4. y \in G
    BY <1>2, <2>1, <2>3, RedrawnIs DEF Good
  <2> QED
    BY <2>1, <2>2, <2>3, <2>4 DEF Onward
<1>7. F \in [S \X G -> G]
  BY <1>3, <1>6
<1>8. ASSUME NEW it, NEW s \in SUBSET S
      PROVE  /\ s = {} => ProcessedTo(w, q, it, s) = w
             /\ s # {} => ProcessedTo(w, q, it, s)
                              = OnAddOrChange(it[s \ {pick[s]}], q[pick[s]])
  <2>1. s = {} => ProcessedTo(w, q, it, s) = w
    BY DEF ProcessedTo
  <2>2. PICK x : x = Max(s)
    OBVIOUS
  <2>3. PICK y : y = it[s \ {x}]
    OBVIOUS
  <2>4. PICK z : z = OnAddOrChange(y, q[x])
    OBVIOUS
  <2>5. s # {} => ProcessedTo(w, q, it, s) = CHOOSE v \in {z} : TRUE
    BY <2>2, <2>3, <2>4 DEF ProcessedTo, Then
  <2>6. x = pick[s]
    BY <1>4, <2>2
  <2> QED
    BY <2>1, <2>3, <2>4, <2>5, <2>6
<1>9. ASSUME NEW it, NEW s \in SUBSET S, s # {}, it[s \ {pick[s]}] \in G
      PROVE  ProcessedTo(w, q, it, s) = F[<<pick[s], it[s \ {pick[s]}]>>]
  <2>1. pick[s] \in S
    BY <1>5, <1>9 DEF Chooses
  <2>2. F[<<pick[s], it[s \ {pick[s]}]>>] = OnAddOrChange(it[s \ {pick[s]}], q[pick[s]])
    BY <1>3, <1>9, <2>1
  <2> QED
    BY <1>8, <1>9, <2>2
<1>10. \E it : It(it)
  <2>1. PICK it \in [SUBSET S -> G] : Folds(it, S, pick, G, w, F)
    BY <1>5, <1>7, FoldExists
  <2>2. ASSUME NEW s \in SUBSET S PROVE it[s] = ProcessedTo(w, q, it, s)
    <3>1. it[s \ {pick[s]}] \in G
      BY <2>1
    <3>2. /\ s = {} => it[s] = w
          /\ s # {} => it[s] = F[<<pick[s], it[s \ {pick[s]}]>>]
      BY <2>1, <3>1 DEF Folds
    <3> QED
      BY <1>8, <1>9, <3>1, <3>2
  <2> QED
    BY <2>1, <2>2
<1>11. It(Processed(w, q))
  <2>1. Processed(w, q) = CHOOSE it : It(it)
    BY <1>1 DEF Processed
  <2> HIDE DEF It
  <2> QED
    BY <1>10, <2>1
<1>12. PICK it : it = Processed(w, q)
  OBVIOUS
<1>13. \A s \in SUBSET S : it[s] = ProcessedTo(w, q, it, s)
  BY <1>11, <1>12
<1>14. PICK P : P = {s \in SUBSET S :
                        /\ it[s] \in G
                        /\ \A k \in s : q[k].device \in Input \cap w.hardware.plugged
                                            => q[k].device \in it[s].manager.devices}
  OBVIOUS
<1>15. P \in SUBSET SUBSET S /\ {} \in P
  <2>1. it[{}] = w
    BY <1>8, <1>13
  <2> QED
    BY <1>5, <1>14, <2>1
<1>16. ASSUME NEW s \in SUBSET S, s # {}, s \ {pick[s]} \in P PROVE s \in P
  <2>1. PICK x, y : x = pick[s] /\ y = it[s \ {x}]
    OBVIOUS
  <2>2. /\ x \in s /\ y \in G
        /\ \A k \in s \ {x} : q[k].device \in Input \cap w.hardware.plugged
                                  => q[k].device \in y.manager.devices
    BY <1>5, <1>14, <1>16, <2>1 DEF Chooses
  <2>3. PICK z : z = OnAddOrChange(y, q[x])
    OBVIOUS
  <2>4. /\ z \in G /\ y.manager.devices \subseteq z.manager.devices
        /\ q[x].device \in Input \cap w.hardware.plugged
               => q[x].device \in z.manager.devices
    BY <1>6, <2>2, <2>3
  <2>5. it[s] = z
    BY <1>8, <1>13, <1>16, <2>1, <2>3
  <2>6. \A k \in s : q[k].device \in Input \cap w.hardware.plugged
                         => q[k].device \in z.manager.devices
    BY <2>2, <2>4
  <2> QED
    BY <1>14, <2>4, <2>5, <2>6
<1>17. S \in P
  BY <1>5, <1>15, <1>16, SubsetsInduction
<1>18. u = it[S]
  BY <1>1, <1>12 DEF ProcessEvents, FoldLeft, MapThenFoldSet, Processed, ProcessedTo
<1> QED
  BY <1>1, <1>2, <1>14, <1>17, <1>18 DEF Good

Accepting == [world : World, pending : Seq(Event)]

(* A device that an event was about is known, or its event is pending, or   *)
(* no device matters any more.                                              *)
Knows(a, d) ==
    \/ a.world.manager.managed /\ a.world.manager.isText
    \/ d \in a.world.manager.devices
    \/ \E k \in DOMAIN a.pending : a.pending[k].device = d

LEMMA ReceiveIs ==
  ASSUME NEW a \in Accepting, Sound(a.world),
         NEW e \in Event, NEW b, b = Receive(a, e)
  PROVE  /\ b \in Accepting /\ Sound(b.world) /\ Onward(a.world, b.world)
         /\ \A d \in Input \cap a.world.hardware.plugged : Knows(a, d) => Knows(b, d)
         /\ e.action = "add" /\ e.device \in Input \cap a.world.hardware.plugged
                => Knows(b, e.device)
<1> a.world \in World /\ a.pending \in Seq(Event) /\ Good(a.world)
  BY DEF Accepting, Good
<1>1. CASE e.action = "remove"
  <2>1. PICK v : v = ProcessEvents(a.world, a.pending)
    OBVIOUS
  <2>2. PICK f : f = FreeDevices(v, e.device)
    OBVIOUS
  <2>3. b = [world |-> f, pending |-> <<>>]
    <3>1. b = [world |-> Then(ProcessEvents(a.world, a.pending),
                              LAMBDA y : FreeDevices(y, e.device)), pending |-> <<>>]
      BY <1>1 DEF Receive
    <3>2. Then(ProcessEvents(a.world, a.pending), LAMBDA y : FreeDevices(y, e.device))
              = CHOOSE y \in {f} : TRUE
      BY <2>1, <2>2 DEF Then
    <3> QED
      BY <1>1, <2>1, <2>2, <3>2 DEF Receive, Then
  <2>4. /\ Good(v) /\ Onward(a.world, v)
        /\ \A k \in DOMAIN a.pending :
               a.pending[k].device \in Input \cap a.world.hardware.plugged
                   => a.pending[k].device \in v.manager.devices
    BY <2>1, ProcessEventsIs
  <2>5. Good(f) /\ Onward(v, f)
    <3>1. CASE e.device \in v.manager.renderers
      <4>1. e.device \in Card
        BY <2>4, <3>1, WorldIs DEF Good
      <4> QED
        BY <2>2, <2>4, <4>1, FreeDevicesIs
    <3>2. CASE e.device \notin v.manager.renderers
      <4>1. f = v
        BY <2>2, <3>2 DEF FreeDevices
      <4> QED
        BY <2>4, <4>1, RedrawnIs
    <3> QED
      BY <3>1, <3>2
  <2>6. Onward(a.world, f)
    BY <2>4, <2>5, RedrawnIs
  <2>7. b.world = f /\ b.pending = <<>> /\ b \in Accepting
    BY <2>3, <2>5 DEF Accepting, Good
  <2>8. ASSUME NEW d \in Input \cap a.world.hardware.plugged, Knows(a, d)
        PROVE  Knows(b, d)
    <3>1. v.manager.devices \subseteq f.manager.devices
      BY <2>5 DEF Onward
    <3>2. a.world.manager.devices \subseteq f.manager.devices
      BY <2>6 DEF Onward
    <3>3. a.world.manager.managed /\ a.world.manager.isText
              => f.manager.managed /\ f.manager.isText
      BY <2>6 DEF Onward
    <3>4. ASSUME NEW k \in DOMAIN a.pending, a.pending[k].device = d
          PROVE  d \in f.manager.devices
      BY <2>4, <3>1, <3>4
    <3> QED
      BY <2>7, <2>8, <3>2, <3>3, <3>4 DEF Knows
  <2> QED
    BY <1>1, <2>5, <2>6, <2>7, <2>8 DEF Good
<1>2. CASE e.action # "remove"
  <2> DEFINE Skips == \/ ~VerifyAddOrChange(a.world.manager, e)
                      \/ \E k \in DOMAIN a.pending : a.pending[k].device = e.device
  <2>1. CASE Skips
    <3>1. b = a
      BY <1>2, <2>1 DEF Receive
    <3>2. e.device \in Input => Knows(a, e.device)
      <4>1. e.device \in Input => e.device \notin FrameBuffer
        BY Assumed
      <4> QED
        BY <2>1, <4>1 DEF VerifyAddOrChange, Knows
    <3> QED
      BY <1>2, <3>1, <3>2, RedrawnIs
  <2>2. CASE ~Skips
    <3>1. PICK p : p = Append(a.pending, e)
      OBVIOUS
    <3>2. b = [a EXCEPT !.pending = p]
      BY <1>2, <2>2, <3>1 DEF Receive
    <3>3. p \in Seq(Event)
      BY <3>1
    <3>4. /\ \A k \in DOMAIN a.pending : k \in DOMAIN p /\ p[k] = a.pending[k]
          /\ \E k \in DOMAIN p : p[k] = e
      <4>1. PICK n : n = Len(a.pending) /\ n \in Nat /\ DOMAIN a.pending = 1..n
        OBVIOUS
      <4>2. DOMAIN p = 1..(n + 1) /\ p[n + 1] = e
            /\ \A k \in 1..n : p[k] = a.pending[k]
        BY <3>1, <4>1
      <4> QED
        BY <4>1, <4>2
    <3>5. b \in Accepting /\ b.world = a.world /\ b.pending = p
      BY <3>2, <3>3 DEF Accepting
    <3> QED
      BY <3>4, <3>5, RedrawnIs DEF Knows
  <2> QED
    BY <2>1, <2>2
<1> QED
  BY <1>1, <1>2

ReceivedTo(a, q, it, s) ==
    IF s = {} THEN a
    ELSE LET x == Max(s)
         IN  Then(it[s \ {x}], LAMBDA u : Receive(u, q[x]))

Received(a, q) == CHOOSE it : it = [s \in SUBSET DOMAIN q |-> ReceivedTo(a, q, it, s)]

(* After the events of q, the keyboards that were added and still are there *)
(* are known, if any device matters.                                        *)
LEMMA UdevEventsIs ==
  ASSUME NEW w, Good(w), NEW q \in Seq(Event), NEW u, u = UdevEvents(w, q)
  PROVE  /\ Good(u) /\ Onward(w, u)
         /\ \A d \in Added(q) \cap Input \cap w.hardware.plugged :
                ~(u.manager.managed /\ u.manager.isText) => d \in u.manager.devices
<1>1. PICK n, S : n \in Nat /\ S = 1..n /\ DOMAIN q = S /\ n = Len(q)
  OBVIOUS
<1>2. PICK base : base = [world |-> w, pending |-> <<>>]
  OBVIOUS
<1> DEFINE It(it) == it = [s \in SUBSET S |-> ReceivedTo(base, q, it, s)]
<1>3. PICK G : G = {v \in Accepting : Sound(v.world) /\ Onward(w, v.world)}
  OBVIOUS
<1>4. PICK F : F = [x \in S \X G |-> Receive(x[2], q[x[1]])]
  OBVIOUS
<1>5. PICK pick : pick = [s \in SUBSET S |-> Max(s)]
  OBVIOUS
<1>6. IsFiniteSet(S) /\ Chooses(pick, S) /\ base \in G
  <2>1. IsFiniteSet(S)
    BY <1>1, FS_Interval
  <2>2. base \in Accepting /\ base.world = w
    BY <1>2 DEF Good, Accepting
  <2>3. base \in G
    BY <1>3, <2>2, RedrawnIs DEF Good
  <2>4. Chooses(pick, S)
    <3> SUFFICES ASSUME NEW s \in SUBSET S, s # {} PROVE pick[s] \in s
      BY DEF Chooses
    <3>1. Max(s) \in s
      BY <1>1, MaxIs
    <3> QED
      BY <1>5, <3>1
  <2> QED
    BY <2>1, <2>3, <2>4
<1>7. ASSUME NEW k \in S, NEW v \in G, NEW y, y = Receive(v, q[k])
      PROVE  /\ y \in G
             /\ \A d \in Input \cap w.hardware.plugged : Knows(v, d) => Knows(y, d)
             /\ q[k].action = "add" /\ q[k].device \in Input \cap w.hardware.plugged
                    => Knows(y, q[k].device)
  <2>1. v \in Accepting /\ Sound(v.world) /\ Onward(w, v.world)
    BY <1>3
  <2>2. PICK e \in Event : e = q[k]
    BY <1>1
  <2>3. /\ y \in Accepting /\ Sound(y.world) /\ Onward(v.world, y.world)
        /\ \A d \in Input \cap v.world.hardware.plugged : Knows(v, d) => Knows(y, d)
        /\ e.action = "add" /\ e.device \in Input \cap v.world.hardware.plugged
               => Knows(y, e.device)
    BY <1>7, <2>1, <2>2, ReceiveIs
  <2>4. y \in G
    BY <1>3, <2>1, <2>3, RedrawnIs
  <2> QED
    BY <2>1, <2>2, <2>3, <2>4 DEF Onward
<1>8. F \in [S \X G -> G]
  BY <1>4, <1>7
<1>9. ASSUME NEW it, NEW s \in SUBSET S
      PROVE  /\ s = {} => ReceivedTo(base, q, it, s) = base
             /\ s # {} => ReceivedTo(base, q, it, s)
                              = Receive(it[s \ {pick[s]}], q[pick[s]])
  <2>1. s = {} => ReceivedTo(base, q, it, s) = base
    BY DEF ReceivedTo
  <2>2. PICK x : x = Max(s)
    OBVIOUS
  <2>3. PICK y : y = it[s \ {x}]
    OBVIOUS
  <2>4. PICK z : z = Receive(y, q[x])
    OBVIOUS
  <2>5. s # {} => ReceivedTo(base, q, it, s) = CHOOSE v \in {z} : TRUE
    BY <2>2, <2>3, <2>4 DEF ReceivedTo, Then
  <2>6. x = pick[s]
    BY <1>5, <2>2
  <2> QED
    BY <2>1, <2>3, <2>4, <2>5, <2>6
<1>10. ASSUME NEW it, NEW s \in SUBSET S, s # {}, it[s \ {pick[s]}] \in G
       PROVE  ReceivedTo(base, q, it, s) = F[<<pick[s], it[s \ {pick[s]}]>>]
  <2>1. pick[s] \in S
    BY <1>6, <1>10 DEF Chooses
  <2>2. F[<<pick[s], it[s \ {pick[s]}]>>] = Receive(it[s \ {pick[s]}], q[pick[s]])
    BY <1>4, <1>10, <2>1
  <2> QED
    BY <1>9, <1>10, <2>2
<1>11. \E it : It(it)
  <2>1. PICK it \in [SUBSET S -> G] : Folds(it, S, pick, G, base, F)
    BY <1>6, <1>8, FoldExists
  <2>2. ASSUME NEW s \in SUBSET S PROVE it[s] = ReceivedTo(base, q, it, s)
    <3>1. it[s \ {pick[s]}] \in G
      BY <2>1
    <3>2. /\ s = {} => it[s] = base
          /\ s # {} => it[s] = F[<<pick[s], it[s \ {pick[s]}]>>]
      BY <2>1, <3>1 DEF Folds
    <3> QED
      BY <1>9, <1>10, <3>1, <3>2
  <2> QED
    BY <2>1, <2>2
<1>12. It(Received(base, q))
  <2>1. Received(base, q) = CHOOSE it : It(it)
    BY <1>1 DEF Received
  <2> HIDE DEF It
  <2> QED
    BY <1>11, <2>1
<1>13. PICK it : it = Received(base, q)
  OBVIOUS
<1>14. \A s \in SUBSET S : it[s] = ReceivedTo(base, q, it, s)
  BY <1>12, <1>13
<1>15. PICK P : P = {s \in SUBSET S :
                        /\ it[s] \in G
                        /\ \A k \in s :
                               q[k].action = "add"
                               /\ q[k].device \in Input \cap w.hardware.plugged
                                   => Knows(it[s], q[k].device)}
  OBVIOUS
<1>16. P \in SUBSET SUBSET S /\ {} \in P
  <2>1. it[{}] = base
    BY <1>9, <1>14
  <2> QED
    BY <1>6, <1>15, <2>1
<1>17. ASSUME NEW s \in SUBSET S, s # {}, s \ {pick[s]} \in P PROVE s \in P
  <2>1. PICK x, y : x = pick[s] /\ y = it[s \ {x}]
    OBVIOUS
  <2>2. /\ x \in s /\ y \in G
        /\ \A k \in s \ {x} : q[k].action = "add"
                              /\ q[k].device \in Input \cap w.hardware.plugged
                                  => Knows(y, q[k].device)
    BY <1>6, <1>15, <1>17, <2>1 DEF Chooses
  <2>3. PICK z : z = Receive(y, q[x])
    OBVIOUS
  <2>4. /\ z \in G
        /\ \A d \in Input \cap w.hardware.plugged : Knows(y, d) => Knows(z, d)
        /\ q[x].action = "add" /\ q[x].device \in Input \cap w.hardware.plugged
               => Knows(z, q[x].device)
    BY <1>7, <2>2, <2>3
  <2>5. it[s] = z
    BY <1>9, <1>14, <1>17, <2>1, <2>3
  <2>6. \A k \in s : q[k].action = "add"
                     /\ q[k].device \in Input \cap w.hardware.plugged
                         => Knows(z, q[k].device)
    BY <2>2, <2>4
  <2> QED
    BY <1>15, <2>4, <2>5, <2>6
<1>18. S \in P
  BY <1>6, <1>16, <1>17, SubsetsInduction
<1>19. PICK a : a = it[S]
  OBVIOUS
<1>20. u = ProcessEvents(a.world, a.pending)
  <2>1. a = FoldLeft(LAMBDA acc, e : Then(acc, LAMBDA b : Receive(b, e)),
                     [world |-> w, pending |-> <<>>], q)
    BY <1>1, <1>2, <1>13, <1>19 DEF FoldLeft, MapThenFoldSet, Received, ReceivedTo
  <2>2. PICK x : x = ProcessEvents(a.world, a.pending)
    OBVIOUS
  <2>3. u = CHOOSE v \in {x} : TRUE
    BY <2>1, <2>2 DEF UdevEvents, Then
  <2> QED
    BY <2>2, <2>3
<1>21. a \in Accepting /\ Sound(a.world) /\ Onward(w, a.world)
  BY <1>3, <1>15, <1>18, <1>19
<1>22. a.pending \in Seq(Event) /\ Good(a.world)
  BY <1>21 DEF Accepting, Good
<1>23. /\ Good(u) /\ Onward(a.world, u)
       /\ \A k \in DOMAIN a.pending :
              a.pending[k].device \in Input \cap a.world.hardware.plugged
                  => a.pending[k].device \in u.manager.devices
  BY <1>20, <1>22, ProcessEventsIs
<1>24. ASSUME NEW d \in Added(q) \cap Input \cap w.hardware.plugged,
              ~(u.manager.managed /\ u.manager.isText)
       PROVE  d \in u.manager.devices
  <2>1. PICK k \in S : q[k].action = "add" /\ q[k].device = d
    BY <1>1 DEF Added
  <2>2. Knows(a, d)
    BY <1>15, <1>18, <1>19, <2>1
  <2>3. /\ a.world.hardware = w.hardware
        /\ a.world.manager.devices \subseteq u.manager.devices
        /\ ~(a.world.manager.managed /\ a.world.manager.isText)
    BY <1>21, <1>23, <1>24 DEF Onward
  <2> QED
    BY <1>23, <2>2, <2>3 DEF Knows
<1>25. Onward(w, u)
  BY <1>21, <1>23, RedrawnIs
<1> QED
  BY <1>23, <1>24, <1>25

-----------------------------------------------------------------------------
(* The steps keep the invariant.                                            *)

(* A paused manager opens no renderer in this step.                         *)
OpensNothing ==
    manager.paused /\ manager'.paused => manager'.renderers \subseteq manager.renderers

LEMMA NowIs ==
  ASSUME IInv
  PROVE  /\ Good(now) /\ now \in World
         /\ now.manager = manager /\ now.daemon = daemon /\ now.missed = missed
         /\ now.hardware = [plugged |-> plugged, screens |-> screens]
         /\ now.hardware.plugged = plugged
<1>1. now \in World
  BY DEF IInv, TypeOK, now, World, Hardware
<1>2. /\ now.manager = manager /\ now.daemon = daemon /\ now.missed = missed
      /\ now.hardware = [plugged |-> plugged, screens |-> screens]
      /\ now.hardware.plugged = plugged
  BY DEF now
<1> QED
  BY <1>1, <1>2 DEF IInv, Good

(* A handler that takes the world to u takes the state to what u holds.     *)
LEMMA BecomesIs ==
  ASSUME NEW u, Good(u), manager' = u.manager, daemon' = u.daemon, missed' = u.missed
  PROVE  Sound(now)' /\ manager' \in Manager /\ daemon' \in Daemon /\ missed' \subseteq Display
<1>1. Matches(u, {}) /\ ConsoleFits(u.manager) /\ Drawn(u, {}) /\ u \in World
  BY DEF Good, Sound
<1>2. Matches(now, {})'
  BY <1>1 DEF Matches, now
<1>3. ConsoleFits(now.manager)'
  BY <1>1 DEF ConsoleFits, now
<1>4. Drawn(now, {})'
  BY <1>1 DEF Drawn, now
<1>5. Sound(now)'
  BY <1>2, <1>3, <1>4 DEF Sound
<1> QED
  BY <1>1, <1>5, WorldIs

LEMMA BecomeIs ==
  ASSUME NEW u, Become(u)
  PROVE  manager' = u.manager /\ daemon' = u.daemon /\ missed' = u.missed
BY DEF Become

(* Nothing but the hardware and its events changes.                         *)
LEMMA SoftwareStays ==
  ASSUME IInv, UNCHANGED Software
  PROVE  Sound(now)' /\ manager' = manager /\ daemon' = daemon /\ missed' = missed
         /\ HandedOver'
<1>1. manager' = manager /\ daemon' = daemon /\ missed' = missed /\ unmapped' = unmapped
  BY DEF Software
<1>2. HandedOver'
  BY <1>1 DEF IInv, HandedOver
<1> QED
  BY <1>1, <1>2, BecomesIs, NowIs

LEMMA AddedIs ==
  /\ Added(<<>>) = {}
  /\ \A q \in Seq(Event), e \in Event :
         /\ Append(q, e) \in Seq(Event)
         /\ Added(q) \subseteq Added(Append(q, e))
         /\ e.action = "add" => e.device \in Added(Append(q, e))
<1>1. Added(<<>>) = {}
  BY DEF Added
<1>2. ASSUME NEW q \in Seq(Event), NEW e \in Event
      PROVE  /\ Append(q, e) \in Seq(Event)
             /\ Added(q) \subseteq Added(Append(q, e))
             /\ e.action = "add" => e.device \in Added(Append(q, e))
  <2>1. PICK p : p = Append(q, e)
    OBVIOUS
  <2>2. PICK n : n = Len(q) /\ n \in Nat /\ DOMAIN q = 1..n
    OBVIOUS
  <2>3. /\ p \in Seq(Event) /\ DOMAIN p = 1..(n + 1) /\ p[n + 1] = e
        /\ \A k \in 1..n : p[k] = q[k]
    BY <2>1, <2>2
  <2>4. \A k \in DOMAIN q : k \in DOMAIN p /\ p[k] = q[k]
    BY <2>2, <2>3
  <2>5. n + 1 \in DOMAIN p /\ p[n + 1] = e
    BY <2>2, <2>3
  <2> QED
    BY <2>1, <2>3, <2>4, <2>5 DEF Added
<1> QED
  BY <1>1, <1>2

LEMMA PlugIs ==
  ASSUME IInv, NEW d \in Card \cup Input, Plug(d)
  PROVE  IInv' /\ OpensNothing
<1>1. PICK e : e = [action |-> "add", device |-> d]
  OBVIOUS
<1>2. e \in Event /\ udev \in Seq(Event) /\ udev' = Append(udev, e)
  BY <1>1 DEF Plug, Queue, IInv, TypeOK, Event
<1>3. /\ udev' \in Seq(Event) /\ Added(udev) \subseteq Added(udev') /\ d \in Added(udev')
  BY <1>1, <1>2, AddedIs
<1>4. Sound(now)' /\ manager' = manager /\ daemon' = daemon /\ missed' = missed
      /\ HandedOver'
  BY SoftwareStays DEF Plug
<1>5. screens' \in [Card -> SUBSET Screen]
  <2>1. screens \in [Card -> SUBSET Screen]
    BY DEF IInv, TypeOK
  <2>2. CASE d \notin Card
    BY <2>1, <2>2 DEF Plug
  <2>3. CASE d \in Card
    <3>1. PICK s : s \in Connected[d] /\ screens' = [screens EXCEPT ![d] = s]
      BY <2>3 DEF Plug
    <3>2. s \in SUBSET Screen
      BY <2>3, <3>1, DevicesAssumption
    <3> QED
      BY <2>1, <3>1, <3>2
  <2> QED
    BY <2>2, <2>3
<1>6. /\ plugged' = plugged \cup {d} /\ hungup' = hungup /\ unmapped' = unmapped
      /\ replugged' = IF d \in manager.devices THEN replugged \cup {d} ELSE replugged
  BY DEF Plug, Software
<1>7. TypeOK'
  <2>1. manager.devices \subseteq Input
    BY DEF IInv, TypeOK, Manager
  <2> QED
    BY <1>3, <1>4, <1>5, <1>6, <2>1 DEF IInv, TypeOK
<1>8. KeyboardsFit'
  BY <1>3, <1>4, <1>6 DEF IInv, KeyboardsFit
<1>9. OpensNothing
  BY <1>4 DEF OpensNothing
<1> QED
  BY <1>4, <1>7, <1>8, <1>9 DEF IInv

LEMMA UnplugIs ==
  ASSUME IInv, NEW d \in Card \cup Input, Unplug(d)
  PROVE  IInv' /\ OpensNothing
<1>1. PICK e : e = [action |-> "remove", device |-> d]
  OBVIOUS
<1>2. e \in Event /\ udev \in Seq(Event) /\ udev' = Append(udev, e)
  BY <1>1 DEF Unplug, Queue, IInv, TypeOK, Event
<1>3. udev' \in Seq(Event) /\ Added(udev) \subseteq Added(udev')
  BY <1>1, <1>2, AddedIs
<1>4. Sound(now)' /\ manager' = manager /\ daemon' = daemon /\ missed' = missed
      /\ HandedOver'
  BY SoftwareStays DEF Unplug
<1>5. screens' \in [Card -> SUBSET Screen]
  BY DEF Unplug, IInv, TypeOK
<1>6. /\ plugged' = plugged \ {d} /\ unmapped' = unmapped /\ replugged' = replugged \ {d}
      /\ hungup' = IF d \in manager.devices THEN hungup \cup {d} ELSE hungup
  BY DEF Unplug, Software
<1>7. TypeOK'
  <2>1. manager.devices \subseteq Input
    BY DEF IInv, TypeOK, Manager
  <2> QED
    BY <1>3, <1>4, <1>5, <1>6, <2>1 DEF IInv, TypeOK
<1>8. KeyboardsFit'
  BY <1>3, <1>4, <1>6 DEF IInv, KeyboardsFit
<1>9. OpensNothing
  BY <1>4 DEF OpensNothing
<1> QED
  BY <1>4, <1>7, <1>8, <1>9 DEF IInv

LEMMA HotplugIs ==
  ASSUME IInv, NEW c \in Card, Hotplug(c)
  PROVE  IInv' /\ OpensNothing
<1>1. PICK e : e = [action |-> "change", device |-> c]
  OBVIOUS
<1>2. e \in Event /\ udev \in Seq(Event) /\ udev' = Append(udev, e)
  BY <1>1 DEF Hotplug, Queue, IInv, TypeOK, Event
<1>3. udev' \in Seq(Event) /\ Added(udev) \subseteq Added(udev')
  BY <1>1, <1>2, AddedIs
<1>4. Sound(now)' /\ manager' = manager /\ daemon' = daemon /\ missed' = missed
      /\ HandedOver'
  BY SoftwareStays DEF Hotplug
<1>5. screens' \in [Card -> SUBSET Screen]
  <2>1. PICK s : s \in Connected[c] /\ screens' = [screens EXCEPT ![c] = s]
    BY DEF Hotplug
  <2>2. s \in SUBSET Screen
    BY <2>1, DevicesAssumption
  <2> QED
    BY <2>1, <2>2 DEF IInv, TypeOK
<1>6. plugged' = plugged /\ unmapped' = unmapped /\ replugged' = replugged
      /\ hungup' = hungup
  BY DEF Hotplug, Software
<1>7. TypeOK'
  BY <1>3, <1>4, <1>5, <1>6 DEF IInv, TypeOK
<1>8. KeyboardsFit'
  BY <1>3, <1>4, <1>6 DEF IInv, KeyboardsFit
<1>9. OpensNothing
  BY <1>4 DEF OpensNothing
<1> QED
  BY <1>4, <1>7, <1>8, <1>9 DEF IInv

LEMMA OnUdevEventIs ==
  ASSUME IInv, OnUdevEvent
  PROVE  IInv' /\ OpensNothing
<1>1. PICK w : w = now
  OBVIOUS
<1>2. PICK u : u = UdevEvents(w, udev)
  OBVIOUS
<1>3. /\ Good(w) /\ w.manager = manager /\ w.daemon = daemon
      /\ w.hardware.plugged = plugged /\ udev \in Seq(Event)
  BY <1>1, NowIs DEF IInv, TypeOK
<1>4. manager' = u.manager /\ daemon' = u.daemon /\ missed' = u.missed
  BY <1>1, <1>2, BecomeIs DEF OnUdevEvent
<1>5. /\ Good(u) /\ Onward(w, u)
      /\ \A d \in Added(udev) \cap Input \cap plugged :
             ~(u.manager.managed /\ u.manager.isText) => d \in u.manager.devices
  BY <1>2, <1>3, UdevEventsIs
<1>6. /\ Sound(now)' /\ manager' \in Manager /\ daemon' \in Daemon
      /\ missed' \subseteq Display
  BY <1>4, <1>5, BecomesIs
<1>7. /\ plugged' = plugged /\ screens' = screens /\ hungup' = hungup
      /\ udev' = <<>> /\ replugged' = replugged /\ unmapped' = unmapped
      /\ manager.watching
  BY DEF OnUdevEvent
<1>8. TypeOK'
  BY <1>6, <1>7 DEF IInv, TypeOK
<1>9. HandedOver'
  <2>1. /\ manager'.paused = manager.paused /\ daemon'.phase = daemon.phase
        /\ manager'.watching = manager.watching
        /\ ~manager'.renderersActivated =>
               ~manager.renderersActivated /\ manager'.master \subseteq manager.master
    BY <1>3, <1>4, <1>5 DEF Onward
  <2>2. daemon'.splash = "graphical" /\ ~manager'.renderersActivated
            => daemon'.phase = "inactive"
    BY <1>4, <1>5 DEF Good, Sound, Drawn
  <2> QED
    BY <1>7, <2>1, <2>2 DEF IInv, HandedOver
<1>10. KeyboardsFit'
  <2>1. /\ manager'.timeout = manager.timeout /\ manager'.elapsed = manager.elapsed
        /\ manager.devices \subseteq manager'.devices
        /\ manager.managed /\ manager.isText => manager'.managed /\ manager'.isText
    BY <1>3, <1>4, <1>5 DEF Onward
  <2>2. \A d \in Added(udev) \cap Input \cap plugged :
            ~(manager'.managed /\ manager'.isText) => d \in manager'.devices
    BY <1>4, <1>5
  <2> QED
    BY <1>7, <2>1, <2>2 DEF IInv, KeyboardsFit
<1>11. OpensNothing
  BY <1>7 DEF IInv, HandedOver, OpensNothing
<1> QED
  BY <1>6, <1>8, <1>9, <1>10, <1>11 DEF IInv

LEMMA OnInputDisconnectIs ==
  ASSUME IInv, NEW i \in Input, OnInputDisconnect(i)
  PROVE  IInv' /\ OpensNothing
<1>1. PICK k, t : k = manager /\ t = [c \in Card |-> k.inputs[c] \ {i}]
  OBVIOUS
<1>2. k \in Manager /\ Matches(now, {}) /\ ConsoleFits(k) /\ Drawn(now, {})
      /\ now.manager = k /\ now.daemon = daemon /\ now.missed = missed
  BY <1>1, NowIs DEF IInv, TypeOK, Sound
<1>3. t \in [Card -> SUBSET Input]
  BY <1>1, <1>2 DEF Manager
<1>4. manager' = [k EXCEPT !.devices = @ \ {i}, !.inputs = t]
  BY <1>1, <1>2 DEF OnInputDisconnect, Manager
<1>5. PICK m : m = manager'
  OBVIOUS
<1>6. m \in Manager
  BY ONLY <1>2, <1>3, <1>4, <1>5, ZenonT(60) DEF Manager
<1>7. /\ m.displays = k.displays /\ m.renderers = k.renderers
      /\ m.heads = k.heads /\ m.inputs = t
      /\ m.console = k.console /\ m.keyboards = k.keyboards
      /\ m.managed = k.managed /\ m.isText = k.isText
      /\ m.ttys = k.ttys /\ m.devices = k.devices \ {i} /\ m.master = k.master
      /\ m.mapped = k.mapped
      /\ m.renderersActivated = k.renderersActivated
      /\ m.paused = k.paused /\ m.elapsed = k.elapsed
      /\ m.watching = k.watching /\ m.timeout = k.timeout
  BY ONLY <1>2, <1>4, <1>5 DEF Manager
<1>8. /\ plugged' = plugged /\ screens' = screens /\ udev' = udev
      /\ daemon' = daemon /\ missed' = missed /\ replugged' = replugged
      /\ unmapped' = unmapped /\ hungup' = hungup \ {i} /\ i \in hungup
  BY DEF OnInputDisconnect
<1>9. ConsoleFits(m)
  <2>1. ASSUME NEW c \in k.renderers PROVE t[c] = m.devices
    <3>1. c \in Card /\ k.inputs[c] = k.devices
      BY <1>2 DEF ConsoleFits, Manager
    <3> QED
      BY <1>1, <1>7, <3>1
  <2> QED
    BY <1>2, <1>7, <2>1 DEF ConsoleFits
<1>10. PICK v : v = [now EXCEPT !.manager = m]
  OBVIOUS
<1>11. v \in World /\ v.manager = m /\ v.daemon = daemon /\ v.missed = missed
  BY <1>2, <1>6, <1>10, NowIs DEF World
<1>12. Good(v)
  <2>1. Matches(v, {})
    BY <1>2, <1>7, <1>11 DEF Matches
  <2>2. Drawn(v, {})
    BY <1>2, <1>7, <1>11 DEF Drawn
  <2> QED
    BY <1>9, <1>11, <2>1, <2>2 DEF Good, Sound
<1>13. Sound(now)'
  BY <1>5, <1>8, <1>11, <1>12, BecomesIs
<1>14. TypeOK'
  BY <1>5, <1>6, <1>8 DEF IInv, TypeOK
<1>15. HandedOver'
  BY <1>1, <1>5, <1>7, <1>8 DEF IInv, HandedOver
<1>16. KeyboardsFit'
  BY <1>1, <1>5, <1>7, <1>8 DEF IInv, KeyboardsFit
<1>17. OpensNothing
  BY <1>1, <1>5, <1>7 DEF OpensNothing
<1> QED
  BY <1>13, <1>14, <1>15, <1>16, <1>17 DEF IInv

LEMMA OnDeviceTimeoutIs ==
  ASSUME IInv, OnDeviceTimeout
  PROVE  IInv' /\ OpensNothing
<1>1. PICK k, m : k = manager /\ m = [k EXCEPT !.timeout = FALSE]
  OBVIOUS
<1>2. PICK w : w = [now EXCEPT !.manager = m]
  OBVIOUS
<1>3. k \in Manager /\ Matches(now, {}) /\ ConsoleFits(k) /\ Drawn(now, {})
      /\ now.manager = k /\ now.daemon = daemon /\ now.missed = missed
      /\ now.hardware.plugged = plugged /\ now \in World
  BY <1>1, NowIs DEF IInv, TypeOK, Sound
<1>4. /\ m \in Manager
      /\ m.displays = k.displays /\ m.renderers = k.renderers
      /\ m.heads = k.heads /\ m.inputs = k.inputs
      /\ m.console = k.console /\ m.keyboards = k.keyboards
      /\ m.managed = k.managed /\ m.isText = k.isText
      /\ m.ttys = k.ttys /\ m.devices = k.devices /\ m.master = k.master
      /\ m.mapped = k.mapped
      /\ m.renderersActivated = k.renderersActivated
      /\ m.paused = k.paused /\ m.elapsed = k.elapsed
      /\ m.watching = k.watching /\ m.timeout = FALSE
  BY <1>1, <1>3 DEF Manager
<1>5. /\ w \in World /\ w.manager = m /\ w.daemon = daemon /\ w.missed = missed
      /\ w.hardware.plugged = plugged
  BY <1>2, <1>3, <1>4 DEF World
<1>6. Good(w)
  <2>1. Matches(w, {})
    BY <1>3, <1>4, <1>5 DEF Matches
  <2>2. ConsoleFits(m)
    BY <1>3, <1>4 DEF ConsoleFits
  <2>3. Drawn(w, {})
    BY <1>3, <1>4, <1>5 DEF Drawn
  <2> QED
    BY <1>5, <2>1, <2>2, <2>3 DEF Good, Sound
<1>7. PICK u : u = CreateDevicesFromUdev(w)
  OBVIOUS
<1>8. manager' = u.manager /\ daemon' = u.daemon /\ missed' = u.missed
  <2>1. [now EXCEPT !.manager.timeout = FALSE] = w
    BY <1>1, <1>2, <1>3 DEF World
  <2> QED
    BY <1>7, <2>1, BecomeIs DEF OnDeviceTimeout
<1>9. PICK v : /\ Good(v) /\ Good(u) /\ Onward(v, u)
               /\ v.hardware = w.hardware /\ v.daemon = w.daemon
               /\ v.missed = w.missed
               /\ v.manager = [w.manager EXCEPT !.elapsed = TRUE]
               /\ w.manager.paused => u = v
               /\ ~w.manager.paused =>
                      Input \cap w.hardware.plugged \subseteq u.manager.devices
  BY <1>6, <1>7, CreateDevicesFromUdevIs
<1>10. /\ v.manager.managed = k.managed /\ v.manager.isText = k.isText
       /\ v.manager.devices = k.devices /\ v.manager.master = k.master
       /\ v.manager.mapped = k.mapped
       /\ v.manager.renderersActivated = k.renderersActivated
       /\ v.manager.paused = k.paused /\ v.manager.elapsed = TRUE
       /\ v.manager.watching = k.watching /\ v.manager.timeout = FALSE
  BY <1>4, <1>5, <1>9 DEF Manager
<1>11. /\ Sound(now)' /\ manager' \in Manager /\ daemon' \in Daemon
       /\ missed' \subseteq Display
  BY <1>8, <1>9, BecomesIs
<1>12. /\ plugged' = plugged /\ screens' = screens /\ hungup' = hungup
       /\ udev' = udev /\ replugged' = replugged /\ unmapped' = unmapped
       /\ k.timeout
  BY <1>1 DEF OnDeviceTimeout, kernel
<1>13. TypeOK'
  BY <1>11, <1>12 DEF IInv, TypeOK
<1>14. /\ manager'.paused = k.paused /\ daemon'.phase = daemon.phase
       /\ manager'.watching = k.watching /\ manager'.timeout = FALSE
       /\ manager'.elapsed = TRUE
       /\ ~manager'.renderersActivated =>
              ~k.renderersActivated /\ manager'.master \subseteq k.master
       /\ k.devices \subseteq manager'.devices
       /\ k.managed /\ k.isText => manager'.managed /\ manager'.isText
  BY <1>5, <1>8, <1>9, <1>10 DEF Onward
<1>15. daemon'.splash = "graphical" /\ ~manager'.renderersActivated
           => daemon'.phase = "inactive"
  BY <1>8, <1>9 DEF Good, Sound, Drawn
<1>16. CASE k.paused
  <2>1. manager'.mapped = k.mapped /\ manager'.devices = k.devices
        /\ manager'.managed = k.managed /\ manager'.isText = k.isText
        /\ daemon' = daemon
    BY <1>4, <1>5, <1>8, <1>9, <1>10, <1>16, ZenonT(60)
  <2>2. HandedOver'
    BY <1>1, <1>12, <1>14, <1>16, <2>1 DEF IInv, HandedOver
  <2>3. KeyboardsFit'
    BY <1>1, <1>12, <1>14, <2>1 DEF IInv, KeyboardsFit
  <2>4. OpensNothing
    <3>1. v.manager = [m EXCEPT !.elapsed = TRUE]
      BY <1>5, <1>9
    <3>2. v.manager.renderers = m.renderers
      BY <1>4, <3>1 DEF Manager
    <3>3. u = v
      BY <1>4, <1>5, <1>9, <1>16
    <3> QED
      BY <1>1, <1>4, <1>8, <3>2, <3>3 DEF OpensNothing
  <2> QED
    BY <1>11, <1>13, <2>2, <2>3, <2>4 DEF IInv
<1>17. CASE ~k.paused
  <2>1. Input \cap plugged \subseteq manager'.devices
    BY <1>4, <1>5, <1>8, <1>9, <1>17
  <2>2. HandedOver'
    BY <1>1, <1>12, <1>14, <1>15, <1>17 DEF IInv, HandedOver
  <2>3. KeyboardsFit'
    BY <1>1, <1>12, <1>14, <2>1 DEF IInv, KeyboardsFit
  <2>4. OpensNothing
    BY <1>1, <1>17 DEF OpensNothing
  <2> QED
    BY <1>11, <1>13, <2>2, <2>3, <2>4 DEF IInv
<1> QED
  BY <1>16, <1>17

(* Two managers with the same devices, and the same state of the console.   *)
SameDevices(k, m) ==
    /\ m.renderers = k.renderers /\ m.console = k.console
    /\ m.heads = k.heads /\ m.inputs = k.inputs
    /\ m.displays = k.displays /\ m.keyboards = k.keyboards
    /\ m.ttys = k.ttys /\ m.devices = k.devices
    /\ m.managed = k.managed /\ m.isText = k.isText
    /\ m.timeout = k.timeout /\ m.elapsed = k.elapsed

LEMMA SameDevicesIs ==
  /\ \A k, m, n : SameDevices(k, m) /\ SameDevices(m, n) => SameDevices(k, n)
  /\ \A v, w : SameDevices(v.manager, w.manager) /\ Matches(v, {}) => Matches(w, {})
  /\ \A k, m : SameDevices(k, m) /\ ConsoleFits(k) => ConsoleFits(m)
<1>1. \A k, m, n : SameDevices(k, m) /\ SameDevices(m, n) => SameDevices(k, n)
  BY DEF SameDevices
<1>2. \A v, w : SameDevices(v.manager, w.manager) /\ Matches(v, {}) => Matches(w, {})
  BY ZenonT(60) DEF SameDevices, Matches
<1>3. \A k, m : SameDevices(k, m) /\ ConsoleFits(k) => ConsoleFits(m)
  BY DEF SameDevices, ConsoleFits
<1> QED
  BY <1>1, <1>2, <1>3

LEMMA FlushIs ==
  ASSUME NEW k \in Manager, NEW cs \in SUBSET Card, NEW m, m = Flush(k, cs)
  PROVE  /\ m \in Manager /\ SameDevices(k, m)
         /\ m.mapped = k.mapped \cup cs
         /\ m.master = k.master \cup (cs \ k.mapped)
         /\ m.renderersActivated = k.renderersActivated
         /\ m.paused = k.paused /\ m.watching = k.watching
BY DEF Flush, Manager, SameDevices

LEMMA DeactivateRenderersIs ==
  ASSUME NEW k \in Manager, NEW m, m = DeactivateRenderers(k)
  PROVE  /\ m \in Manager /\ SameDevices(k, m)
         /\ m.mapped = k.mapped /\ m.master = {}
         /\ m.renderersActivated = FALSE
         /\ m.paused = k.paused /\ m.watching = k.watching
BY DEF DeactivateRenderers, Manager, SameDevices

LEMMA KeyboardsOnlyIs ==
  ASSUME NEW k \in Manager, NEW m, m = DeactivateKeyboards(k) \/ m = ActivateKeyboards(k)
  PROVE  /\ m \in Manager /\ SameDevices(k, m)
         /\ m.mapped = k.mapped /\ m.master = k.master
         /\ m.renderersActivated = k.renderersActivated
         /\ m.paused = k.paused /\ m.watching = k.watching
<1>1. CASE m = DeactivateKeyboards(k)
  BY <1>1 DEF DeactivateKeyboards, Manager, SameDevices
<1>2. CASE m = ActivateKeyboards(k)
  BY <1>2 DEF ActivateKeyboards, Manager, SameDevices
<1> QED
  BY <1>1, <1>2

LEMMA TakeScreensIs ==
  ASSUME NEW k \in Manager, NEW kind, NEW m, m = TakeScreens(k, kind)
  PROVE  /\ m \in Manager /\ SameDevices(k, m)
         /\ m.paused = k.paused /\ m.watching = k.watching
         /\ kind = "graphical" => m.renderersActivated = TRUE
         /\ kind # "graphical" => m = k
<1>1. CASE kind = "graphical"
  BY <1>1 DEF TakeScreens, ActivateRenderers, Manager, SameDevices
<1>2. CASE kind # "graphical"
  BY <1>2 DEF TakeScreens, SameDevices
<1> QED
  BY <1>1, <1>2

(* The cards of a set of displays.                                          *)
LEMMA CardsAre ==
  ASSUME NEW ds \in SUBSET Display
  PROVE  {d[1] : d \in ds} \in SUBSET Card
BY DEF Display

(* A step that leaves the hardware alone.                                   *)
LEMMA KeyboardsStay ==
  ASSUME IInv, NEW m, SameDevices(manager, m), manager' = m,
         UNCHANGED <<kernel, replugged>>
  PROVE  KeyboardsFit'
<1>1. /\ plugged' = plugged /\ hungup' = hungup /\ udev' = udev
      /\ replugged' = replugged
  BY DEF kernel
<1> QED
  BY <1>1 DEF IInv, KeyboardsFit, SameDevices

LEMMA OnNewFrameIs ==
  ASSUME IInv, OnNewFrame
  PROVE  IInv' /\ OpensNothing
<1>1. PICK cs : cs = {d[1] : d \in daemon.attached}
  OBVIOUS
<1>2. PICK k, m : k = manager /\ m = Flush(k, cs)
  OBVIOUS
<1>3. k \in Manager /\ daemon \in Daemon /\ missed \subseteq Display
      /\ now.manager = k /\ now.daemon = daemon /\ now.missed = missed
      /\ now \in World /\ Sound(now)
  BY <1>2, NowIs DEF IInv, TypeOK
<1>4. cs \in SUBSET Card
  <2>1. daemon.attached \in SUBSET Display
    BY <1>3 DEF Daemon
  <2> QED
    BY <1>1, <2>1, CardsAre
<1>5. /\ m \in Manager /\ SameDevices(k, m)
      /\ m.mapped = k.mapped \cup cs /\ m.master = k.master \cup (cs \ k.mapped)
      /\ m.renderersActivated = k.renderersActivated
      /\ m.paused = k.paused /\ m.watching = k.watching
  BY <1>2, <1>3, <1>4, FlushIs
<1>6. /\ manager' = m /\ daemon' = daemon /\ missed' = missed
      /\ replugged' = replugged /\ unmapped' = unmapped
      /\ plugged' = plugged /\ screens' = screens /\ udev' = udev
      /\ hungup' = hungup /\ daemon.splash = "graphical"
  BY <1>1, <1>2 DEF OnNewFrame, kernel
<1>7. PICK v : v = [now EXCEPT !.manager = m]
  OBVIOUS
<1>8. v \in World /\ v.manager = m /\ v.daemon = daemon /\ v.missed = missed
  BY <1>3, <1>5, <1>7 DEF World
<1>9. Good(v)
  <2>1. Drawn(v, {})
    BY <1>3, <1>5, <1>8 DEF Drawn, Sound, SameDevices
  <2>2. Matches(v, {}) /\ ConsoleFits(m)
    BY <1>3, <1>5, <1>8, SameDevicesIs DEF Sound
  <2> QED
    BY <1>8, <2>1, <2>2 DEF Good, Sound
<1>10. Sound(now)'
  BY <1>6, <1>8, <1>9, BecomesIs
<1>11. TypeOK'
  BY <1>3, <1>5, <1>6 DEF IInv, TypeOK
<1>12. HandedOver'
  BY <1>2, <1>4, <1>5, <1>6 DEF IInv, HandedOver
<1>13. KeyboardsFit'
  BY <1>2, <1>5, <1>6, KeyboardsStay DEF kernel
<1>14. OpensNothing
  BY <1>2, <1>5, <1>6 DEF SameDevices, OpensNothing
<1> QED
  BY <1>10, <1>11, <1>12, <1>13, <1>14 DEF IInv

LEMMA HandleShowSplashIs ==
  ASSUME IInv, HandleShowSplash
  PROVE  IInv' /\ OpensNothing
<1>1. PICK d : d = [daemon EXCEPT !.shown = TRUE]
  OBVIOUS
<1>2. PICK w : w = [now EXCEPT !.daemon = d]
  OBVIOUS
<1>3. /\ manager \in Manager /\ daemon \in Daemon /\ missed \subseteq Display
      /\ now.manager = manager /\ now.daemon = daemon /\ now.missed = missed
      /\ now \in World /\ Sound(now)
  BY NowIs DEF IInv, TypeOK
<1>4. /\ d \in Daemon /\ d.splash = daemon.splash /\ d.attached = daemon.attached
      /\ d.phase = daemon.phase
  BY <1>1, <1>3 DEF Daemon
<1>5. w \in World /\ w.manager = manager /\ w.daemon = d /\ w.missed = missed
  BY <1>2, <1>3, <1>4 DEF World
<1>6. Good(w)
  <2>1. Matches(w, {}) /\ ConsoleFits(manager)
    BY <1>3, <1>5 DEF Sound, Matches
  <2>2. Drawn(w, {})
    BY <1>3, <1>4, <1>5 DEF Sound, Drawn
  <2> QED
    BY <1>5, <2>1, <2>2 DEF Good, Sound
<1>7. PICK u : u = IF manager.displays # {} \/ manager.texts > 0 THEN ShowSplash(w) ELSE w
  OBVIOUS
<1>8. manager' = u.manager /\ daemon' = u.daemon /\ missed' = u.missed
  <2>1. [now EXCEPT !.daemon.shown = TRUE] = w
    BY <1>1, <1>2, <1>3 DEF World
  <2> QED
    BY <1>7, <2>1, BecomeIs DEF HandleShowSplash
<1>9. u \in World /\ Redrawn(w, u) /\ Drawn(u, {})
  <2>1. ASSUME NEW x, x = ShowSplash(w)
        PROVE  x \in World /\ Redrawn(w, x) /\ Drawn(x, {})
    BY <1>5, <1>6, <2>1, ShowSplashIs DEF Good, Sound
  <2> QED
    BY <1>5, <1>6, <1>7, <2>1, RedrawnIs DEF Good, Sound
<1>10. Good(u)
  BY <1>6, <1>9, RedrawnIs DEF Good, Sound
<1>11. /\ Sound(now)' /\ manager' \in Manager /\ daemon' \in Daemon
       /\ missed' \subseteq Display
  BY <1>8, <1>10, BecomesIs
<1>12. /\ plugged' = plugged /\ screens' = screens /\ hungup' = hungup
       /\ udev' = udev /\ replugged' = replugged /\ unmapped' = unmapped
       /\ daemon.phase # "inactive"
  BY DEF HandleShowSplash, kernel
<1>13. TypeOK'
  BY <1>11, <1>12 DEF IInv, TypeOK
<1>14. /\ manager'.paused = manager.paused /\ daemon'.phase = daemon.phase
       /\ manager'.watching = manager.watching
       /\ ~manager'.renderersActivated =>
              ~manager.renderersActivated /\ manager'.master \subseteq manager.master
  BY <1>4, <1>5, <1>8, <1>9 DEF Redrawn, Onward
<1>15. daemon'.splash = "graphical" /\ ~manager'.renderersActivated
           => daemon'.phase = "inactive"
  BY <1>8, <1>9 DEF Drawn
<1>16. HandedOver'
  BY <1>12, <1>14, <1>15 DEF IInv, HandedOver
<1>17. KeyboardsFit'
  <2>1. SameDevices(manager, u.manager)
    BY <1>5, <1>9 DEF Redrawn, Onward, SameDevices
  <2> QED
    BY <1>8, <1>12, <2>1, KeyboardsStay DEF kernel
<1>18. OpensNothing
  BY <1>5, <1>8, <1>9 DEF Redrawn, Onward, OpensNothing
<1> QED
  BY <1>11, <1>13, <1>16, <1>17, <1>18 DEF IInv

(* A splash goes: its displays are flushed once more.                       *)
LEMMA DropSplashIs ==
  ASSUME NEW w, Good(w), NEW v, v = DropSplash(w)
  PROVE  /\ Good(v) /\ v.hardware = w.hardware
         /\ SameDevices(w.manager, v.manager)
         /\ v.manager.paused = w.manager.paused
         /\ v.manager.watching = w.manager.watching
         /\ v.daemon.phase = w.daemon.phase /\ v.daemon.splash = "none"
         /\ v.daemon.theme = w.daemon.theme
         /\ w.daemon.splash = "graphical" =>
                v.manager.master \subseteq Card \ w.manager.mapped
         /\ w.daemon.splash # "graphical" => v.manager = w.manager
<1>1. PICK k, cs : k = w.manager /\ cs = {d[1] : d \in w.daemon.attached}
  OBVIOUS
<1>2. w \in World /\ k \in Manager /\ Matches(w, {}) /\ ConsoleFits(k)
  BY <1>1, WorldIs DEF Good, Sound
<1>3. cs \in SUBSET Card
  <2>1. w.daemon.attached \in SUBSET Display
    BY <1>2, WorldIs
  <2> QED
    BY <1>1, <2>1, CardsAre
<1>4. PICK j : j = DeactivateRenderers(k)
  OBVIOUS
<1>5. PICK f : f = Flush(j, cs)
  OBVIOUS
<1>6. PICK m : m = IF w.daemon.splash = "graphical" THEN f ELSE k
  OBVIOUS
<1>7. /\ j \in Manager /\ SameDevices(k, j) /\ j.mapped = k.mapped /\ j.master = {}
      /\ j.paused = k.paused /\ j.watching = k.watching
  BY <1>2, <1>4, DeactivateRenderersIs
<1>8. /\ f \in Manager /\ SameDevices(j, f) /\ f.master = j.master \cup (cs \ j.mapped)
      /\ f.paused = j.paused /\ f.watching = j.watching
  BY <1>3, <1>5, <1>7, FlushIs
<1>9. /\ m \in Manager /\ SameDevices(k, m)
      /\ m.paused = k.paused /\ m.watching = k.watching
      /\ w.daemon.splash = "graphical" => m.master \subseteq Card \ k.mapped
      /\ w.daemon.splash # "graphical" => m = k
  <2>1. SameDevices(k, f) /\ SameDevices(k, k)
    BY <1>7, <1>8, SameDevicesIs DEF SameDevices
  <2> QED
    BY <1>2, <1>3, <1>6, <1>7, <1>8, <2>1
<1>10. PICK d : d = [w.daemon EXCEPT !.splash = "none", !.shown = FALSE, !.attached = {}]
  OBVIOUS
<1>11. /\ d \in Daemon /\ d.phase = w.daemon.phase /\ d.splash = "none"
       /\ d.attached = {} /\ d.theme = w.daemon.theme
  BY <1>2, <1>10, WorldIs DEF Daemon
<1>12. v = [w EXCEPT !.manager = m, !.missed = {}, !.daemon = d]
  BY <1>1, <1>2, <1>4, <1>5, <1>6, <1>10 DEF DropSplash, World
<1>13. /\ v \in World /\ v.manager = m /\ v.daemon = d /\ v.missed = {}
       /\ v.hardware = w.hardware
  BY <1>2, <1>9, <1>11, <1>12 DEF World
<1>14. Good(v)
  <2>1. Matches(v, {}) /\ ConsoleFits(m)
    BY <1>1, <1>2, <1>9, <1>13, SameDevicesIs
  <2>2. Drawn(v, {})
    BY <1>11, <1>13 DEF Drawn
  <2> QED
    BY <1>13, <2>1, <2>2 DEF Good, Sound
<1> QED
  BY <1>1, <1>9, <1>11, <1>13, <1>14

LEMMA ToggleDetailsIs ==
  ASSUME IInv, ToggleDetails
  PROVE  IInv' /\ OpensNothing
<1>1. PICK w, v, kind, u :
          /\ w = now
          /\ v = DropSplash(w)
          /\ kind = IF daemon.splash = "graphical" THEN "text" ELSE daemon.theme
          /\ u = ShowTheme(v, kind)
  OBVIOUS
<1>2. /\ Good(w) /\ w.manager = manager /\ w.daemon = daemon
      /\ daemon.theme \in {"graphical", "text"}
  BY <1>1, NowIs, WorldIs
<1>3. /\ Good(v) /\ SameDevices(manager, v.manager)
      /\ v.manager.paused = manager.paused /\ v.manager.watching = manager.watching
      /\ v.daemon.phase = daemon.phase
      /\ daemon.splash = "graphical" =>
             v.manager.master \subseteq Card \ manager.mapped
      /\ daemon.splash # "graphical" => v.manager = manager
  <2>1. v = DropSplash(w)
    BY <1>1
  <2> QED
    BY <1>2, <2>1, DropSplashIs
<1>4. kind \in {"graphical", "text"}
  BY <1>1, <1>2
<1>5. v \in World /\ Sound(v)
  BY <1>3 DEF Good
<1>6. u \in World /\ Redrawn(v, u) /\ Drawn(u, {})
  <2>1. u = ShowTheme(v, kind)
    BY <1>1
  <2> QED
    BY <1>4, <1>5, <2>1, ShowThemeIs
<1>7. manager' = u.manager /\ daemon' = u.daemon /\ missed' = u.missed
  BY <1>1, BecomeIs DEF ToggleDetails
<1>8. Good(u)
  BY <1>5, <1>6, RedrawnIs DEF Good, Sound
<1>9. /\ Sound(now)' /\ manager' \in Manager /\ daemon' \in Daemon
      /\ missed' \subseteq Display
  BY <1>7, <1>8, BecomesIs
<1>10. /\ plugged' = plugged /\ screens' = screens /\ hungup' = hungup
       /\ udev' = udev /\ replugged' = replugged
       /\ unmapped' = IF daemon.splash = "graphical" THEN Card \ manager.mapped
                                                     ELSE unmapped
       /\ daemon.phase = "active"
  BY DEF ToggleDetails, RenderersAreDeactivated, kernel
<1>11. TypeOK'
  BY <1>9, <1>10 DEF IInv, TypeOK
<1>12. /\ manager'.paused = manager.paused /\ daemon'.phase = "active"
       /\ manager'.watching = manager.watching
       /\ ~manager'.renderersActivated =>
              ~v.manager.renderersActivated /\ manager'.master \subseteq v.manager.master
  BY <1>3, <1>6, <1>7, <1>10 DEF Redrawn, Onward
<1>13. daemon'.splash = "graphical" => manager'.renderersActivated
  BY <1>6, <1>7, <1>12 DEF Drawn
<1>14. ~manager'.renderersActivated => manager'.master \subseteq unmapped'
  <2>1. CASE daemon.splash = "graphical"
    BY <1>3, <1>10, <1>12, <2>1
  <2>2. CASE daemon.splash # "graphical"
    BY <1>3, <1>10, <1>12, <2>2 DEF IInv, HandedOver
  <2> QED
    BY <2>1, <2>2
<1>15. HandedOver'
  BY <1>10, <1>12, <1>13, <1>14 DEF IInv, HandedOver
<1>16. KeyboardsFit'
  <2>1. SameDevices(v.manager, u.manager)
    BY <1>6 DEF Redrawn, Onward, SameDevices
  <2>2. SameDevices(manager, u.manager)
    BY <1>3, <2>1, SameDevicesIs
  <2> QED
    BY <1>7, <1>10, <2>2, KeyboardsStay DEF kernel
<1>17. OpensNothing
  BY <1>3, <1>6, <1>7 DEF Redrawn, Onward, SameDevices, OpensNothing
<1> QED
  BY <1>9, <1>11, <1>15, <1>16, <1>17 DEF IInv

LEMMA HandleHideSplashIs ==
  ASSUME IInv, HandleHideSplash
  PROVE  IInv' /\ OpensNothing
<1>1. PICK w, v : w = now /\ v = DropSplash(w)
  OBVIOUS
<1>2. Good(w) /\ w.manager = manager /\ w.daemon = daemon
  BY <1>1, NowIs
<1>3. /\ Good(v) /\ SameDevices(manager, v.manager)
      /\ v.manager.paused = manager.paused /\ v.manager.watching = manager.watching
      /\ v.daemon.phase = daemon.phase /\ v.daemon.splash = "none"
      /\ daemon.splash = "graphical" =>
             v.manager.master \subseteq Card \ manager.mapped
      /\ daemon.splash # "graphical" => v.manager = manager
  <2>1. v = DropSplash(w)
    BY <1>1
  <2> QED
    BY <1>2, <2>1, DropSplashIs
<1>4. PICK k, m : k = v.manager /\ m = DeactivateKeyboards(k)
  OBVIOUS
<1>5. PICK u : u = [v EXCEPT !.manager = m]
  OBVIOUS
<1>6. /\ m \in Manager /\ SameDevices(k, m)
      /\ m.mapped = k.mapped /\ m.master = k.master
      /\ m.renderersActivated = k.renderersActivated
      /\ m.paused = k.paused /\ m.watching = k.watching
  <2>1. k \in Manager
    BY <1>3, <1>4, WorldIs DEF Good
  <2> QED
    BY <1>4, <2>1, KeyboardsOnlyIs
<1>7. u \in World /\ u.manager = m /\ u.daemon = v.daemon /\ u.missed = v.missed
  BY <1>3, <1>5, <1>6 DEF Good, World
<1>8. manager' = u.manager /\ daemon' = u.daemon /\ missed' = u.missed
  <2>1. u = [v EXCEPT !.manager = DeactivateKeyboards(@)]
    BY <1>4, <1>5
  <2> QED
    BY <1>1, <2>1, BecomeIs DEF HandleHideSplash
<1>9. Good(u)
  <2>1. Matches(u, {}) /\ ConsoleFits(m)
    BY <1>3, <1>4, <1>6, <1>7, SameDevicesIs DEF Good, Sound
  <2>2. Drawn(u, {})
    BY <1>3, <1>4, <1>6, <1>7 DEF Good, Sound, Drawn, SameDevices
  <2> QED
    BY <1>7, <2>1, <2>2 DEF Good, Sound
<1>10. /\ Sound(now)' /\ manager' \in Manager /\ daemon' \in Daemon
       /\ missed' \subseteq Display
  BY <1>8, <1>9, BecomesIs
<1>11. /\ plugged' = plugged /\ screens' = screens /\ hungup' = hungup
       /\ udev' = udev /\ replugged' = replugged
       /\ unmapped' = IF daemon.splash = "graphical" THEN Card \ manager.mapped
                                                     ELSE unmapped
  BY DEF HandleHideSplash, RenderersAreDeactivated, kernel
<1>12. TypeOK'
  BY <1>10, <1>11 DEF IInv, TypeOK
<1>13. ~manager'.renderersActivated => manager'.master \subseteq unmapped'
  <2>1. CASE daemon.splash = "graphical"
    BY <1>3, <1>4, <1>6, <1>7, <1>8, <1>11, <2>1
  <2>2. CASE daemon.splash # "graphical"
    BY <1>3, <1>4, <1>6, <1>7, <1>8, <1>11, <2>2 DEF IInv, HandedOver
  <2> QED
    BY <2>1, <2>2
<1>14. HandedOver'
  BY <1>3, <1>4, <1>6, <1>7, <1>8, <1>13 DEF IInv, HandedOver
<1>15. KeyboardsFit'
  <2>1. SameDevices(manager, u.manager)
    BY <1>3, <1>4, <1>6, <1>7, SameDevicesIs
  <2> QED
    BY <1>8, <1>11, <2>1, KeyboardsStay DEF kernel
<1>16. OpensNothing
  BY <1>3, <1>4, <1>6, <1>7, <1>8 DEF SameDevices, OpensNothing
<1> QED
  BY <1>10, <1>12, <1>14, <1>15, <1>16 DEF IInv

LEMMA HandleDeactivateIs ==
  ASSUME IInv, HandleDeactivate
  PROVE  IInv' /\ OpensNothing
<1>1. PICK k, j : k = manager /\ j = DeactivateKeyboards(k)
  OBVIOUS
<1>2. /\ k \in Manager /\ daemon \in Daemon /\ missed \subseteq Display
      /\ now.manager = k /\ now.daemon = daemon /\ now.missed = missed
      /\ now \in World /\ Sound(now)
  BY <1>1, NowIs DEF IInv, TypeOK
<1>3. /\ j \in Manager /\ SameDevices(k, j)
      /\ j.mapped = k.mapped /\ j.master = k.master
      /\ j.renderersActivated = k.renderersActivated
  BY <1>1, <1>2, KeyboardsOnlyIs
<1>4. PICK m : m = [j EXCEPT !.paused = TRUE, !.watching = FALSE]
  OBVIOUS
<1>5. /\ m \in Manager /\ SameDevices(k, m)
      /\ m.mapped = k.mapped /\ m.master = k.master
      /\ m.renderersActivated = k.renderersActivated
      /\ m.paused = TRUE /\ m.watching = FALSE
  BY <1>3, <1>4 DEF Manager, SameDevices
<1>6. PICK d : d = [daemon EXCEPT !.phase = "deactivating"]
  OBVIOUS
<1>7. /\ d \in Daemon /\ d.phase = "deactivating" /\ d.splash = daemon.splash
      /\ d.attached = daemon.attached
  BY <1>2, <1>6 DEF Daemon
<1>8. /\ manager' = m /\ daemon' = d /\ missed' = missed
      /\ replugged' = replugged /\ unmapped' = unmapped
      /\ plugged' = plugged /\ screens' = screens /\ udev' = udev
      /\ hungup' = hungup /\ daemon.phase = "active"
  BY <1>1, <1>4, <1>6 DEF HandleDeactivate, kernel
<1>9. PICK v : v = [now EXCEPT !.manager = m, !.daemon = d]
  OBVIOUS
<1>10. v \in World /\ v.manager = m /\ v.daemon = d /\ v.missed = missed
  BY <1>2, <1>5, <1>7, <1>9 DEF World
<1>11. Good(v)
  <2>1. Matches(v, {}) /\ ConsoleFits(m)
    BY <1>2, <1>5, <1>10, SameDevicesIs DEF Sound
  <2>2. Drawn(v, {})
    BY <1>2, <1>5, <1>7, <1>8, <1>10 DEF Sound, Drawn, SameDevices
  <2> QED
    BY <1>10, <2>1, <2>2 DEF Good, Sound
<1>12. Sound(now)'
  BY <1>8, <1>10, <1>11, BecomesIs
<1>13. TypeOK'
  BY <1>2, <1>5, <1>7, <1>8 DEF IInv, TypeOK
<1>14. HandedOver'
  BY <1>1, <1>5, <1>7, <1>8 DEF IInv, HandedOver
<1>15. KeyboardsFit'
  BY <1>1, <1>5, <1>8, KeyboardsStay DEF kernel
<1>16. OpensNothing
  BY <1>1, <1>5, <1>8 DEF SameDevices, OpensNothing
<1> QED
  BY <1>12, <1>13, <1>14, <1>15, <1>16 DEF IInv

LEMMA OnBootSplashIdleIs ==
  ASSUME IInv, OnBootSplashIdle
  PROVE  IInv' /\ OpensNothing
<1>1. PICK k, j : k = manager /\ j = DeactivateRenderers(k)
  OBVIOUS
<1>2. /\ k \in Manager /\ daemon \in Daemon /\ missed \subseteq Display
      /\ now.manager = k /\ now.daemon = daemon /\ now.missed = missed
      /\ now \in World /\ Sound(now)
  BY <1>1, NowIs DEF IInv, TypeOK
<1>3. /\ j \in Manager /\ SameDevices(k, j) /\ j.mapped = k.mapped /\ j.master = {}
      /\ j.paused = k.paused /\ j.watching = k.watching
  BY <1>1, <1>2, DeactivateRenderersIs
<1>4. PICK m : m = IF daemon.splash = "graphical" THEN j ELSE k
  OBVIOUS
<1>5. /\ m \in Manager /\ SameDevices(k, m) /\ m.mapped = k.mapped
      /\ m.paused = k.paused /\ m.watching = k.watching
      /\ daemon.splash = "graphical" => m.master = {}
      /\ daemon.splash # "graphical" => m = k
  BY <1>2, <1>3, <1>4 DEF SameDevices
<1>6. PICK d : d = [daemon EXCEPT !.phase = "inactive"]
  OBVIOUS
<1>7. /\ d \in Daemon /\ d.phase = "inactive" /\ d.splash = daemon.splash
      /\ d.attached = daemon.attached
  BY <1>2, <1>6 DEF Daemon
<1>8. /\ manager' = m /\ daemon' = d /\ missed' = missed
      /\ replugged' = replugged
      /\ unmapped' = IF daemon.splash = "graphical" THEN Card \ k.mapped ELSE unmapped
      /\ plugged' = plugged /\ screens' = screens /\ udev' = udev
      /\ hungup' = hungup /\ daemon.phase = "deactivating"
  BY <1>1, <1>4, <1>6 DEF OnBootSplashIdle, RenderersAreDeactivated, kernel
<1>9. PICK v : v = [now EXCEPT !.manager = m, !.daemon = d]
  OBVIOUS
<1>10. v \in World /\ v.manager = m /\ v.daemon = d /\ v.missed = missed
  BY <1>2, <1>5, <1>7, <1>9 DEF World
<1>11. Good(v)
  <2>1. Matches(v, {}) /\ ConsoleFits(m)
    BY <1>2, <1>5, <1>10, SameDevicesIs DEF Sound
  <2>2. Drawn(v, {})
    BY <1>2, <1>5, <1>7, <1>8, <1>10 DEF Sound, Drawn, SameDevices
  <2> QED
    BY <1>10, <2>1, <2>2 DEF Good, Sound
<1>12. Sound(now)'
  BY <1>8, <1>10, <1>11, BecomesIs
<1>13. TypeOK'
  BY <1>2, <1>5, <1>7, <1>8 DEF IInv, TypeOK
<1>14. HandedOver'
  BY <1>1, <1>5, <1>7, <1>8 DEF IInv, HandedOver
<1>15. KeyboardsFit'
  BY <1>1, <1>5, <1>8, KeyboardsStay DEF kernel
<1>16. OpensNothing
  BY <1>1, <1>5, <1>8 DEF SameDevices, OpensNothing
<1> QED
  BY <1>12, <1>13, <1>14, <1>15, <1>16 DEF IInv

(* A manager is resumed.                                                    *)
LEMMA UnpauseIs ==
  ASSUME NEW w, Good(w), NEW x, x = Unpause(w)
  PROVE  /\ Good(x) /\ x.daemon.phase = w.daemon.phase /\ x.manager.paused = FALSE
         /\ ~x.manager.renderersActivated =>
                /\ ~w.manager.renderersActivated
                /\ x.manager.master \subseteq w.manager.master
         /\ ~w.manager.elapsed => SameDevices(w.manager, x.manager)
         /\ w.manager.elapsed =>
                /\ Input \cap w.hardware.plugged \subseteq x.manager.devices
                /\ w.manager.devices \subseteq x.manager.devices
<1>1. PICK k, m : k = w.manager /\ m = [k EXCEPT !.paused = FALSE]
  OBVIOUS
<1>2. PICK v : v = [w EXCEPT !.manager = m]
  OBVIOUS
<1>3. w \in World /\ k \in Manager /\ Matches(w, {}) /\ ConsoleFits(k) /\ Drawn(w, {})
  BY <1>1, WorldIs DEF Good, Sound
<1>4. /\ m \in Manager /\ SameDevices(k, m) /\ m.paused = FALSE
      /\ m.renderersActivated = k.renderersActivated /\ m.master = k.master
  BY <1>1, <1>3 DEF Manager, SameDevices
<1>5. /\ v \in World /\ v.manager = m /\ v.daemon = w.daemon /\ v.missed = w.missed
      /\ v.hardware = w.hardware
  BY <1>2, <1>3, <1>4 DEF World
<1>6. Good(v)
  <2>1. Matches(v, {}) /\ ConsoleFits(m)
    BY <1>1, <1>3, <1>4, <1>5, SameDevicesIs
  <2>2. Drawn(v, {})
    BY <1>1, <1>3, <1>4, <1>5 DEF Drawn, SameDevices
  <2> QED
    BY <1>5, <2>1, <2>2 DEF Good, Sound
<1>7. PICK u : u = IF m.elapsed THEN CreateDevicesFromUdev(v) ELSE v
  OBVIOUS
<1>8. x = [u EXCEPT !.manager.watching = TRUE]
  <2>1. v = [w EXCEPT !.manager.paused = FALSE]
    BY <1>1, <1>2, <1>3 DEF World
  <2> QED
    BY <1>5, <1>7, <2>1 DEF Unpause
<1>9. /\ Good(u) /\ u.daemon.phase = w.daemon.phase /\ u.manager.paused = FALSE
      /\ ~u.manager.renderersActivated =>
             ~k.renderersActivated /\ u.manager.master \subseteq k.master
      /\ ~k.elapsed => SameDevices(k, u.manager)
      /\ k.elapsed => /\ Input \cap w.hardware.plugged \subseteq u.manager.devices
                      /\ k.devices \subseteq u.manager.devices
  <2>1. CASE ~m.elapsed
    BY <1>4, <1>5, <1>6, <1>7, <2>1 DEF SameDevices
  <2>2. CASE m.elapsed
    <3>1. u = CreateDevicesFromUdev(v)
      BY <1>7, <2>2
    <3>2. PICK y : /\ Good(y) /\ Good(u) /\ Onward(y, u)
                   /\ y.hardware = v.hardware /\ y.daemon = v.daemon
                   /\ y.missed = v.missed
                   /\ y.manager = [v.manager EXCEPT !.elapsed = TRUE]
                   /\ v.manager.paused => u = y
                   /\ ~v.manager.paused =>
                          Input \cap v.hardware.plugged \subseteq u.manager.devices
      BY <1>6, <3>1, CreateDevicesFromUdevIs
    <3>3. /\ y.manager.devices = m.devices /\ y.manager.master = m.master
          /\ y.manager.renderersActivated = m.renderersActivated
          /\ y.manager.paused = FALSE
      BY <1>4, <1>5, <3>2 DEF Manager
    <3>4. k.devices = m.devices /\ k.elapsed = m.elapsed
      BY <1>4 DEF SameDevices
    <3> QED
      BY <1>4, <1>5, <2>2, <3>2, <3>3, <3>4 DEF Onward
  <2> QED
    BY <2>1, <2>2
<1>10. PICK l, o : l = u.manager /\ o = [l EXCEPT !.watching = TRUE]
  OBVIOUS
<1>11. /\ o \in Manager /\ SameDevices(l, o) /\ o.paused = l.paused
       /\ o.renderersActivated = l.renderersActivated /\ o.master = l.master
  <2>1. l \in Manager
    BY <1>9, <1>10, WorldIs DEF Good
  <2> QED
    BY <1>10, <2>1 DEF Manager, SameDevices
<1>12. x \in World /\ x.manager = o /\ x.daemon = u.daemon /\ x.missed = u.missed
  <2>1. u \in World
    BY <1>9 DEF Good
  <2>2. x = [u EXCEPT !.manager = o]
    BY <1>8, <1>10, <2>1 DEF World
  <2> QED
    BY <1>11, <2>1, <2>2 DEF World
<1>13. Good(x)
  <2>1. Matches(x, {}) /\ ConsoleFits(o)
    BY <1>9, <1>10, <1>11, <1>12, SameDevicesIs DEF Good, Sound
  <2>2. Drawn(x, {})
    BY <1>9, <1>10, <1>11, <1>12 DEF Good, Sound, Drawn, SameDevices
  <2> QED
    BY <1>12, <2>1, <2>2 DEF Good, Sound
<1>14. ~k.elapsed => SameDevices(k, o)
  BY <1>9, <1>10, <1>11, SameDevicesIs
<1>15. o.devices = l.devices
  BY <1>11 DEF SameDevices
<1> QED
  BY <1>1, <1>9, <1>10, <1>11, <1>12, <1>13, <1>14, <1>15

LEMMA HandleReactivateIs ==
  ASSUME IInv, HandleReactivate
  PROVE  IInv' /\ OpensNothing
<1>1. PICK k, j : k = manager /\ j = ActivateKeyboards(k)
  OBVIOUS
<1>2. /\ k \in Manager /\ daemon \in Daemon /\ missed \subseteq Display
      /\ now.manager = k /\ now.daemon = daemon /\ now.missed = missed
      /\ now.hardware.plugged = plugged
      /\ now \in World /\ Sound(now)
  BY <1>1, NowIs DEF IInv, TypeOK
<1>3. /\ j \in Manager /\ SameDevices(k, j)
      /\ j.master = k.master /\ j.renderersActivated = k.renderersActivated
  BY <1>1, <1>2, KeyboardsOnlyIs
<1>4. PICK m : m = TakeScreens(j, daemon.splash)
  OBVIOUS
<1>5. /\ m \in Manager /\ SameDevices(j, m)
      /\ daemon.splash = "graphical" => m.renderersActivated = TRUE
      /\ daemon.splash # "graphical" => m = j
  BY <1>3, <1>4, TakeScreensIs
<1>6. SameDevices(k, m)
  BY <1>3, <1>5, SameDevicesIs
<1>7. PICK d : d = [daemon EXCEPT !.phase = "active"]
  OBVIOUS
<1>8. /\ d \in Daemon /\ d.phase = "active" /\ d.splash = daemon.splash
      /\ d.attached = daemon.attached
  BY <1>2, <1>7 DEF Daemon
<1>9. PICK w : w = [now EXCEPT !.manager = m, !.daemon = d]
  OBVIOUS
<1>10. /\ w \in World /\ w.manager = m /\ w.daemon = d /\ w.missed = missed
       /\ w.hardware.plugged = plugged
  BY <1>2, <1>5, <1>8, <1>9 DEF World
<1>11. Good(w)
  <2>1. Matches(w, {}) /\ ConsoleFits(m)
    BY <1>2, <1>6, <1>10, SameDevicesIs DEF Sound
  <2>2. Drawn(w, {})
    BY <1>2, <1>3, <1>5, <1>6, <1>8, <1>10 DEF Sound, Drawn, SameDevices
  <2> QED
    BY <1>10, <2>1, <2>2 DEF Good, Sound
<1>12. PICK x : x = Unpause(w)
  OBVIOUS
<1>13. manager' = x.manager /\ daemon' = x.daemon /\ missed' = x.missed
  <2>1. w = [now EXCEPT !.manager = TakeScreens(ActivateKeyboards(@), daemon.splash),
                        !.daemon.phase = "active"]
    BY <1>1, <1>2, <1>4, <1>7, <1>9 DEF World
  <2> QED
    BY <1>12, <2>1, BecomeIs DEF HandleReactivate
<1>14. /\ Good(x) /\ x.daemon.phase = "active" /\ x.manager.paused = FALSE
       /\ ~x.manager.renderersActivated =>
              ~m.renderersActivated /\ x.manager.master \subseteq m.master
       /\ ~m.elapsed => SameDevices(m, x.manager)
       /\ m.elapsed => /\ Input \cap plugged \subseteq x.manager.devices
                       /\ m.devices \subseteq x.manager.devices
  BY <1>8, <1>10, <1>11, <1>12, UnpauseIs
<1>15. /\ Sound(now)' /\ manager' \in Manager /\ daemon' \in Daemon
       /\ missed' \subseteq Display
  BY <1>13, <1>14, BecomesIs
<1>16. /\ plugged' = plugged /\ screens' = screens /\ hungup' = hungup
       /\ udev' = udev /\ replugged' = replugged /\ unmapped' = unmapped
  BY DEF HandleReactivate, kernel
<1>17. TypeOK'
  BY <1>15, <1>16 DEF IInv, TypeOK
<1>18. HandedOver'
  <2>1. /\ manager'.paused = FALSE /\ daemon'.phase = "active"
        /\ ~manager'.renderersActivated =>
               ~m.renderersActivated /\ manager'.master \subseteq m.master
    BY <1>13, <1>14
  <2>2. daemon'.splash = "graphical" => manager'.renderersActivated
    BY <1>13, <1>14 DEF Good, Sound, Drawn
  <2>3. ~manager'.renderersActivated => manager'.master \subseteq unmapped'
    BY <1>1, <1>3, <1>5, <1>16, <2>1 DEF IInv, HandedOver
  <2> QED
    BY <2>1, <2>2, <2>3 DEF HandedOver
<1>19. KeyboardsFit'
  <2>1. CASE ~m.elapsed
    <3>1. SameDevices(manager, x.manager)
      BY <1>1, <1>6, <1>14, <2>1, SameDevicesIs
    <3> QED
      BY <1>13, <1>16, <3>1, KeyboardsStay DEF kernel
  <2>2. CASE m.elapsed
    <3>1. manager.devices \subseteq manager'.devices
          /\ Input \cap plugged \subseteq manager'.devices
      BY <1>1, <1>6, <1>13, <1>14, <2>2 DEF SameDevices
    <3> QED
      BY <1>16, <3>1 DEF IInv, KeyboardsFit
  <2> QED
    BY <2>1, <2>2
<1>20. OpensNothing
  BY <1>13, <1>14 DEF OpensNothing
<1> QED
  BY <1>15, <1>17, <1>18, <1>19, <1>20 DEF IInv

-----------------------------------------------------------------------------
(* The invariant.                                                           *)

LEMMA NoDevicesIs ==
  /\ NoDevices \in Manager
  /\ NoDevices.renderers = {} /\ NoDevices.console = {} /\ NoDevices.displays = {}
  /\ NoDevices.keyboards = {} /\ NoDevices.master = {}
  /\ NoDevices.ttys = 0 /\ NoDevices.texts = 0
  /\ NoDevices.managed = FALSE /\ NoDevices.isText = FALSE
  /\ NoDevices.paused = FALSE /\ NoDevices.elapsed = FALSE
  /\ NoDevices.watching = FALSE /\ NoDevices.timeout = FALSE
BY DEF NoDevices, Manager

LEMMA InitIs ==
  ASSUME Init
  PROVE  IInv
<1>1. PICK theme \in Theme, setup \in Setup : \E v :
          /\ v = WatchDevices(
                     [hardware |-> [plugged |-> plugged, screens |-> screens],
                      manager |-> NoDevices, missed |-> {},
                      daemon |-> [theme |-> theme, splash |-> "none",
                                  shown |-> FALSE, attached |-> {},
                                  phase |-> "active"]], setup)
          /\ manager = v.manager /\ daemon = v.daemon /\ missed = v.missed
  BY DEF Init
<1>2. PICK v :
          /\ v = WatchDevices(
                     [hardware |-> [plugged |-> plugged, screens |-> screens],
                      manager |-> NoDevices, missed |-> {},
                      daemon |-> [theme |-> theme, splash |-> "none",
                                  shown |-> FALSE, attached |-> {},
                                  phase |-> "active"]], setup)
          /\ manager = v.manager /\ daemon = v.daemon /\ missed = v.missed
  BY <1>1
<1>3. PICK h, d : /\ h = [plugged |-> plugged, screens |-> screens]
                  /\ d = [theme |-> theme, splash |-> "none", shown |-> FALSE,
                          attached |-> {}, phase |-> "active"]
  OBVIOUS
<1>4. PICK w : w = [hardware |-> h, manager |-> NoDevices, missed |-> {}, daemon |-> d]
  OBVIOUS
<1>5. v = WatchDevices(w, setup)
  BY <1>2, <1>3, <1>4
<1>6. h \in Hardware /\ h.plugged = plugged
  BY <1>3 DEF Init, Hardware
<1>7. d \in Daemon /\ d.splash = "none" /\ d.attached = {} /\ d.phase = "active"
  BY <1>3 DEF Daemon
<1>8. /\ w \in World /\ w.manager = NoDevices /\ w.daemon = d /\ w.missed = {}
      /\ w.hardware = h
  BY <1>4, <1>6, <1>7, NoDevicesIs DEF World
<1>9. setup \in {"udev", "text", "serial"}
  BY DevicesAssumption DEF Setups
<1>10. /\ Good(v) /\ v.daemon.phase = "active" /\ v.manager.paused = FALSE
       /\ ~v.manager.renderersActivated => v.manager.master = {}
       /\ v.manager.timeout \/ v.manager.elapsed
              => Input \cap plugged \subseteq v.manager.devices
  <2>1. ASSUME NEW m \in Manager, NEW x, x = [w EXCEPT !.manager = m],
               m.renderers = {}, m.console = {}, m.displays = {}, m.keyboards = {},
               m.managed = FALSE, m.isText = FALSE
        PROVE  /\ Good(x) /\ x.manager = m /\ x.daemon = d /\ x.hardware = h
    <3>1. x \in World /\ x.manager = m /\ x.daemon = d /\ x.missed = {} /\ x.hardware = h
      BY <1>8, <2>1 DEF World
    <3>2. Matches(x, {})
      BY <2>1, <3>1 DEF Matches
    <3>3. ConsoleFits(m)
      BY <2>1 DEF ConsoleFits
    <3>4. Drawn(x, {})
      BY <1>7, <2>1, <3>1 DEF Drawn
    <3> QED
      BY <3>1, <3>2, <3>3, <3>4 DEF Good, Sound
  <2>2. CASE setup = "serial"
    <3>1. PICK m : m = [NoDevices EXCEPT !.ttys = 1, !.texts = 1]
      OBVIOUS
    <3>2. v = [w EXCEPT !.manager = m]
      BY <1>5, <1>8, <2>2, <3>1 DEF WatchDevices, World
    <3>3. /\ m \in Manager /\ m.renderers = {} /\ m.console = {} /\ m.displays = {}
          /\ m.keyboards = {} /\ m.managed = FALSE /\ m.isText = FALSE
          /\ m.paused = FALSE /\ m.master = {} /\ m.timeout = FALSE /\ m.elapsed = FALSE
      BY <3>1, NoDevicesIs DEF Manager
    <3>4. Good(v) /\ v.manager = m /\ v.daemon = d
      BY <2>1, <3>2, <3>3
    <3> QED
      BY <1>7, <3>3, <3>4
  <2>3. CASE setup = "text"
    <3>1. v = CreateTerminalDevices(w)
      BY <1>5, <2>3 DEF WatchDevices
    <3>2. Good(w)
      <4>1. w = [w EXCEPT !.manager = NoDevices]
        BY <1>8 DEF World
      <4> QED
        BY <2>1, <4>1, NoDevicesIs
    <3>3. Good(v) /\ Onward(w, v)
      BY <3>1, <3>2, CreateTerminalDevicesIs
    <3> QED
      BY <1>7, <1>8, <3>3, NoDevicesIs DEF Onward
  <2>4. CASE setup = "udev"
    <3>1. PICK m : m = [NoDevices EXCEPT !.watching = TRUE, !.timeout = TRUE]
      OBVIOUS
    <3>2. PICK x : x = [w EXCEPT !.manager = m]
      OBVIOUS
    <3>3. v = CreateForSubsystems(x)
      <4>1. x = [w EXCEPT !.manager.watching = TRUE, !.manager.timeout = TRUE]
        BY <1>8, <3>1, <3>2 DEF World
      <4> QED
        BY <1>5, <2>4, <4>1 DEF WatchDevices
    <3>4. /\ m \in Manager /\ m.renderers = {} /\ m.console = {} /\ m.displays = {}
          /\ m.keyboards = {} /\ m.managed = FALSE /\ m.isText = FALSE
          /\ m.paused = FALSE /\ m.master = {}
      BY <3>1, NoDevicesIs DEF Manager
    <3>5. Good(x) /\ x.manager = m /\ x.daemon = d /\ x.hardware = h
      BY <2>1, <3>2, <3>4
    <3>6. /\ Good(v) /\ Onward(x, v)
          /\ Input \cap x.hardware.plugged \subseteq v.manager.devices
      BY <3>3, <3>5, CreateForSubsystemsIs
    <3> QED
      BY <1>6, <1>7, <3>4, <3>5, <3>6 DEF Onward
  <2> QED
    BY <1>9, <2>2, <2>3, <2>4
<1>11. /\ udev = <<>> /\ hungup = {} /\ replugged = {} /\ unmapped = {}
       /\ plugged \subseteq Card \cup Input /\ screens \in [Card -> SUBSET Screen]
  BY DEF Init
<1>12. Sound(now) /\ manager \in Manager /\ daemon \in Daemon /\ missed \subseteq Display
  <2>1. Matches(now, {})
    BY <1>2, <1>10 DEF Good, Sound, Matches, now
  <2>2. ConsoleFits(now.manager)
    BY <1>2, <1>10 DEF Good, Sound, now
  <2>3. Drawn(now, {})
    BY <1>2, <1>10 DEF Good, Sound, Drawn, now
  <2> QED
    BY <1>2, <1>10, <2>1, <2>2, <2>3, WorldIs DEF Good, Sound
<1>13. TypeOK
  <2>1. udev \in Seq(Event)
    BY <1>11
  <2> QED
    BY <1>11, <1>12, <2>1 DEF TypeOK
<1>14. HandedOver
  BY <1>2, <1>10 DEF HandedOver, Good, Sound, Drawn
<1>15. KeyboardsFit
  BY <1>2, <1>10, <1>11 DEF KeyboardsFit
<1> QED
  BY <1>12, <1>13, <1>14, <1>15 DEF IInv

LEMMA StutterIs ==
  ASSUME IInv, UNCHANGED vars
  PROVE  IInv' /\ OpensNothing
<1>1. /\ plugged' = plugged /\ screens' = screens /\ udev' = udev /\ hungup' = hungup
      /\ manager' = manager /\ daemon' = daemon /\ missed' = missed
      /\ replugged' = replugged /\ unmapped' = unmapped
  BY DEF vars, kernel
<1>2. Sound(now)'
  BY <1>1, BecomesIs, NowIs
<1>3. TypeOK'
  BY <1>1 DEF IInv, TypeOK
<1>4. HandedOver' /\ KeyboardsFit'
  BY <1>1 DEF IInv, HandedOver, KeyboardsFit
<1>5. OpensNothing
  BY <1>1 DEF OpensNothing
<1> QED
  BY <1>2, <1>3, <1>4, <1>5 DEF IInv

LEMMA StepKeeps ==
  ASSUME IInv, [Next]_vars
  PROVE  IInv' /\ OpensNothing
<1>1. CASE Next
  <2>1. CASE \E d \in Card \cup Input : Plug(d) \/ Unplug(d)
    BY <2>1, PlugIs, UnplugIs
  <2>2. CASE \E c \in Card : Hotplug(c)
    BY <2>2, HotplugIs
  <2>3. CASE OnUdevEvent
    BY <2>3, OnUdevEventIs
  <2>4. CASE \E i \in Input : OnInputDisconnect(i)
    BY <2>4, OnInputDisconnectIs
  <2>5. CASE OnDeviceTimeout
    BY <2>5, OnDeviceTimeoutIs
  <2>6. CASE OnNewFrame
    BY <2>6, OnNewFrameIs
  <2>7. CASE HandleShowSplash
    BY <2>7, HandleShowSplashIs
  <2>8. CASE ToggleDetails
    BY <2>8, ToggleDetailsIs
  <2>9. CASE HandleHideSplash
    BY <2>9, HandleHideSplashIs
  <2>10. CASE HandleDeactivate
    BY <2>10, HandleDeactivateIs
  <2>11. CASE OnBootSplashIdle
    BY <2>11, OnBootSplashIdleIs
  <2>12. CASE HandleReactivate
    BY <2>12, HandleReactivateIs
  <2> QED
    BY <1>1, <2>1, <2>2, <2>3, <2>4, <2>5, <2>6, <2>7, <2>8, <2>9, <2>10, <2>11,
       <2>12 DEF Next
<1>2. CASE UNCHANGED vars
  BY <1>2, StutterIs
<1> QED
  BY <1>1, <1>2

LEMMA InvariantHolds == Spec => []IInv
<1>1. Init => IInv
  BY InitIs
<1>2. IInv /\ [Next]_vars => IInv'
  BY StepKeeps
<1> QED
  BY <1>1, <1>2, PTL DEF Spec

-----------------------------------------------------------------------------
(* What follows.                                                            *)

(* The device manager's books agree with the hardware that it drives: types *)
(* are kept, there is a display for every head of every renderer and for no *)
(* other, a graphical splash draws on all of them but those that came after *)
(* the details were toggled, one renderer at most has the local console,    *)
(* and a console that counts as managed has a keyboard                      *)
(* (ply-device-manager.c, plymouthd-display.c).                             *)
THEOREM ManagerIsAlwaysSound == Spec => []ManagerIsSound
<1>1. IInv => ManagerIsSound
  <2> SUFFICES ASSUME IInv PROVE ManagerIsSound
    OBVIOUS
  <2>1. PICK m : m = manager
    OBVIOUS
  <2>2. /\ m \in Manager /\ TypeOK /\ Matches(now, {}) /\ ConsoleFits(m)
        /\ Drawn(now, {}) /\ now.manager = m /\ now.daemon = daemon
        /\ now.missed = missed
    BY <2>1, NowIs DEF IInv, TypeOK, Sound
  <2>3. m.displays = UNION {{c} \X m.heads[c] : c \in m.renderers}
    <3>1. ASSUME NEW d \in m.displays PROVE d \in UNION {{c} \X m.heads[c] : c \in m.renderers}
      <4>1. PICK c \in Card, s \in Screen : d = <<c, s>>
        BY <2>2, <3>1 DEF Manager, Display
      <4>2. c \in m.renderers /\ s \in m.heads[c]
        BY <2>2, <3>1, <4>1 DEF Matches
      <4> QED
        BY <4>1, <4>2
    <3>2. ASSUME NEW c \in m.renderers, NEW d \in {c} \X m.heads[c] PROVE d \in m.displays
      <4>1. PICK s \in m.heads[c] : d = <<c, s>>
        OBVIOUS
      <4>2. c \in Card /\ s \in Screen
        BY <2>2, <4>1 DEF Manager
      <4> QED
        BY <2>2, <4>1, <4>2 DEF Matches
    <3> QED
      BY <3>1, <3>2
  <2>4. DisplaysMatchHeads
    BY <2>1, <2>2, <2>3 DEF DisplaysMatchHeads, Drawn
  <2>5. Cardinality(m.console) <= 1
    <3>1. CASE m.console = {}
      BY <3>1, FS_EmptySet
    <3>2. CASE m.console # {}
      <4>1. PICK c : c \in m.console
        BY <3>2
      <4>2. m.console = {c}
        BY <2>2, <4>1 DEF ConsoleFits
      <4>3. Cardinality({c}) = 1
        BY ONLY FS_Singleton
      <4>4. Cardinality(m.console) = 1
        BY ONLY <4>2, <4>3
      <4> QED
        BY ONLY <4>4
    <3> QED
      BY <3>1, <3>2
  <2>6. ConsoleHasOneOwner
    BY <2>1, <2>2, <2>5 DEF ConsoleHasOneOwner, ConsoleFits
  <2> QED
    BY <2>2, <2>4, <2>6 DEF ManagerIsSound
<1> QED
  BY <1>1, InvariantHolds, PTL

(* Every renderer gets the keys of all known keyboards, and once all events *)
(* are handled every keyboard that is plugged in is known, unless it came   *)
(* back before the loss of the old one was handled or the text fallback     *)
(* has the console (on_udev_event, on_disconnect).                          *)
THEOREM KeyboardsAreAlwaysFound == Spec => []KeyboardsAreFound
<1>1. IInv => KeyboardsAreFound
  <2> SUFFICES ASSUME IInv PROVE KeyboardsAreFound
    OBVIOUS
  <2>1. \A c \in manager.renderers : manager.inputs[c] = manager.devices
    BY NowIs DEF IInv, Sound, ConsoleFits
  <2>2. udev = <<>> => Added(udev) = {}
    BY AddedIs
  <2> QED
    BY <2>1, <2>2 DEF IInv, KeyboardsFit, KeyboardsAreFound
<1> QED
  BY <1>1, InvariantHolds, PTL

(* After the renderers were deactivated the daemon is DRM master of no card *)
(* but those that no frame had been drawn on by then                        *)
(* (ply_device_manager_deactivate_renderers, ply_renderer_flush_head).      *)
THEOREM MasterIsAlwaysReleased == Spec => []MasterIsReleased
<1>1. IInv => MasterIsReleased
  BY DEF IInv, HandedOver, MasterIsReleased
<1> QED
  BY <1>1, InvariantHolds, PTL

(* Between a deactivate request and the reactivate request that answers it  *)
(* no renderer is opened, whatever is plugged in or times out meanwhile     *)
(* (ply_device_manager_pause, create_devices_from_udev).                    *)
THEOREM PausedOpensNothing == Spec => NothingOpensWhilePaused
<1>1. IInv /\ [Next]_vars => OpensNothing
  BY StepKeeps
<1>2. IInv /\ [Next]_vars =>
          [manager.paused /\ manager'.paused =>
               manager'.renderers \subseteq manager.renderers]_vars
  BY <1>1 DEF OpensNothing
<1> QED
  BY <1>2, InvariantHolds, PTL DEF Spec, NothingOpensWhilePaused

=============================================================================
