----------------------------- MODULE Renderer -----------------------------
(***************************************************************************)
(* The renderer of the local console: ply-renderer.c over the plugins      *)
(* renderers/drm and renderers/frame-buffer, as functions on the seat s of *)
(* Terminal, with what the daemon keeps of it in s.renderer and what the   *)
(* graphics hardware does in s.card.                                       *)
(***************************************************************************)
EXTENDS Terminal, FiniteSets

CONSTANTS
    Controller, \* the controllers that have a screen
    Input       \* the keyboards that evdev knows

Plugin == {"drm", "frame-buffer"}

Card == [
    master : BOOLEAN,           \* DRM master is held
    scan   : SUBSET Controller,   \* controllers that scan our buffer out
    full   : SUBSET Controller ]  \* controllers for which no buffer is left

RendererObject == [
    plugin  : Plugin,
    opened  : BOOLEAN,
    active  : BOOLEAN,          \* renderer->is_active
    mapped  : BOOLEAN,          \* renderer->is_mapped
    scans   : BOOLEAN,          \* backend->is_active
    heads   : SUBSET Controller,
    buffers : SUBSET Controller,  \* heads with a scan-out buffer
    reset   : SUBSET Controller,  \* scan_out_buffer_needs_reset
    dirty   : SUBSET Controller,  \* heads with updated areas
    source  : BOOLEAN,          \* input_source_is_open
    watch   : {"none", "set", "freed"},   \* terminal_input_watch
    devices : SUBSET Input,
    watched : SUBSET Input ]

Seat == [kernel : Kernel, terminal : TerminalObject, card : Card,
         renderer : RendererObject,
         fault : SUBSET {"killed", "unready", "open twice", "freed watch", "no buffer"},
         missed : SUBSET Missed]

-----------------------------------------------------------------------------
(* Drawing.  The loops over heads treat each by itself: they are written    *)
(* for the set hs of the heads that they go through.                        *)

(* ply_renderer_head_map *)
MapHeads(s, hs) ==
    LET mapped == hs \ s.card.full
    IN  [s EXCEPT !.renderer.buffers = @ \cup mapped,
                  !.renderer.reset = @ \cup mapped]

(* Bug: the scan-out buffers are set whatever VT is on the screen. *)
SetScanOutBuffers(s, hs) ==
    IF ~s.card.master THEN s
    ELSE [s EXCEPT !.card.scan = @ \cup hs, !.renderer.reset = @ \ hs]

(* reset_scan_out_buffer_if_needed, with                                    *)
(* ply_renderer_head_set_scan_out_buffer, which only the master may do      *)
ResetScanOutBuffers(s, hs) ==
    IF ~s.terminal.active THEN s
    ELSE SetScanOutBuffers(s, {h \in hs : h \in s.renderer.reset \/ h \notin s.card.scan})

(* Bug: the mode is not set back when there is no keyboard left.            *)
SetInputModeOnce(s) ==
    IF s.renderer.devices # {} THEN SetDisabledInput(s) ELSE s

(* The input mode that flush_head of both plugins sets *)
SetInputMode(s) ==
    IF s.renderer.devices # {} THEN SetDisabledInput(s) ELSE SetUnbufferedInput(s)

(* flush_head of the DRM plugin: a hotplugged head is mapped here *)
DrmFlushHeads(s, hs) ==
    LET Drawn(t) ==
            LET drawn == hs \cap t.renderer.buffers \cap t.renderer.dirty
            IN  [ResetScanOutBuffers(t, drawn) EXCEPT !.renderer.dirty = @ \ drawn]
    IN  IF ~s.renderer.scans \/ hs = {} THEN s
        ELSE Then(MapHeads(SetInputMode(s), hs \ s.renderer.buffers), Drawn)

(* flush_head of the frame buffer plugin *)
FrameBufferFlushHeads(s, hs) ==
    IF ~s.renderer.scans \/ hs = {} THEN s
    ELSE [SetInputMode(s) EXCEPT
             !.renderer.dirty = @ \ hs,
             !.card.scan = @ \cup (hs \cap s.renderer.buffers)]

FlushHeads(s, hs) ==
    IF s.renderer.plugin = "drm" THEN DrmFlushHeads(s, hs)
                                 ELSE FrameBufferFlushHeads(s, hs)

(* activate of the DRM plugin *)
DrmActivate(s) ==
    DrmFlushHeads([s EXCEPT !.renderer.scans = TRUE, !.card.master = TRUE],
                  s.renderer.heads)

(* activate of the frame buffer plugin, with ply_renderer_head_redraw *)
FrameBufferActivate(s) ==
    LET t == [s EXCEPT !.renderer.scans = TRUE]
    IN  IF s.renderer.buffers = {} THEN t
        ELSE FrameBufferFlushHeads(t, s.renderer.heads)

Activate(s) ==
    IF s.renderer.plugin = "drm" THEN DrmActivate(s) ELSE FrameBufferActivate(s)

(* deactivate of both plugins *)
Deactivate(s) ==
    [s EXCEPT !.renderer.scans = FALSE, !.card.master = FALSE]

(* on_active_vt_changed of both plugins *)
OnActiveVtChanged(s) ==
    IF ~s.renderer.opened THEN s
    ELSE IF s.terminal.active THEN Activate(s) ELSE Deactivate(s)

(* map_to_device of both plugins *)
MapToDevice(s) ==
    LET Shown(t) == IF t.terminal.active THEN Activate(t) ELSE ActivateVt(t)
        t == MapHeads(s, s.renderer.heads)
    IN  IF s.renderer.plugin = "drm" THEN Then(t, Shown)
        ELSE IF t.renderer.buffers = {} THEN t ELSE Then(t, Shown)

(* unmap_from_device of both plugins: DRM unmaps the buffer of every head,  *)
(* and unmap_buffer asserts that there is one                               *)
UnmapFromDevice(s) ==
    [s EXCEPT !.renderer.buffers = {},
              !.fault = IF /\ s.renderer.plugin = "drm"
                           /\ ~(s.renderer.heads \subseteq s.renderer.buffers)
                        THEN @ \cup {"no buffer"} ELSE @]

-----------------------------------------------------------------------------
(* ply-renderer.c                                                           *)

(* ply_renderer_map_to_device *)
RendererMapToDevice(s) ==
    LET Mapped(t) == [t EXCEPT
                         !.renderer.mapped = ~(t.renderer.heads \subseteq t.card.full)]
    IN  IF s.renderer.mapped THEN s ELSE Then(MapToDevice(s), Mapped)

(* ply_renderer_flush_head of each. When no head could be mapped, the next  *)
(* one tries again, which changes nothing.                                  *)
Flush(s, hs) ==
    LET Flushed(t) == IF t.renderer.mapped THEN FlushHeads(t, hs) ELSE t
    IN  IF hs = {} THEN s ELSE Then(RendererMapToDevice(s), Flushed)

RendererActivate(s) ==
    IF s.renderer.active \/ ~s.renderer.opened THEN s
    ELSE [Activate(s) EXCEPT !.renderer.active = TRUE]

RendererDeactivate(s) ==
    IF ~s.renderer.opened THEN s
    ELSE [Deactivate(s) EXCEPT !.renderer.active = FALSE]

(* ply_renderer_close, with close_device: the card frees what its           *)
(* descriptor had                                                           *)
RendererClose(s) ==
    [(IF s.renderer.mapped THEN UnmapFromDevice(s) ELSE s) EXCEPT
        !.renderer.mapped = FALSE, !.renderer.opened = FALSE,
        !.renderer.active = FALSE, !.renderer.scans = FALSE,
        !.renderer.heads = {}, !.renderer.buffers = {},
        !.renderer.reset = {}, !.renderer.dirty = {},
        !.card.master = FALSE, !.card.scan = {}]

(* handle_change_event of the DRM plugin, when one screen comes or goes     *)
AddHead(s, h) == [s EXCEPT !.renderer.heads = @ \cup {h}]

(* ply_renderer_head_remove *)
RemoveHead(s, h) ==
    [s EXCEPT !.renderer.heads = @ \ {h}, !.renderer.buffers = @ \ {h},
              !.renderer.reset = @ \ {h}, !.renderer.dirty = @ \ {h},
              !.card.scan = @ \ {h}]

-----------------------------------------------------------------------------
(* The input source: the keyboards, or the terminal when there is none      *)

(* watch_input_device *)
WatchInputDevices(s, is) ==
    IF is = {} THEN s
    ELSE SetDisabledInput([s EXCEPT !.renderer.watched = @ \cup is])

(* open_input_source *)
OpenInputSource(s) ==
    LET t == IF s.renderer.source THEN s
             ELSE WatchInputDevices(s, s.renderer.devices)
        u == IF t.terminal.fd
             THEN MakeUp([t EXCEPT !.renderer.watch = "set"], {"listen"})
             ELSE Miss(t, "listen")
    IN  [u EXCEPT !.renderer.source = TRUE]

(* on_input_source_disconnected: the event loop frees the watch of the      *)
(* descriptor that hung up afterwards                                       *)
OnInputSourceDisconnected(s) ==
    IF s.renderer.watch = "none" THEN s
    ELSE OpenInputSource([s EXCEPT !.renderer.watch = "freed"])

(* close_input_source *)
CloseInputSource(s) ==
    LET t == IF s.renderer.devices = {} THEN s
             ELSE SetUnbufferedInput([s EXCEPT !.renderer.watched = {}])
        u == IF t.renderer.watch = "freed" THEN Fault(t, "freed watch") ELSE t
    IN  IF ~s.renderer.source THEN s
        ELSE [u EXCEPT !.renderer.watch = "none", !.renderer.source = FALSE]

(* Bug: a keyboard that comes while the source is open is not watched. *)
AddInputDeviceUnwatched(s, i) == [s EXCEPT !.renderer.devices = @ \cup {i}]

(* add_input_device *)
AddInputDevice(s, i) ==
    LET t == [s EXCEPT !.renderer.devices = @ \cup {i}]
    IN  IF s.renderer.source THEN WatchInputDevices(t, {i}) ELSE t

(* remove_input_device, when the device disconnected *)
RemoveInputDevice(s, i) ==
    [s EXCEPT !.renderer.devices = @ \ {i}, !.renderer.watched = @ \ {i}]

=============================================================================
