------------------------------- MODULE Desktop -------------------------------
(***************************************************************************)
(* The window manager, src/kernel/desktop.c: which of the windows          *)
(* desktop_init opens has the focus, and when its application is run.      *)
(* Focus changes queue a run of the application (runtime_panel_dirty) and  *)
(* say so on the runtime panel; the desktop task carries it out, and moves *)
(* the focus on by itself.                                                 *)
(*                                                                         *)
(* The state is that after desktop_init.  The file browser's position, the *)
(* frame counter of the GPU, the mode on the panel and what a run prints   *)
(* are left out (file browser: Fat32), and so is the wrap of tick_count    *)
(* after 2^32 ticks.                                                       *)
(***************************************************************************)
EXTENDS Naturals, Sequences

CONSTANTS
    apps,             \* titles of the windows, in the order they are opened
    AutoFocusPeriod,  \* 75: desktop ticks between two automatic focus changes
    MonitorPeriod,    \* 90: desktop ticks between two monitoring messages
    TickCycle,        \* a common multiple of the two, the bound of tick_count
    Nothing           \* nothing is on the panel yet

VARIABLES
    windows,             \* the active flag of each window
    active_index,
    mode_name,
    tick_count,          \* modulo TickCycle
    runtime_panel_dirty, \* a run of the active application is queued
    panel,               \* ui_runtime_overlay: application and activity
    requested,           \* history: who asked last for a run of the active application
    runs                 \* history: its runs since then

focus == <<windows, active_index>>
asked == <<requested, runs>>
vars  == <<focus, mode_name, tick_count, runtime_panel_dirty, panel, asked>>

window_count == Len(apps)
Indices      == 0..(window_count - 1)
Modes        == {"HYBRID", "USER", "AI"}
\* A run names its activity after the mode; here all three names are RUN.
Activities   == {"TASK QUEUED", "RUNTIME MONITORING", "RUN"}

desktop_active_app == apps[active_index + 1]

TypeOK == /\ windows \in [Indices -> BOOLEAN]
          /\ active_index \in Indices
          /\ mode_name \in Modes
          /\ tick_count \in 0..(TickCycle - 1)
          /\ runtime_panel_dirty \in BOOLEAN
          /\ panel \in [app : { apps[i + 1] : i \in Indices }, activity : Activities] \cup {Nothing}
          /\ requested \in {"nobody", "command", "timer"}
          /\ runs \in Nat

\* desktop_init
Init == /\ windows = [i \in Indices |-> i = 0]
        /\ active_index = 0
        /\ mode_name = "HYBRID"
        /\ tick_count = 0
        /\ runtime_panel_dirty = FALSE
        /\ panel = Nothing
        /\ requested = "nobody" /\ runs = 0

\* set_active_app and refresh_window_state
move_focus(index) == /\ active_index' = index
                     /\ windows' = [i \in Indices |-> i = index]

\* ui_runtime_overlay
overlay(index, activity) == [app |-> apps[index + 1], activity |-> activity]

\* It shows the application that has the focus by then.
desktop_refresh_runtime_panel ==
    /\ runtime_panel_dirty' = TRUE
    /\ panel' = overlay(active_index', "TASK QUEUED")

next_index == (active_index + 1) % window_count

desktop_focus_next == /\ move_focus(next_index)
                      /\ desktop_refresh_runtime_panel

desktop_focus_previous == /\ move_focus((active_index + window_count - 1) % window_count)
                          /\ desktop_refresh_runtime_panel

\* A title no window has changes nothing.
titled(title) == { i \in Indices : apps[i + 1] = title }

focus_quietly(title) == \* mutant: the panel is not refreshed
    /\ IF titled(title) = {} THEN UNCHANGED focus
       ELSE \E i \in titled(title) : move_focus(i)
    /\ UNCHANGED <<runtime_panel_dirty, panel>>

focus_window_by_title(title) ==
    IF titled(title) = {} THEN UNCHANGED <<focus, runtime_panel_dirty, panel>>
    ELSE /\ \E i \in titled(title) : move_focus(i)
         /\ desktop_refresh_runtime_panel

desktop_set_mode(mode) == mode_name' = mode

(***************************************************************************)
(* What desktop_handle_voice_intent does with each kind of intent.         *)
(***************************************************************************)
Focus(titles) == [kind : {"focus"}, title : titles]
Mode(modes)   == [kind : {"mode"}, mode : modes]

\* All intents but those for a mode ask for a run.
asks(intent) == \/ intent.kind \in {"next", "previous", "status"}
                \/ intent.kind = "focus" /\ titled(intent.title) # {}

desktop_handle_voice_intent(intent) ==
    /\ \/ /\ intent.kind = "focus"
          /\ focus_window_by_title(intent.title)
          /\ UNCHANGED mode_name
       \/ /\ intent.kind = "mode"
          /\ desktop_set_mode(intent.mode)
          /\ UNCHANGED <<focus, runtime_panel_dirty, panel>>
       \/ /\ intent.kind = "next"
          /\ desktop_focus_next
          /\ UNCHANGED mode_name
       \/ /\ intent.kind = "previous"
          /\ desktop_focus_previous
          /\ UNCHANGED mode_name
       \/ /\ intent.kind = "status"
          /\ UNCHANGED <<focus, mode_name>>
          /\ desktop_refresh_runtime_panel
    /\ IF asks(intent) THEN requested' = "command" /\ runs' = 0 ELSE UNCHANGED asked
    /\ UNCHANGED tick_count

(***************************************************************************)
(* desktop_tick: every MonitorPeriod ticks say so on the panel, run what   *)
(* is queued, and every AutoFocusPeriod ticks move the focus on, which     *)
(* queues a run, and run the application as well.  The panel shows what    *)
(* was written last.                                                       *)
(***************************************************************************)
monitors  == tick_count' % MonitorPeriod = 0
automatic == tick_count' % AutoFocusPeriod = 0

runs_queued == IF runtime_panel_dirty THEN 1 ELSE 0
runs_automatic == IF automatic THEN 1 ELSE 0

queued_after_never == FALSE \* mutant: the flag is cleared at the end of the tick
queued_after == automatic

desktop_tick ==
    /\ tick_count' = (tick_count + 1) % TickCycle
    /\ IF automatic THEN move_focus(next_index) ELSE UNCHANGED focus
    /\ runtime_panel_dirty' = queued_after
    /\ panel' = IF runs_queued + runs_automatic > 0 THEN overlay(active_index', "RUN")
                ELSE IF monitors THEN overlay(active_index, "RUNTIME MONITORING")
                ELSE panel
    /\ requested' = IF automatic THEN "timer" ELSE requested
    /\ runs' = IF automatic THEN runs_automatic ELSE runs + runs_queued
    /\ UNCHANGED mode_name

-----------------------------------------------------------------------------
\* The panel names the application that has the focus, however the focus was
\* changed, and what it announces as queued really is.
PanelCurrent == panel # Nothing => /\ panel.app = desktop_active_app
                                   /\ panel.activity = "TASK QUEUED" => runtime_panel_dirty

\* No request is lost and none is answered more often than the code means to:
\* for a command the active application is run once, at the next tick; for an
\* automatic change of focus twice, at once and at the next tick; and not at all
\* before the first request.  A request that comes while a run is queued takes
\* that run over.
RunsAsRequested == runs + runs_queued = CASE requested = "nobody"  -> 0
                                          [] requested = "command" -> 1
                                          [] requested = "timer"   -> 2
==============================================================================
