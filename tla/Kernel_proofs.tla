---------------------------- MODULE Kernel_proofs ---------------------------
(***************************************************************************)
(* Theorems about Kernel, the composition of scheduler, key queue, AI      *)
(* layer and desktop, for every size of the tables and the line buffer,    *)
(* every set of characters and every row of windows.                       *)
(***************************************************************************)
EXTENDS Kernel, SequenceTheorems, TLAPS

\* A round of the kernel's loop, seen by the processor.
CpuInv == /\ cpu \in {"boot", "loop", "entry", "return", "halted"}
          /\ cpu \in {"entry", "return"} <=> running # NoTask

QueueInv == pending \in Seq(Chars) /\ Len(pending) <= Capacity

(***************************************************************************)
(* The inductive invariant: the types of the four parts, and the panel.    *)
(***************************************************************************)
IInv == S!TypeOK /\ A!TypeOK /\ D!TypeOK /\ QueueInv /\ CpuInv /\ PanelCurrent

-----------------------------------------------------------------------------
(***************************************************************************)
(* Scheduler                                                               *)
(***************************************************************************)
LEMMA CreditsType ==
    ASSUME S!TypeOK
    PROVE  /\ S!credits_now \in [S!Lanes -> Nat]
           /\ S!granted_now \in [S!Lanes -> Nat]
           /\ S!NoCredits \in [S!Lanes -> Nat]
<1>1. \A l \in S!Lanes : S!lane_weight(l) \in Nat
  BY DEF S!lane_weight, S!Lanes, S!SYSTEM, S!USER, S!AI
<1>2. S!NoCredits \in [S!Lanes -> Nat]
  BY DEF S!NoCredits
<1>3. S!replenished \in [S!Lanes -> Nat]
  BY <1>1 DEF S!replenished
<1> QED
  BY <1>2, <1>3 DEF S!TypeOK, S!credits_now, S!granted_now

LEMMA AddLaneType ==
    ASSUME S!TypeOK, NEW lane \in S!Lanes, S!scheduler_add_lane(lane)
    PROVE  S!TypeOK'
<1>1. task_count \in S!Slots /\ task_count \in Nat /\ task_count + 1 \in 0..MAX_TASKS
  BY TableAssumption DEF S!scheduler_add_lane, S!TypeOK, S!Slots
<1>2. tasks' \in [S!Slots -> S!Task]
  BY <1>1 DEF S!scheduler_add_lane, S!TypeOK, S!Task
<1>3. next_task < task_count + 1
  <2>1. CASE task_count > 0
    BY <1>1, <2>1 DEF S!TypeOK
  <2>2. CASE task_count = 0
    BY <1>1, <2>2 DEF S!TypeOK
  <2> QED
    BY <1>1, <2>1, <2>2
<1>4. running # NoTask => running < task_count + 1
  BY <1>1 DEF S!TypeOK, S!Slots
<1> QED
  BY <1>1, <1>2, <1>3, <1>4 DEF S!scheduler_add_lane, S!TypeOK, S!credits

LEMMA DispatchType ==
    ASSUME S!TypeOK, NEW i \in S!TaskIds, S!Dispatch(i),
           UNCHANGED <<tasks, task_count, performance_mode, booted>>
    PROVE  S!TypeOK' /\ running' # NoTask
<1>1. i \in S!Slots /\ i \in Nat /\ i < task_count /\ task_count \in Nat
  BY TableAssumption DEF S!TaskIds, S!TypeOK, S!Slots
<1>2. tasks[i].lane \in S!Lanes /\ S!credits_now[tasks[i].lane] > 0
  BY <1>1 DEF S!TypeOK, S!Task, S!Dispatch, S!selected, S!candidate
<1>3. lane_credits' \in [S!Lanes -> Nat] /\ granted' \in [S!Lanes -> Nat]
  BY <1>2, CreditsType DEF S!Dispatch
<1>4. next_task' \in Nat /\ next_task' < task_count
  BY <1>1 DEF S!Dispatch
<1>5. running' = i
  BY DEF S!Dispatch
<1>6. running' # NoTask
  BY <1>1, <1>5, TableAssumption
<1> QED
  BY <1>1, <1>3, <1>4, <1>5, <1>6 DEF S!TypeOK

LEMMA RunOnceType ==
    ASSUME S!TypeOK, S!scheduler_run_once
    PROVE  S!TypeOK'
<1>1. UNCHANGED <<tasks, task_count, performance_mode, booted>>
  BY DEF S!scheduler_run_once, S!table
<1>2. ASSUME NEW i \in S!TaskIds, S!Dispatch(i) PROVE S!TypeOK'
  BY <1>1, <1>2, DispatchType
<1>3. CASE S!NoDispatch
  BY <1>1, <1>3, CreditsType DEF S!NoDispatch, S!TypeOK
<1> QED
  BY <1>2, <1>3 DEF S!scheduler_run_once

-----------------------------------------------------------------------------
(***************************************************************************)
(* AI layer                                                                *)
(***************************************************************************)
LEMMA LinesShape ==
    ASSUME NEW line
    PROVE  line \in A!Lines <=> line \in Seq(Printable) /\ Len(line) < AI_BUFFER_SIZE
<1>1. ASSUME line \in A!Lines PROVE line \in Seq(Printable) /\ Len(line) < AI_BUFFER_SIZE
  <2>1. PICK n \in 0..(AI_BUFFER_SIZE - 1) : line \in [1..n -> Printable]
    BY <1>1 DEF A!Lines
  <2>2. n \in Nat
    BY LineAssumption
  <2>3. line \in Seq(Printable)
    <3>1. line \in UNION { [1..m -> Printable] : m \in Nat }
      BY <2>1, <2>2
    <3> QED
      BY <3>1, SeqDef, Zenon
  <2>4. Len(line) \in Nat /\ DOMAIN line = 1..Len(line)
    BY <2>3, LenProperties, Zenon
  <2>5. 1..Len(line) = 1..n
    BY <2>1, <2>4
  <2>6. Len(line) = n
    <3>1. ~(n < Len(line))
      <4>1. n < Len(line) => Len(line) \in 1..Len(line) /\ Len(line) \notin 1..n
        BY <2>2, <2>4
      <4> QED
        BY <2>5, <4>1
    <3>2. ~(Len(line) < n)
      <4>1. Len(line) < n => n \in 1..n /\ n \notin 1..Len(line)
        BY <2>2, <2>4
      <4> QED
        BY <2>5, <4>1
    <3>3. \A i, j \in Nat : i < j \/ j < i \/ i = j
      OBVIOUS
    <3> QED
      BY <2>2, <2>4, <3>1, <3>2, <3>3, Zenon
  <2>7. n < AI_BUFFER_SIZE
    BY LineAssumption
  <2> QED
    BY <2>3, <2>6, <2>7
<1>2. ASSUME line \in Seq(Printable), Len(line) < AI_BUFFER_SIZE PROVE line \in A!Lines
  <2>1. Len(line) \in Nat /\ line \in [1..Len(line) -> Printable]
    BY <1>2, LenProperties, Zenon
  <2>2. Len(line) \in 0..(AI_BUFFER_SIZE - 1)
    BY <1>2, <2>1, LineAssumption
  <2> QED
    BY <2>1, <2>2, Zenon DEF A!Lines
<1> QED
  BY <1>1, <1>2

LEMMA FeedKeyType ==
    ASSUME A!TypeOK, NEW character \in Chars, A!ai_feed_key(character)
    PROVE  A!TypeOK'
<1>1. /\ command_buffer \in Seq(Printable) /\ Len(command_buffer) < AI_BUFFER_SIZE
      /\ last_command \in A!Lines
  BY LinesShape DEF A!TypeOK
<1>2. CASE A!rub_out(character)
  <2>1. command_buffer' \in Seq(Printable) /\ Len(command_buffer') < AI_BUFFER_SIZE
    <3>1. CASE command_buffer = <<>>
      BY <1>1, <1>2, <3>1, LineAssumption DEF A!rub_out
    <3>2. CASE command_buffer # <<>>
      <4>1. command_buffer' = SubSeq(command_buffer, 1, Len(command_buffer) - 1)
        BY <1>2, <3>2 DEF A!rub_out
      <4>2. Len(command_buffer) \in Nat /\ Len(command_buffer) # 0
        BY <1>1, <3>2
      <4> QED
        BY <1>1, <4>1, <4>2, LineAssumption
    <3> QED
      BY <3>1, <3>2
  <2> QED
    BY <1>2, <2>1, LinesShape DEF A!rub_out, A!TypeOK
<1>3. CASE A!enter(character)
  <2>1. <<>> \in A!Lines
    <3>1. <<>> \in Seq(Printable) /\ Len(<<>>) < AI_BUFFER_SIZE
      BY LineAssumption
    <3> QED
      BY <3>1, LinesShape, Zenon
  <2>2. CASE command_buffer # <<>>
    BY <1>3, <2>1, <2>2 DEF A!enter, A!TypeOK
  <2>3. CASE command_buffer = <<>>
    BY <1>3, <2>1, <2>3 DEF A!enter, A!TypeOK
  <2> QED
    BY <2>2, <2>3
<1>4. CASE A!type(character)
  <2>1. command_buffer' \in A!Lines
    <3>1. CASE Len(command_buffer) + 1 >= AI_BUFFER_SIZE
      BY <1>4, <3>1 DEF A!type, A!TypeOK
    <3>2. CASE ~(Len(command_buffer) + 1 >= AI_BUFFER_SIZE)
      <4>1. command_buffer' = Append(command_buffer, character) /\ character \in Printable
        BY <1>4, <3>2 DEF A!type
      <4>2. command_buffer' \in Seq(Printable) /\ Len(command_buffer') = Len(command_buffer) + 1
        BY <1>1, <4>1
      <4>3. Len(command_buffer') < AI_BUFFER_SIZE
        BY <1>1, <3>2, <4>2, LineAssumption
      <4> QED
        BY <4>2, <4>3, LinesShape
    <3> QED
      BY <3>1, <3>2
  <2> QED
    BY <1>4, <2>1 DEF A!type, A!TypeOK
<1>5. CASE A!ignored(character)
  BY <1>5 DEF A!ignored, A!vars, A!TypeOK
<1> QED
  BY <1>2, <1>3, <1>4, <1>5 DEF A!ai_feed_key

-----------------------------------------------------------------------------
(***************************************************************************)
(* Desktop.  Whatever changes the focus leaves the panel naming the        *)
(* application that has it then.                                           *)
(***************************************************************************)
LEMMA IndicesType ==
    /\ D!Indices \subseteq Nat
    /\ 0 \in D!Indices
    /\ \A n \in Nat : n % D!window_count \in D!Indices
    /\ D!window_count \in Nat \ {0}
BY WindowsAssumption DEF D!Indices, D!window_count

LEMMA MoveFocusType ==
    ASSUME NEW index \in D!Indices, D!move_focus(index)
    PROVE  /\ windows' \in [D!Indices -> BOOLEAN]
           /\ active_index' \in D!Indices
BY Zenon DEF D!move_focus

Apps   == { apps[i + 1] : i \in D!Indices }
Panels == [app : Apps, activity : D!Activities]

LEMMA Shown ==
    ASSUME NEW index \in D!Indices, NEW activity \in D!Activities
    PROVE  D!overlay(index, activity) \in Panels
BY DEF D!overlay, Panels, Apps

LEMMA RefreshedPanel ==
    ASSUME active_index' \in D!Indices, D!desktop_refresh_runtime_panel
    PROVE  /\ runtime_panel_dirty' \in BOOLEAN
           /\ panel' \in Panels
           /\ PanelCurrent'
<1>1. panel' \in Panels
  BY Shown DEF D!desktop_refresh_runtime_panel, D!Activities
<1> QED
  BY <1>1 DEF D!desktop_refresh_runtime_panel, PanelCurrent, D!PanelCurrent, D!desktop_active_app,
              D!overlay

LEMMA NextIndexType ==
    ASSUME D!TypeOK
    PROVE  /\ D!next_index \in D!Indices
           /\ (active_index + D!window_count - 1) % D!window_count \in D!Indices
<1>1. active_index \in Nat /\ D!window_count \in Nat \ {0}
  BY IndicesType DEF D!TypeOK
<1>2. active_index + 1 \in Nat /\ active_index + D!window_count - 1 \in Nat
  BY <1>1
<1> QED
  BY <1>2, IndicesType DEF D!next_index

AskedType == requested \in {"nobody", "command", "timer"} /\ runs \in Nat

LEMMA FocusType ==
    ASSUME D!TypeOK, NEW index \in D!Indices, D!move_focus(index),
           D!desktop_refresh_runtime_panel, UNCHANGED <<mode_name, tick_count>>, AskedType'
    PROVE  D!TypeOK' /\ PanelCurrent'
<1>1. windows' \in [D!Indices -> BOOLEAN] /\ active_index' \in D!Indices
  BY MoveFocusType
<1>2. runtime_panel_dirty' \in BOOLEAN /\ panel' \in Panels /\ PanelCurrent'
  BY <1>1, RefreshedPanel
<1> QED
  BY <1>1, <1>2 DEF D!TypeOK, Panels, Apps, AskedType

LEMMA IntentType ==
    ASSUME D!TypeOK, PanelCurrent, NEW intent \in ExactIntents \cup PhraseIntents,
           D!desktop_handle_voice_intent(intent)
    PROVE  D!TypeOK' /\ PanelCurrent'
<1>1. UNCHANGED tick_count
  BY DEF D!desktop_handle_voice_intent
<1>6. AskedType'
  BY DEF D!desktop_handle_voice_intent, D!asked, D!TypeOK, AskedType
<1>2. CASE intent.kind = "focus" /\ D!focus_window_by_title(intent.title) /\ UNCHANGED mode_name
  <2>1. CASE D!titled(intent.title) = {}
    BY <1>1, <1>2, <1>6, <2>1
       DEF D!focus_window_by_title, D!focus, D!TypeOK, AskedType, PanelCurrent, D!PanelCurrent,
           D!desktop_active_app
  <2>2. CASE D!titled(intent.title) # {}
    <3>1. PICK i \in D!titled(intent.title) : D!move_focus(i)
      BY <1>2, <2>2 DEF D!focus_window_by_title
    <3>2. D!desktop_refresh_runtime_panel
      BY <1>2, <2>2 DEF D!focus_window_by_title
    <3>3. i \in D!Indices
      BY DEF D!titled
    <3> QED
      BY <1>1, <1>2, <1>6, <3>1, <3>2, <3>3, FocusType
  <2> QED
    BY <2>1, <2>2
<1>3. CASE intent.kind = "mode" /\ D!desktop_set_mode(intent.mode)
           /\ UNCHANGED <<windows, active_index, runtime_panel_dirty, panel>>
  <2>1. intent.mode \in D!Modes
    BY <1>3 DEF ExactIntents, PhraseIntents, D!Focus, D!Mode, D!Modes
  <2> QED
    BY <1>1, <1>3, <1>6, <2>1
       DEF D!desktop_set_mode, D!TypeOK, AskedType, PanelCurrent, D!PanelCurrent, D!desktop_active_app
<1>4. CASE (D!desktop_focus_next \/ D!desktop_focus_previous) /\ UNCHANGED mode_name
  BY <1>1, <1>4, <1>6, NextIndexType, FocusType DEF D!desktop_focus_next, D!desktop_focus_previous
<1>5. CASE UNCHANGED <<windows, active_index, mode_name>> /\ D!desktop_refresh_runtime_panel
  <2>1. active_index' \in D!Indices
    BY <1>5 DEF D!TypeOK
  <2> QED
    BY <1>1, <1>5, <1>6, <2>1, RefreshedPanel DEF D!TypeOK, Panels, Apps, AskedType
<1> QED
  BY <1>2, <1>3, <1>4, <1>5 DEF D!desktop_handle_voice_intent, D!focus

LEMMA TickType ==
    ASSUME D!TypeOK, PanelCurrent, D!desktop_tick
    PROVE  D!TypeOK' /\ PanelCurrent'
<1>1. tick_count' \in 0..(TickCycle - 1) /\ mode_name' \in D!Modes
  <2>1. tick_count + 1 \in Nat /\ TickCycle \in Nat \ {0}
    BY WindowsAssumption DEF D!TypeOK
  <2>2. (tick_count + 1) % TickCycle \in 0..(TickCycle - 1)
    BY <2>1
  <2> QED
    BY <2>2 DEF D!desktop_tick, D!TypeOK
<1>2. windows' \in [D!Indices -> BOOLEAN] /\ active_index' \in D!Indices
  <2>1. CASE D!automatic
    BY <2>1, NextIndexType, MoveFocusType DEF D!desktop_tick
  <2>2. CASE ~D!automatic
    BY <2>2 DEF D!desktop_tick, D!focus, D!TypeOK
  <2> QED
    BY <2>1, <2>2
<1>3. runtime_panel_dirty' \in BOOLEAN
  BY DEF D!desktop_tick, D!queued_after, D!automatic
<1>4. /\ panel' \in Panels \cup {Nothing}
      /\ panel' # Nothing => /\ panel'.app = apps[active_index' + 1]
                             /\ panel'.activity = "TASK QUEUED" => runtime_panel_dirty'
  <2>1. CASE D!runs_queued + D!runs_automatic > 0
    <3>1. panel' = D!overlay(active_index', "RUN")
      BY <2>1 DEF D!desktop_tick
    <3> QED
      BY <1>2, <3>1, Shown DEF D!Activities, D!overlay
  <2>2. CASE ~(D!runs_queued + D!runs_automatic > 0)
    <3>1. ~runtime_panel_dirty /\ ~D!automatic
      BY <2>2 DEF D!runs_queued, D!runs_automatic
    <3>2. active_index' = active_index
      BY <3>1 DEF D!desktop_tick, D!focus
    <3>3. CASE D!monitors
      <4>1. panel' = D!overlay(active_index, "RUNTIME MONITORING")
        BY <2>2, <3>3 DEF D!desktop_tick
      <4> QED
        BY <1>2, <3>2, <4>1, Shown DEF D!Activities, D!overlay
    <3>4. CASE ~D!monitors
      <4>1. panel' = panel
        BY <2>2, <3>4 DEF D!desktop_tick
      <4> QED
        BY <3>1, <3>2, <4>1
           DEF D!TypeOK, Panels, Apps, PanelCurrent, D!PanelCurrent, D!desktop_active_app
    <3> QED
      BY <3>3, <3>4
  <2> QED
    BY <2>1, <2>2
<1>5. AskedType'
  <2>1. runs + D!runs_queued \in Nat /\ D!runs_automatic \in Nat
    BY DEF D!runs_queued, D!runs_automatic, D!TypeOK
  <2>2. runs' = IF D!automatic THEN D!runs_automatic ELSE runs + D!runs_queued
    BY DEF D!desktop_tick
  <2>3. requested' = IF D!automatic THEN "timer" ELSE requested
    BY DEF D!desktop_tick
  <2>4. requested \in {"nobody", "command", "timer"}
    BY DEF D!TypeOK
  <2> QED
    BY <2>1, <2>2, <2>3, <2>4 DEF AskedType
<1>6. D!TypeOK'
  BY <1>1, <1>2, <1>3, <1>4, <1>5 DEF D!TypeOK, Panels, Apps, AskedType
<1> QED
  BY <1>4, <1>6 DEF PanelCurrent, D!PanelCurrent, D!desktop_active_app

-----------------------------------------------------------------------------
(***************************************************************************)
(* The kernel                                                              *)
(***************************************************************************)
LEMMA AgendaType ==
    \A t \in Agenda : t \in Nat /\ lane_of[t] \in S!Lanes
BY DEF Agenda, lane_of, HEARTBEAT, INPUT, AITASK, DESKTOP, AUDIO, S!Lanes, S!SYSTEM, S!USER, S!AI

LEMMA InitIInv == Init => IInv
<1> SUFFICES ASSUME Init PROVE IInv
  OBVIOUS
<1>1. S!TypeOK
  <2>1. tasks \in [S!Slots -> S!Task]
    BY DEF Init, S!Init, S!Task, S!Lanes
  <2>2. lane_credits \in [S!Lanes -> Nat] /\ granted \in [S!Lanes -> Nat]
    BY DEF Init, S!Init, S!NoCredits
  <2>3. task_count = 0 /\ next_task = 0 /\ running = NoTask /\ 0 \in 0..MAX_TASKS
    BY TableAssumption DEF Init, S!Init
  <2>4. performance_mode \in BOOLEAN /\ booted \in BOOLEAN
    BY DEF Init, S!Init
  <2> QED
    BY <2>1, <2>2, <2>3, <2>4 DEF S!TypeOK
<1>2. A!TypeOK
  <2>1. <<>> \in Seq(Printable) /\ Len(<<>>) < AI_BUFFER_SIZE
    BY LineAssumption
  <2>2. <<>> \in A!Lines
    BY <2>1, LinesShape, Zenon
  <2> QED
    BY <2>2 DEF Init, A!Init, A!TypeOK
<1>3. D!TypeOK
  <2>1. windows \in [D!Indices -> BOOLEAN]
    BY Zenon DEF Init, D!Init
  <2>2. tick_count \in 0..(TickCycle - 1)
    BY WindowsAssumption DEF Init, D!Init
  <2>3. /\ active_index = 0 /\ mode_name = "HYBRID" /\ runtime_panel_dirty = FALSE
        /\ panel = Nothing /\ requested = "nobody" /\ runs = 0
    BY DEF Init, D!Init
  <2> QED
    BY <2>1, <2>2, <2>3, IndicesType DEF D!TypeOK, D!Modes
<1>4. QueueInv
  BY QueueAssumption DEF Init, K!Init, QueueInv
<1>5. CpuInv /\ PanelCurrent
  BY DEF Init, S!Init, D!Init, CpuInv, PanelCurrent, D!PanelCurrent
<1> QED
  BY <1>1, <1>2, <1>3, <1>4, <1>5 DEF IInv

\* A part that a step leaves alone keeps its invariant.
LEMMA Framed ==
    /\ S!TypeOK /\ UNCHANGED schedVars => S!TypeOK'
    /\ A!TypeOK /\ UNCHANGED aiVars => A!TypeOK'
    /\ D!TypeOK /\ PanelCurrent /\ UNCHANGED deskVars => D!TypeOK' /\ PanelCurrent'
    /\ QueueInv /\ UNCHANGED keyVars => QueueInv'
<1>1. S!TypeOK /\ UNCHANGED schedVars => S!TypeOK'
  BY DEF schedVars, S!TypeOK
<1>2. A!TypeOK /\ UNCHANGED aiVars => A!TypeOK'
  BY DEF aiVars, A!TypeOK
<1>3. D!TypeOK /\ PanelCurrent /\ UNCHANGED deskVars => D!TypeOK' /\ PanelCurrent'
  <2>1. D!TypeOK /\ UNCHANGED deskVars => D!TypeOK'
    BY DEF deskVars, D!TypeOK
  <2>2. PanelCurrent /\ UNCHANGED deskVars => PanelCurrent'
    <3>1. UNCHANGED deskVars => /\ panel' = panel /\ active_index' = active_index
                                /\ runtime_panel_dirty' = runtime_panel_dirty
      BY DEF deskVars
    <3> QED
      BY <3>1, Zenon DEF PanelCurrent, D!PanelCurrent, D!desktop_active_app
  <2> QED
    BY <2>1, <2>2
<1>4. QueueInv /\ UNCHANGED keyVars => QueueInv'
  BY DEF keyVars, QueueInv
<1> QED
  BY <1>1, <1>2, <1>3, <1>4

LEMMA TakesCommandType ==
    ASSUME A!TypeOK, A!ai_takes_command PROVE A!TypeOK'
BY DEF A!ai_takes_command, A!TypeOK

\* The two ends of the key queue.
LEMMA QueueType ==
    ASSUME QueueInv
    PROVE  /\ \A c \in Chars : K!Accept(c) => QueueInv'
           /\ K!Deliver => QueueInv' /\ Head(pending) \in Chars
<1>1. ASSUME NEW c \in Chars, K!Accept(c) PROVE QueueInv'
  <2>1. pending' \in Seq(Chars) /\ Len(pending') = Len(pending) + 1 /\ Len(pending) \in Nat
    BY <1>1 DEF K!Accept, QueueInv
  <2> QED
    BY <1>1, <2>1, QueueAssumption DEF K!Accept, QueueInv
<1>2. ASSUME K!Deliver PROVE QueueInv' /\ Head(pending) \in Chars
  <2>1. pending # <<>> /\ pending \in Seq(Chars) /\ pending' = Tail(pending)
    BY <1>2 DEF K!Deliver, QueueInv
  <2>2. Head(pending) \in Chars /\ pending' \in Seq(Chars) /\ Len(pending') = Len(pending) - 1
    BY <2>1, HeadTailProperties, Zenon
  <2>3. Len(pending) \in Nat /\ Len(pending) <= Capacity
    BY DEF QueueInv
  <2> QED
    BY <2>2, <2>3, QueueAssumption DEF QueueInv
<1> QED
  BY <1>1, <1>2

LEMMA NextIInv == IInv /\ [Next]_vars => IInv'
<1> SUFFICES ASSUME IInv, [Next]_vars PROVE IInv'
  OBVIOUS
<1> USE DEF IInv
<1>1. CASE UNCHANGED vars
  <2>1. CpuInv'
    BY <1>1 DEF vars, schedVars, CpuInv
  <2> QED
    BY <1>1, <2>1, Framed DEF vars
<1>2. CASE AddTask
  <2>1. S!TypeOK'
    BY <1>2, AgendaType, AddLaneType DEF AddTask
  <2>2. CpuInv'
    BY <1>2 DEF AddTask, S!scheduler_add_lane, CpuInv
  <2> QED
    BY <1>2, <2>1, <2>2, Framed DEF AddTask
<1>3. CASE EnableInterrupts
  <2>1. S!TypeOK'
    BY <1>3 DEF EnableInterrupts, S!interrupts_enable, S!TypeOK, S!table, S!credits
  <2>2. CpuInv'
    BY <1>3 DEF EnableInterrupts, S!interrupts_enable, CpuInv
  <2> QED
    BY <1>3, <2>1, <2>2, Framed DEF EnableInterrupts
<1>4. CASE RunOnce
  <2>1. S!TypeOK'
    BY <1>4, RunOnceType DEF RunOnce
  <2>2. CpuInv'
    BY <1>4 DEF RunOnce, CpuInv
  <2> QED
    BY <1>4, <2>1, <2>2, Framed DEF RunOnce
<1>5. CASE TaskReturns
  <2>1. S!TypeOK' /\ CpuInv'
    BY <1>5 DEF TaskReturns, S!TaskReturns, S!TypeOK, S!table, S!credits, CpuInv
  <2> QED
    BY <1>5, <2>1, Framed DEF TaskReturns
<1>6. CASE Report \/ InputIdle \/ Monitor
  <2>1. UNCHANGED <<schedVars, keyVars, aiVars, deskVars>>
    BY <1>6 DEF Report, InputIdle, Monitor, A!ai_monitors, A!vars, aiVars
  <2>2. CpuInv'
    BY <1>6, <2>1 DEF Report, InputIdle, Monitor, Entry, schedVars, CpuInv
  <2> QED
    BY <2>1, <2>2, Framed
<1>7. CASE InputKey
  <2>1. QueueInv' /\ Head(pending) \in Chars
    BY <1>7, QueueType DEF InputKey
  <2>2. A!TypeOK'
    BY <1>7, <2>1, FeedKeyType DEF InputKey
  <2>3. CpuInv'
    BY <1>7 DEF InputKey, Entry, schedVars, CpuInv
  <2> QED
    BY <1>7, <2>1, <2>2, <2>3, Framed DEF InputKey
<1>8. ASSUME NEW enabled \in BOOLEAN, SetPolicy(enabled) PROVE IInv'
  <2>1. S!NoCredits \in [S!Lanes -> Nat]
    BY DEF S!NoCredits
  <2>2. S!TypeOK'
    BY <1>8, <2>1 DEF SetPolicy, S!scheduler_set_performance_mode, S!TypeOK, S!table
  <2>3. CpuInv'
    BY <1>8 DEF SetPolicy, Command, Entry, S!scheduler_set_performance_mode, CpuInv
  <2> QED
    BY <1>8, <2>2, <2>3, Framed, TakesCommandType DEF SetPolicy, Command
<1>9. ASSUME Command, UNCHANGED schedVars, D!TypeOK', PanelCurrent' PROVE IInv'
  <2>1. CpuInv'
    BY <1>9 DEF Command, Entry, schedVars, CpuInv
  <2> QED
    BY <1>9, <2>1, Framed, TakesCommandType DEF Command
<1>10. CASE handle_command
  <2>1. ASSUME NEW intent \in ExactIntents, ExactCommand(intent) PROVE IInv'
    BY <1>9, <2>1, IntentType DEF ExactCommand
  <2>2. ASSUME NEW intent \in PhraseIntents, PhraseCommand(intent) PROVE IInv'
    BY <1>9, <2>2, IntentType DEF PhraseCommand
  <2>3. CASE Command /\ UNCHANGED <<schedVars, deskVars>>
    BY <1>9, <2>3, Framed
  <2> QED
    BY <1>8, <1>10, <2>1, <2>2, <2>3 DEF handle_command, ModeChange
<1>11. CASE DesktopTick
  <2>1. D!TypeOK' /\ PanelCurrent'
    BY <1>11, TickType DEF DesktopTick
  <2>2. CpuInv'
    BY <1>11 DEF DesktopTick, Entry, schedVars, CpuInv
  <2> QED
    BY <1>11, <2>1, <2>2, Framed DEF DesktopTick
<1>12. CASE TimerInterrupt
  <2>1. CpuInv'
    BY <1>12 DEF TimerInterrupt, schedVars, CpuInv
  <2> QED
    BY <1>12, <2>1, Framed DEF TimerInterrupt
<1>13. ASSUME NEW c \in Chars, KeyInterrupt(c) PROVE IInv'
  <2>1. QueueInv'
    BY <1>13, QueueType DEF KeyInterrupt
  <2>2. CpuInv'
    BY <1>13 DEF KeyInterrupt, wake, schedVars, CpuInv
  <2> QED
    BY <1>13, <2>1, <2>2, Framed DEF KeyInterrupt
<1> QED
  BY <1>1, <1>2, <1>3, <1>4, <1>5, <1>6, <1>7, <1>10, <1>11, <1>12, <1>13 DEF Next, Code

LEMMA Invariance == Spec => []IInv
BY InitIInv, NextIInv, PTL DEF Spec

\* Every part of the composed kernel keeps its type: the scheduler's indices stay
\* inside its table, a line fits its buffer and is not empty when it is ready,
\* the key queue does not overflow, and a task runs exactly in an entry.
THEOREM TypeCorrect == Spec => []TypeOK
<1>1. IInv => TypeOK
  BY DEF IInv, QueueInv, CpuInv, TypeOK
<1> QED
  BY <1>1, Invariance, PTL

\* The runtime panel names the application that has the focus, whoever changed
\* the focus, and announces a run only when one is queued.
THEOREM PanelFollowsFocus == Spec => []PanelCurrent
BY Invariance, PTL DEF IInv

-----------------------------------------------------------------------------
(***************************************************************************)
(* The runs of an application.  What was run since the last request and    *)
(* what is queued add up to what that request calls for.                   *)
(***************************************************************************)
Due == IF requested = "nobody" THEN 0 ELSE IF requested = "command" THEN 1 ELSE 2

LEMMA RunsAreDue ==
    /\ D!TypeOK  => (RunsAsRequested <=> runs + D!runs_queued = Due)
    /\ D!TypeOK' => (RunsAsRequested' <=> (runs + D!runs_queued = Due)')
BY DEF D!TypeOK, RunsAsRequested, D!RunsAsRequested, Due

\* An intent that refreshes the panel asks for a run, and one that does not leaves
\* the queue as it is.
LEMMA IntentRuns ==
    ASSUME D!TypeOK, D!TypeOK', RunsAsRequested, NEW intent, D!desktop_handle_voice_intent(intent)
    PROVE  RunsAsRequested'
<1>1. CASE D!asks(intent)
  <2>1. requested' = "command" /\ runs' = 0
    BY <1>1 DEF D!desktop_handle_voice_intent
  <2>2. runtime_panel_dirty'
    BY <1>1 DEF D!desktop_handle_voice_intent, D!asks, D!focus_window_by_title,
                D!desktop_focus_next, D!desktop_focus_previous, D!desktop_refresh_runtime_panel
  <2> QED
    BY <2>1, <2>2, RunsAreDue DEF Due, D!runs_queued
<1>2. CASE ~D!asks(intent)
  <2>1. UNCHANGED <<requested, runs>>
    BY <1>2 DEF D!desktop_handle_voice_intent, D!asked
  <2>2. UNCHANGED runtime_panel_dirty
    BY <1>2 DEF D!desktop_handle_voice_intent, D!asks, D!focus_window_by_title
  <2> QED
    BY <2>1, <2>2, RunsAreDue DEF Due, D!runs_queued
<1> QED
  BY <1>1, <1>2

LEMMA TickRuns ==
    ASSUME D!TypeOK, D!TypeOK', RunsAsRequested, D!desktop_tick
    PROVE  RunsAsRequested'
<1>1. CASE D!automatic
  BY <1>1, RunsAreDue DEF D!desktop_tick, D!queued_after, D!runs_automatic, D!runs_queued, Due
<1>2. CASE ~D!automatic
  <2>1. /\ ~runtime_panel_dirty' /\ requested' = requested
        /\ runs' = runs + D!runs_queued
    BY <1>2 DEF D!desktop_tick, D!queued_after
  <2>2. runs \in Nat /\ D!runs_queued \in Nat
    BY DEF D!TypeOK, D!runs_queued
  <2>3. runs' + (IF runtime_panel_dirty' THEN 1 ELSE 0) = Due'
    BY <2>1, <2>2, RunsAreDue DEF Due
  <2> QED
    BY <2>3, RunsAreDue DEF D!runs_queued
<1> QED
  BY <1>1, <1>2

LEMMA NextRuns == IInv /\ RunsAsRequested /\ [Next]_vars => IInv' /\ RunsAsRequested'
<1> SUFFICES ASSUME IInv, RunsAsRequested, [Next]_vars PROVE IInv' /\ RunsAsRequested'
  OBVIOUS
<1>1. IInv'
  BY NextIInv
<1>2. D!TypeOK /\ D!TypeOK'
  BY <1>1 DEF IInv
<1> SUFFICES RunsAsRequested'
  BY <1>1
<1>3. CASE UNCHANGED deskVars
  BY <1>2, <1>3, RunsAreDue DEF deskVars, Due, D!runs_queued
<1>4. CASE DesktopTick
  BY <1>2, <1>4, TickRuns DEF DesktopTick
<1>5. CASE handle_command
  <2>1. ASSUME NEW intent, D!desktop_handle_voice_intent(intent) PROVE RunsAsRequested'
    BY <1>2, <2>1, IntentRuns
  <2> QED
    BY <1>3, <1>5, <2>1 DEF handle_command, ModeChange, SetPolicy, ExactCommand, PhraseCommand
<1> QED
  BY <1>3, <1>4, <1>5
     DEF Next, Code, vars, AddTask, EnableInterrupts, RunOnce, TaskReturns, Report, InputIdle,
         InputKey, Monitor, TimerInterrupt, KeyInterrupt

\* However commands and ticks of the desktop come, and whatever its periods, an
\* application is run once for a command and twice for an automatic change of
\* focus, unless another request comes first, and never unasked.
THEOREM RunsAnswerRequests == Spec => []RunsAsRequested
<1>1. Init => IInv /\ RunsAsRequested
  <2>1. Init => runs = 0 /\ requested = "nobody" /\ runtime_panel_dirty = FALSE
    BY DEF Init, D!Init
  <2>2. Init => D!TypeOK
    BY InitIInv DEF IInv
  <2> QED
    BY <2>1, <2>2, InitIInv, RunsAreDue DEF Due, D!runs_queued
<1> QED
  BY <1>1, NextRuns, PTL DEF Spec

-----------------------------------------------------------------------------
(***************************************************************************)
(* Balanced mode: no line that is entered is overwritten before it is      *)
(* carried out.                                                            *)
(*                                                                         *)
(* From a boot or a change of mode on, the credits of the three lanes and  *)
(* the place of the search go through the states of Round and no others.   *)
(* Wherever the place is that behind the input task, the AI lane has at    *)
(* least as much credit as any other lane, so that the task after input is *)
(* the AI task: a line that is ready waits at that place, or the AI task   *)
(* is in its entry.                                                        *)
(***************************************************************************)
TableInv ==
    /\ task_count \in 0..(AUDIO + 1)
    /\ \A t \in Agenda : t < task_count => tasks[t] = [lane |-> lane_of[t], active |-> TRUE]
    /\ cpu = "boot" <=> ~booted
    /\ booted => task_count = AUDIO + 1
    /\ ~booted => lane_credits = S!NoCredits /\ next_task = HEARTBEAT /\ ~performance_mode

SearchGoesOn ==
    booted /\ running # NoTask =>
        next_task = IF running = AUDIO THEN HEARTBEAT ELSE running + 1

At(system, user, ai, place) ==
    /\ lane_credits[S!SYSTEM] = system
    /\ lane_credits[S!USER] = user
    /\ lane_credits[S!AI] = ai
    /\ next_task = place

Round == \/ At(0, 0, 0, HEARTBEAT) \/ At(0, 0, 0, INPUT) \/ At(0, 0, 0, DESKTOP)
         \/ At(1, 0, 0, HEARTBEAT) \/ At(1, 1, 0, AUDIO)
         \/ At(1, 1, 1, HEARTBEAT) \/ At(0, 1, 1, INPUT)
         \/ At(1, 1, 1, DESKTOP)   \/ At(1, 2, 1, DESKTOP)
         \/ At(1, 2, 2, HEARTBEAT)
         \/ At(1, 2, 2, AITASK)    \/ At(1, 1, 2, AITASK) \/ At(0, 0, 1, AITASK)

BalancedRound == ~performance_mode => Round

LineWaits == ~performance_mode /\ command_ready =>
                \/ next_task = AITASK /\ cpu # "entry"
                \/ cpu = "entry" /\ running = AITASK

BalancedInv == TableInv /\ SearchGoesOn /\ BalancedRound /\ LineWaits

LEMMA TasksNamed ==
    /\ HEARTBEAT = 0 /\ INPUT = 1 /\ AITASK = 2 /\ DESKTOP = 3 /\ AUDIO = 4
    /\ S!SYSTEM = 0 /\ S!USER = 1 /\ S!AI = 2
    /\ Agenda = 0..4
    /\ S!Lanes = {0, 1, 2}
    /\ lane_of[0] = 0 /\ lane_of[1] = 1 /\ lane_of[2] = 2 /\ lane_of[3] = 2 /\ lane_of[4] = 1
BY DEF HEARTBEAT, INPUT, AITASK, DESKTOP, AUDIO, S!SYSTEM, S!USER, S!AI, Agenda, S!Lanes, lane_of

LEMMA WholeTable ==
    ASSUME TableInv, S!TypeOK, booted
    PROVE  /\ task_count = 5
           /\ S!TaskIds = 0..4
           /\ \A t \in 0..4 : tasks[t].active
           /\ tasks[0].lane = 0 /\ tasks[1].lane = 1 /\ tasks[2].lane = 2
           /\ tasks[3].lane = 2 /\ tasks[4].lane = 1
<1>1. task_count = 5
  BY TasksNamed DEF TableInv
<1>2. ASSUME NEW t \in 0..4 PROVE tasks[t] = [lane |-> lane_of[t], active |-> TRUE]
  <2>1. t \in Agenda /\ t < task_count
    BY <1>1, TasksNamed
  <2> QED
    BY <2>1 DEF TableInv
<1>3. S!TaskIds = 0..4
  BY <1>1, TableAssumption, TasksNamed DEF S!TaskIds, S!Slots
<1> QED
  BY <1>1, <1>2, <1>3, TasksNamed

LEMMA LanesActive ==
    ASSUME TableInv, S!TypeOK, booted PROVE S!active_lanes = {0, 1, 2}
<1>1. ASSUME NEW l \in {0, 1, 2} PROVE l \in S!active_lanes
  <2>1. l \in S!TaskIds /\ tasks[l].active /\ tasks[l].lane = l
    BY WholeTable
  <2> QED
    BY <2>1 DEF S!active_lanes
<1>2. ASSUME NEW l \in S!active_lanes PROVE l \in {0, 1, 2}
  <2>1. PICK t \in S!TaskIds : l = tasks[t].lane
    BY DEF S!active_lanes
  <2>2. t = 0 \/ t = 1 \/ t = 2 \/ t = 3 \/ t = 4
    BY <2>1, WholeTable
  <2> QED
    BY <2>1, <2>2, WholeTable
<1> QED
  BY <1>1, <1>2

LEMMA NewRound ==
    ASSUME TableInv, S!TypeOK, booted, ~performance_mode
    PROVE  /\ (lane_credits[0] = 0 /\ lane_credits[1] = 0 /\ lane_credits[2] = 0) =>
                 S!credits_now[0] = 1 /\ S!credits_now[1] = 3 /\ S!credits_now[2] = 2
           /\ (lane_credits[0] # 0 \/ lane_credits[1] # 0 \/ lane_credits[2] # 0) =>
                 S!credits_now = lane_credits
<1>1. S!runnable_with_credit <=>
         lane_credits[0] # 0 \/ lane_credits[1] # 0 \/ lane_credits[2] # 0
  BY WholeTable DEF S!runnable_with_credit
<1>2. S!replenished[0] = 1 /\ S!replenished[1] = 3 /\ S!replenished[2] = 2
  BY LanesActive, TasksNamed DEF S!replenished, S!lane_weight
<1> QED
  BY <1>1, <1>2 DEF S!credits_now

Place(t) == IF t >= next_task THEN t - next_task ELSE t + 5 - next_task

\* A task with credit that beats every other one is the task that is chosen.
LEMMA Chosen ==
    ASSUME TableInv, S!TypeOK, booted,
           NEW k \in 0..4,
           S!credits_now[tasks[k].lane] > 0,
           \A j \in 0..4 : j # k =>
              \/ S!credits_now[tasks[k].lane] > S!credits_now[tasks[j].lane]
              \/ /\ S!credits_now[tasks[k].lane] = S!credits_now[tasks[j].lane]
                 /\ Place(k) < Place(j)
    PROVE  /\ k \in S!TaskIds /\ S!selected(k)
           /\ \A i \in S!TaskIds : S!selected(i) => i = k
<1>1. /\ task_count = 5 /\ S!TaskIds = 0..4
      /\ \A t \in 0..4 : tasks[t].active /\ tasks[t].lane \in S!Lanes
  <2>1. \A t \in 0..4 : t \in S!TaskIds /\ t \in S!Slots
    BY WholeTable DEF S!TaskIds
  <2> QED
    BY <2>1, WholeTable DEF S!TypeOK, S!Task
<1>2. \A t \in 0..4 : S!credits_now[tasks[t].lane] \in Nat
  BY <1>1, CreditsType
<1>3. next_task \in Nat
  BY DEF S!TypeOK
<1>4. \A t \in 0..4 : S!distance(t) = Place(t) /\ Place(t) \in Int
  BY <1>1, <1>3 DEF S!distance, Place
<1>5. S!candidate(k)
  BY <1>1 DEF S!candidate
<1>6. S!selected(k)
  <2>1. ASSUME NEW j \in 0..4
        PROVE  \/ S!credits_now[tasks[k].lane] > S!credits_now[tasks[j].lane]
               \/ /\ S!credits_now[tasks[k].lane] = S!credits_now[tasks[j].lane]
                  /\ S!distance(k) <= S!distance(j)
    BY <1>2, <1>4
  <2> QED
    BY <1>1, <1>5, <2>1 DEF S!selected
<1>7. ASSUME NEW i \in 0..4, S!selected(i), i # k PROVE FALSE
  <2>1. \/ S!credits_now[tasks[i].lane] > S!credits_now[tasks[k].lane]
        \/ /\ S!credits_now[tasks[i].lane] = S!credits_now[tasks[k].lane]
           /\ S!distance(i) <= S!distance(k)
    BY <1>1, <1>5, <1>7 DEF S!selected
  <2>2. \/ S!credits_now[tasks[k].lane] > S!credits_now[tasks[i].lane]
        \/ /\ S!credits_now[tasks[k].lane] = S!credits_now[tasks[i].lane]
           /\ Place(k) < Place(i)
    BY <1>7
  <2> QED
    BY <1>2, <1>4, <2>1, <2>2
<1> QED
  BY <1>1, <1>6, <1>7

\* What the choice of task k in lane l does to the credits of the round.
LEMMA Drawn ==
    ASSUME TableInv, S!TypeOK, booted, S!scheduler_run_once,
           NEW k \in 0..4,
           S!credits_now[tasks[k].lane] > 0,
           \A j \in 0..4 : j # k =>
              \/ S!credits_now[tasks[k].lane] > S!credits_now[tasks[j].lane]
              \/ /\ S!credits_now[tasks[k].lane] = S!credits_now[tasks[j].lane]
                 /\ Place(k) < Place(j)
    PROVE  /\ running' = k
           /\ next_task' = IF k = 4 THEN 0 ELSE k + 1
           /\ \A l \in {0, 1, 2} :
                 lane_credits'[l] = IF l = tasks[k].lane THEN S!credits_now[l] - 1
                                                         ELSE S!credits_now[l]
<1>1. /\ k \in S!TaskIds /\ S!selected(k)
      /\ \A i \in S!TaskIds : S!selected(i) => i = k
  BY Chosen
<1>2. ~S!NoDispatch
  BY <1>1 DEF S!NoDispatch
<1>3. S!Dispatch(k)
  <2>1. PICK i \in S!TaskIds : S!Dispatch(i)
    BY <1>2 DEF S!scheduler_run_once
  <2>2. S!selected(i)
    BY <2>1 DEF S!Dispatch
  <2>3. i = k
    BY <1>1, <2>2
  <2> QED
    BY <2>1, <2>3
<1>4. DOMAIN S!credits_now = {0, 1, 2}
  BY CreditsType, TasksNamed
<1>5. task_count = 5
  BY WholeTable
<1> QED
  BY <1>3, <1>4, <1>5 DEF S!Dispatch

\* The credits that the search compares in a balanced round, and their lanes.
Compared(system, user, ai, place) ==
    /\ S!credits_now[0] = system /\ S!credits_now[1] = user /\ S!credits_now[2] = ai
    /\ next_task = place

\* Every state of the round: the task that is chosen and the state it leads to.
LEMMA RoundGoesOn ==
    ASSUME TableInv, S!TypeOK, booted, ~performance_mode, Round, S!scheduler_run_once
    PROVE  /\ Round'
           /\ running' \in 0..4
           /\ next_task' = IF running' = 4 THEN 0 ELSE running' + 1
           /\ next_task = AITASK => running' = AITASK
<1> USE TasksNamed
<1>l. /\ tasks[0].lane = 0 /\ tasks[1].lane = 1 /\ tasks[2].lane = 2
      /\ tasks[3].lane = 2 /\ tasks[4].lane = 1
  BY WholeTable
<1>1. CASE At(0, 0, 0, HEARTBEAT)
  <2>1. Compared(1, 3, 2, 0)
    BY <1>1, NewRound DEF At, Compared
  <2>2. /\ S!credits_now[tasks[1].lane] > 0
        /\ \A j \in 0..4 : j # 1 =>
              \/ S!credits_now[tasks[1].lane] > S!credits_now[tasks[j].lane]
              \/ /\ S!credits_now[tasks[1].lane] = S!credits_now[tasks[j].lane]
                 /\ Place(1) < Place(j)
    BY <1>l, <2>1 DEF Compared, Place
  <2>3. running' = 1 /\ At(1, 2, 2, AITASK)'
    BY <1>l, <2>1, <2>2, Drawn DEF Compared, At
  <2> QED
    BY <1>1, <2>3 DEF Round, At
<1>2. CASE At(0, 0, 0, INPUT)
  <2>1. Compared(1, 3, 2, 1)
    BY <1>2, NewRound DEF At, Compared
  <2>2. /\ S!credits_now[tasks[1].lane] > 0
        /\ \A j \in 0..4 : j # 1 =>
              \/ S!credits_now[tasks[1].lane] > S!credits_now[tasks[j].lane]
              \/ /\ S!credits_now[tasks[1].lane] = S!credits_now[tasks[j].lane]
                 /\ Place(1) < Place(j)
    BY <1>l, <2>1 DEF Compared, Place
  <2>3. running' = 1 /\ At(1, 2, 2, AITASK)'
    BY <1>l, <2>1, <2>2, Drawn DEF Compared, At
  <2> QED
    BY <1>2, <2>3 DEF Round, At
<1>3. CASE At(0, 0, 0, DESKTOP)
  <2>1. Compared(1, 3, 2, 3)
    BY <1>3, NewRound DEF At, Compared
  <2>2. /\ S!credits_now[tasks[4].lane] > 0
        /\ \A j \in 0..4 : j # 4 =>
              \/ S!credits_now[tasks[4].lane] > S!credits_now[tasks[j].lane]
              \/ /\ S!credits_now[tasks[4].lane] = S!credits_now[tasks[j].lane]
                 /\ Place(4) < Place(j)
    BY <1>l, <2>1 DEF Compared, Place
  <2>3. running' = 4 /\ At(1, 2, 2, HEARTBEAT)'
    BY <1>l, <2>1, <2>2, Drawn DEF Compared, At
  <2> QED
    BY <1>3, <2>3 DEF Round, At
<1>4. CASE At(1, 0, 0, HEARTBEAT)
  <2>1. Compared(1, 0, 0, 0)
    BY <1>4, NewRound DEF At, Compared
  <2>2. /\ S!credits_now[tasks[0].lane] > 0
        /\ \A j \in 0..4 : j # 0 =>
              \/ S!credits_now[tasks[0].lane] > S!credits_now[tasks[j].lane]
              \/ /\ S!credits_now[tasks[0].lane] = S!credits_now[tasks[j].lane]
                 /\ Place(0) < Place(j)
    BY <1>l, <2>1 DEF Compared, Place
  <2>3. running' = 0 /\ At(0, 0, 0, INPUT)'
    BY <1>l, <2>1, <2>2, Drawn DEF Compared, At
  <2> QED
    BY <1>4, <2>3 DEF Round, At
<1>5. CASE At(1, 1, 0, AUDIO)
  <2>1. Compared(1, 1, 0, 4)
    BY <1>5, NewRound DEF At, Compared
  <2>2. /\ S!credits_now[tasks[4].lane] > 0
        /\ \A j \in 0..4 : j # 4 =>
              \/ S!credits_now[tasks[4].lane] > S!credits_now[tasks[j].lane]
              \/ /\ S!credits_now[tasks[4].lane] = S!credits_now[tasks[j].lane]
                 /\ Place(4) < Place(j)
    BY <1>l, <2>1 DEF Compared, Place
  <2>3. running' = 4 /\ At(1, 0, 0, HEARTBEAT)'
    BY <1>l, <2>1, <2>2, Drawn DEF Compared, At
  <2> QED
    BY <1>5, <2>3 DEF Round, At
<1>6. CASE At(1, 1, 1, HEARTBEAT)
  <2>1. Compared(1, 1, 1, 0)
    BY <1>6, NewRound DEF At, Compared
  <2>2. /\ S!credits_now[tasks[0].lane] > 0
        /\ \A j \in 0..4 : j # 0 =>
              \/ S!credits_now[tasks[0].lane] > S!credits_now[tasks[j].lane]
              \/ /\ S!credits_now[tasks[0].lane] = S!credits_now[tasks[j].lane]
                 /\ Place(0) < Place(j)
    BY <1>l, <2>1 DEF Compared, Place
  <2>3. running' = 0 /\ At(0, 1, 1, INPUT)'
    BY <1>l, <2>1, <2>2, Drawn DEF Compared, At
  <2> QED
    BY <1>6, <2>3 DEF Round, At
<1>7. CASE At(0, 1, 1, INPUT)
  <2>1. Compared(0, 1, 1, 1)
    BY <1>7, NewRound DEF At, Compared
  <2>2. /\ S!credits_now[tasks[1].lane] > 0
        /\ \A j \in 0..4 : j # 1 =>
              \/ S!credits_now[tasks[1].lane] > S!credits_now[tasks[j].lane]
              \/ /\ S!credits_now[tasks[1].lane] = S!credits_now[tasks[j].lane]
                 /\ Place(1) < Place(j)
    BY <1>l, <2>1 DEF Compared, Place
  <2>3. running' = 1 /\ At(0, 0, 1, AITASK)'
    BY <1>l, <2>1, <2>2, Drawn DEF Compared, At
  <2> QED
    BY <1>7, <2>3 DEF Round, At
<1>8. CASE At(1, 1, 1, DESKTOP)
  <2>1. Compared(1, 1, 1, 3)
    BY <1>8, NewRound DEF At, Compared
  <2>2. /\ S!credits_now[tasks[3].lane] > 0
        /\ \A j \in 0..4 : j # 3 =>
              \/ S!credits_now[tasks[3].lane] > S!credits_now[tasks[j].lane]
              \/ /\ S!credits_now[tasks[3].lane] = S!credits_now[tasks[j].lane]
                 /\ Place(3) < Place(j)
    BY <1>l, <2>1 DEF Compared, Place
  <2>3. running' = 3 /\ At(1, 1, 0, AUDIO)'
    BY <1>l, <2>1, <2>2, Drawn DEF Compared, At
  <2> QED
    BY <1>8, <2>3 DEF Round, At
<1>9. CASE At(1, 2, 1, DESKTOP)
  <2>1. Compared(1, 2, 1, 3)
    BY <1>9, NewRound DEF At, Compared
  <2>2. /\ S!credits_now[tasks[4].lane] > 0
        /\ \A j \in 0..4 : j # 4 =>
              \/ S!credits_now[tasks[4].lane] > S!credits_now[tasks[j].lane]
              \/ /\ S!credits_now[tasks[4].lane] = S!credits_now[tasks[j].lane]
                 /\ Place(4) < Place(j)
    BY <1>l, <2>1 DEF Compared, Place
  <2>3. running' = 4 /\ At(1, 1, 1, HEARTBEAT)'
    BY <1>l, <2>1, <2>2, Drawn DEF Compared, At
  <2> QED
    BY <1>9, <2>3 DEF Round, At
<1>10. CASE At(1, 2, 2, HEARTBEAT)
  <2>1. Compared(1, 2, 2, 0)
    BY <1>10, NewRound DEF At, Compared
  <2>2. /\ S!credits_now[tasks[1].lane] > 0
        /\ \A j \in 0..4 : j # 1 =>
              \/ S!credits_now[tasks[1].lane] > S!credits_now[tasks[j].lane]
              \/ /\ S!credits_now[tasks[1].lane] = S!credits_now[tasks[j].lane]
                 /\ Place(1) < Place(j)
    BY <1>l, <2>1 DEF Compared, Place
  <2>3. running' = 1 /\ At(1, 1, 2, AITASK)'
    BY <1>l, <2>1, <2>2, Drawn DEF Compared, At
  <2> QED
    BY <1>10, <2>3 DEF Round, At
<1>11. CASE At(1, 2, 2, AITASK)
  <2>1. Compared(1, 2, 2, 2)
    BY <1>11, NewRound DEF At, Compared
  <2>2. /\ S!credits_now[tasks[2].lane] > 0
        /\ \A j \in 0..4 : j # 2 =>
              \/ S!credits_now[tasks[2].lane] > S!credits_now[tasks[j].lane]
              \/ /\ S!credits_now[tasks[2].lane] = S!credits_now[tasks[j].lane]
                 /\ Place(2) < Place(j)
    BY <1>l, <2>1 DEF Compared, Place
  <2>3. running' = 2 /\ At(1, 2, 1, DESKTOP)'
    BY <1>l, <2>1, <2>2, Drawn DEF Compared, At
  <2> QED
    BY <1>11, <2>3 DEF Round, At
<1>12. CASE At(1, 1, 2, AITASK)
  <2>1. Compared(1, 1, 2, 2)
    BY <1>12, NewRound DEF At, Compared
  <2>2. /\ S!credits_now[tasks[2].lane] > 0
        /\ \A j \in 0..4 : j # 2 =>
              \/ S!credits_now[tasks[2].lane] > S!credits_now[tasks[j].lane]
              \/ /\ S!credits_now[tasks[2].lane] = S!credits_now[tasks[j].lane]
                 /\ Place(2) < Place(j)
    BY <1>l, <2>1 DEF Compared, Place
  <2>3. running' = 2 /\ At(1, 1, 1, DESKTOP)'
    BY <1>l, <2>1, <2>2, Drawn DEF Compared, At
  <2> QED
    BY <1>12, <2>3 DEF Round, At
<1>13. CASE At(0, 0, 1, AITASK)
  <2>1. Compared(0, 0, 1, 2)
    BY <1>13, NewRound DEF At, Compared
  <2>2. /\ S!credits_now[tasks[2].lane] > 0
        /\ \A j \in 0..4 : j # 2 =>
              \/ S!credits_now[tasks[2].lane] > S!credits_now[tasks[j].lane]
              \/ /\ S!credits_now[tasks[2].lane] = S!credits_now[tasks[j].lane]
                 /\ Place(2) < Place(j)
    BY <1>l, <2>1 DEF Compared, Place
  <2>3. running' = 2 /\ At(0, 0, 0, DESKTOP)'
    BY <1>l, <2>1, <2>2, Drawn DEF Compared, At
  <2> QED
    BY <1>13, <2>3 DEF Round, At
<1> QED
  BY <1>1, <1>2, <1>3, <1>4, <1>5, <1>6, <1>7, <1>8, <1>9, <1>10, <1>11, <1>12, <1>13 DEF Round

LEMMA InitBalanced == Init => BalancedInv
<1> SUFFICES ASSUME Init PROVE BalancedInv
  OBVIOUS
<1>1. /\ task_count = 0 /\ next_task = 0 /\ lane_credits = S!NoCredits /\ ~performance_mode
      /\ running = NoTask /\ ~booted /\ cpu = "boot" /\ ~command_ready
  BY DEF Init, S!Init, A!Init
<1>2. TableInv
  BY <1>1, TasksNamed DEF TableInv
<1>3. At(0, 0, 0, HEARTBEAT)
  BY <1>1, TasksNamed DEF At, S!NoCredits
<1> QED
  BY <1>1, <1>2, <1>3 DEF BalancedInv, SearchGoesOn, BalancedRound, Round, LineWaits

\* A step that leaves the scheduler alone.
LEMMA RoundWaits ==
    ASSUME TableInv, SearchGoesOn, BalancedRound, UNCHANGED schedVars,
           cpu' = "boot" <=> cpu = "boot"
    PROVE  TableInv' /\ SearchGoesOn' /\ BalancedRound'
<1>1. TableInv' /\ SearchGoesOn'
  BY DEF schedVars, TableInv, SearchGoesOn
<1>2. BalancedRound'
  BY DEF schedVars, BalancedRound, Round, At
<1> QED
  BY <1>1, <1>2

LEMMA AddTaskBalanced ==
    ASSUME S!TypeOK, CpuInv, BalancedInv, AddTask
    PROVE  BalancedInv'
<1>1. /\ task_count \in Agenda /\ task_count' = task_count + 1 /\ cpu = "boot" /\ ~booted
      /\ tasks' = [tasks EXCEPT ![task_count] = [lane |-> lane_of[task_count], active |-> TRUE]]
      /\ UNCHANGED <<next_task, lane_credits, performance_mode, running, booted, cpu, command_ready>>
  BY DEF AddTask, S!scheduler_add_lane, S!credits, aiVars
<1>2. TableInv'
  <2>1. task_count' \in 0..(AUDIO + 1)
    BY <1>1, TasksNamed
  <2>2. ASSUME NEW t \in Agenda, t < task_count'
        PROVE  tasks'[t] = [lane |-> lane_of[t], active |-> TRUE]
    <3>1. t \in S!Slots
      BY TasksNamed, TableAssumption DEF S!Slots
    <3>2. DOMAIN tasks = S!Slots
      BY DEF S!TypeOK
    <3>3. CASE t = task_count
      BY <1>1, <3>1, <3>2, <3>3
    <3>4. CASE t # task_count
      <4>1. t < task_count
        BY <1>1, <2>2, <3>4, TasksNamed
      <4>2. tasks[t] = [lane |-> lane_of[t], active |-> TRUE]
        BY <4>1 DEF BalancedInv, TableInv
      <4> QED
        BY <1>1, <3>1, <3>2, <3>4, <4>2
    <3> QED
      BY <3>3, <3>4
  <2> QED
    BY <1>1, <2>1, <2>2 DEF BalancedInv, TableInv
<1>3. BalancedRound'
  BY <1>1 DEF BalancedInv, BalancedRound, Round, At
<1> QED
  BY <1>1, <1>2, <1>3 DEF BalancedInv, SearchGoesOn, LineWaits

LEMMA EnableBalanced ==
    ASSUME CpuInv, BalancedInv, EnableInterrupts
    PROVE  BalancedInv'
<1>1. /\ cpu = "boot" /\ cpu' = "loop" /\ task_count = AUDIO + 1 /\ booted'
      /\ UNCHANGED <<tasks, task_count, next_task, lane_credits, performance_mode, running,
                     command_ready>>
  BY DEF EnableInterrupts, S!interrupts_enable, S!table, S!credits, aiVars
<1>2. running = NoTask
  BY <1>1 DEF CpuInv
<1>3. BalancedRound'
  BY <1>1 DEF BalancedInv, BalancedRound, Round, At
<1>4. TableInv'
  BY <1>1 DEF BalancedInv, TableInv
<1> QED
  BY <1>1, <1>2, <1>3, <1>4 DEF BalancedInv, SearchGoesOn, LineWaits

LEMMA RunOnceBalanced ==
    ASSUME S!TypeOK, CpuInv, BalancedInv, RunOnce
    PROVE  BalancedInv'
<1>1. /\ booted /\ running = NoTask /\ cpu = "loop" /\ S!scheduler_run_once
      /\ cpu' = IF running' = NoTask THEN "halted" ELSE "entry"
      /\ UNCHANGED <<tasks, task_count, performance_mode, booted, command_ready>>
  BY DEF RunOnce, S!scheduler_run_once, S!table, aiVars
<1>2. TableInv'
  BY <1>1 DEF BalancedInv, TableInv
<1>3. SearchGoesOn'
  <2>1. CASE S!NoDispatch
    BY <1>1, <2>1 DEF S!NoDispatch, SearchGoesOn
  <2>2. ASSUME NEW i \in S!TaskIds, S!Dispatch(i) PROVE SearchGoesOn'
    <3>1. running' = i /\ next_task' = IF i + 1 = 5 THEN 0 ELSE i + 1
      BY <1>1, <2>2, WholeTable DEF S!Dispatch, BalancedInv
    <3>2. i \in 0..4
      BY <1>1, WholeTable DEF BalancedInv
    <3> QED
      BY <3>1, <3>2, TasksNamed DEF SearchGoesOn
  <2> QED
    BY <1>1, <2>1, <2>2 DEF S!scheduler_run_once
<1>4. CASE ~performance_mode
  <2>1. /\ Round' /\ running' \in 0..4
        /\ next_task = AITASK => running' = AITASK
    BY <1>1, <1>4, RoundGoesOn DEF BalancedInv, BalancedRound
  <2>2. running' # NoTask
    BY <2>1, TableAssumption
  <2>3. LineWaits'
    BY <1>1, <2>1, <2>2 DEF BalancedInv, LineWaits
  <2> QED
    BY <1>2, <1>3, <2>1, <2>3 DEF BalancedInv, BalancedRound
<1>5. CASE performance_mode
  BY <1>1, <1>2, <1>3, <1>5 DEF BalancedInv, BalancedRound, LineWaits
<1> QED
  BY <1>4, <1>5

LEMMA SetPolicyBalanced ==
    ASSUME BalancedInv, NEW enabled \in BOOLEAN, SetPolicy(enabled)
    PROVE  BalancedInv'
<1>1. /\ cpu = "entry" /\ cpu' = "return" /\ running = AITASK /\ ~command_ready'
      /\ running # NoTask /\ lane_credits' = S!NoCredits
      /\ UNCHANGED <<tasks, task_count, next_task, running, booted>>
  BY DEF SetPolicy, Command, Entry, A!ai_takes_command, S!scheduler_set_performance_mode, S!table
<1>2. booted /\ next_task = 3
  BY <1>1, TasksNamed DEF BalancedInv, TableInv, SearchGoesOn
<1>3. TableInv' /\ SearchGoesOn'
  BY <1>1, <1>2 DEF BalancedInv, TableInv, SearchGoesOn
<1>4. At(0, 0, 0, DESKTOP)'
  BY <1>1, <1>2, TasksNamed DEF At, S!NoCredits
<1> QED
  BY <1>1, <1>3, <1>4 DEF BalancedInv, BalancedRound, Round, LineWaits

LEMMA NextBalanced == IInv /\ BalancedInv /\ [Next]_vars => BalancedInv'
<1> SUFFICES ASSUME IInv, BalancedInv, [Next]_vars PROVE BalancedInv'
  OBVIOUS
<1>i. S!TypeOK /\ CpuInv /\ TableInv /\ SearchGoesOn /\ BalancedRound /\ LineWaits
  BY DEF IInv, BalancedInv
<1>1. CASE UNCHANGED vars
  <2>1. UNCHANGED schedVars /\ UNCHANGED <<command_ready, cpu, next_task, performance_mode, running>>
    BY <1>1 DEF vars, schedVars, aiVars
  <2>2. LineWaits'
    BY <1>i, <2>1 DEF LineWaits
  <2> QED
    BY <1>i, <2>1, <2>2, RoundWaits DEF BalancedInv
<1>2. CASE AddTask
  BY <1>i, <1>2, AddTaskBalanced
<1>3. CASE EnableInterrupts
  BY <1>i, <1>3, EnableBalanced
<1>4. CASE RunOnce
  BY <1>i, <1>4, RunOnceBalanced
<1>5. CASE TaskReturns
  <2>1. /\ cpu = "return" /\ cpu' = "halted" /\ running' = NoTask
        /\ UNCHANGED <<tasks, task_count, next_task, lane_credits, performance_mode, booted,
                       command_ready>>
    BY <1>5 DEF TaskReturns, S!TaskReturns, S!table, S!credits, aiVars
  <2>2. TableInv' /\ SearchGoesOn' /\ LineWaits'
    BY <1>i, <2>1 DEF TableInv, SearchGoesOn, LineWaits
  <2>3. BalancedRound'
    BY <1>i, <2>1 DEF BalancedRound, Round, At
  <2> QED
    BY <2>2, <2>3 DEF BalancedInv
<1>6. CASE Report \/ InputIdle \/ DesktopTick
  <2>1. /\ UNCHANGED schedVars /\ UNCHANGED <<command_ready, next_task, performance_mode, running>>
        /\ cpu = "entry" /\ cpu' = "return"
        /\ running = HEARTBEAT \/ running = AUDIO \/ running = INPUT \/ running = DESKTOP
    BY <1>6 DEF Report, InputIdle, DesktopTick, Entry, schedVars, aiVars
  <2>2. LineWaits'
    BY <1>i, <2>1, TasksNamed DEF LineWaits
  <2> QED
    BY <1>i, <2>1, <2>2, RoundWaits DEF BalancedInv
<1>7. CASE InputKey
  <2>1. /\ UNCHANGED schedVars /\ UNCHANGED <<next_task, performance_mode, running>>
        /\ cpu = "entry" /\ cpu' = "return" /\ running = INPUT
    BY <1>7 DEF InputKey, Entry, schedVars
  <2>2. booted /\ next_task = AITASK
    <3>1. booted /\ running # NoTask
      BY <1>i, <2>1 DEF TableInv, CpuInv
    <3> QED
      BY <1>i, <2>1, <3>1, TasksNamed DEF SearchGoesOn
  <2>3. LineWaits'
    BY <2>1, <2>2 DEF LineWaits
  <2> QED
    BY <1>i, <2>1, <2>3, RoundWaits DEF BalancedInv
<1>8. ASSUME NEW enabled \in BOOLEAN, SetPolicy(enabled) PROVE BalancedInv'
  BY <1>8, SetPolicyBalanced
<1>9. ASSUME UNCHANGED schedVars, Entry(AITASK), ~command_ready'
      PROVE  BalancedInv'
  <2>1. cpu' # "boot" /\ cpu # "boot"
    BY <1>9 DEF Entry
  <2> QED
    BY <1>i, <1>9, <2>1, RoundWaits DEF BalancedInv, LineWaits
<1>10. CASE handle_command
  <2>1. ASSUME Command, UNCHANGED schedVars PROVE BalancedInv'
    BY <1>9, <2>1 DEF Command, A!ai_takes_command
  <2> QED
    BY <1>8, <1>10, <2>1 DEF handle_command, ModeChange, ExactCommand, PhraseCommand
<1>12. CASE Monitor
  BY <1>9, <1>12 DEF Monitor, A!ai_monitors, A!vars
<1>13. ASSUME UNCHANGED <<schedVars, aiVars>>, booted \/ cpu = "halted", cpu' = wake
       PROVE  BalancedInv'
  <2>1. UNCHANGED <<command_ready, next_task, performance_mode, running>>
    BY <1>13 DEF schedVars, aiVars
  <2>2. cpu' # "boot" /\ cpu # "boot"
    BY <1>i, <1>13 DEF TableInv, wake
  <2>3. LineWaits'
    BY <1>i, <1>13, <2>1 DEF LineWaits, wake
  <2> QED
    BY <1>i, <1>13, <2>2, <2>3, RoundWaits DEF BalancedInv
<1>14. CASE TimerInterrupt
  BY <1>13, <1>14 DEF TimerInterrupt, wake
<1>15. ASSUME NEW c \in Chars, KeyInterrupt(c) PROVE BalancedInv'
  BY <1>13, <1>15 DEF KeyInterrupt
<1> QED
  BY <1>1, <1>2, <1>3, <1>4, <1>5, <1>6, <1>7, <1>10, <1>12, <1>14, <1>15 DEF Next, Code

LEMMA Balanced == Spec => []BalancedInv
BY InitIInv, NextIInv, InitBalanced, NextBalanced, PTL DEF Spec

\* In balanced mode no line that was entered is lost: when the input task reads
\* the end of the next line, ai_task has taken the last one out of last_command.
THEOREM NoLineOverwritten == Spec => NoCommandLostWhenBalanced
<1>1. ASSUME IInv, BalancedInv, InputKey, command_ready, ~performance_mode PROVE FALSE
  <2>1. cpu = "entry" /\ running = INPUT
    BY <1>1 DEF InputKey, Entry
  <2> QED
    BY <1>1, <2>1, TasksNamed DEF BalancedInv, LineWaits
<1>2. IInv /\ BalancedInv /\ [Next]_vars =>
         [InputKey /\ Head(pending) = ENTER /\ command_ready /\ ~performance_mode
             => command_buffer = <<>>]_vars
  BY <1>1
<1>3. Spec => [][InputKey /\ Head(pending) = ENTER /\ command_ready /\ ~performance_mode
             => command_buffer = <<>>]_vars
  BY <1>2, Invariance, Balanced, PTL DEF Spec
<1> QED
  BY <1>3 DEF NoCommandLostWhenBalanced
-----------------------------------------------------------------------------
(***************************************************************************)
(* Either mode: of the lines that are entered at most one is replaced      *)
(* between two runs of the AI task.                                        *)
(*                                                                         *)
(* In performance mode the round goes through the states of Pace(n), where *)
(* n is how often the input task still runs before the AI task does: three *)
(* times at most.  A run of the input task ends a line only if there is a  *)
(* line to end, so (n + 1) \div 2 ends of lines fit into n runs when a     *)
(* line is begun, and the first of them replaces nothing unless a line is  *)
(* waiting already.                                                        *)
(***************************************************************************)
Pace(n) ==
    \/ n = 3 /\ (\/ At(0, 0, 0, DESKTOP) \/ At(2, 5, 1, HEARTBEAT) \/ At(1, 0, 0, DESKTOP)
                 \/ At(0, 0, 0, INPUT) \/ At(1, 1, 0, DESKTOP) \/ At(1, 0, 0, HEARTBEAT))
    \/ n = 2 /\ (\/ At(2, 4, 1, AITASK) \/ At(2, 3, 1, HEARTBEAT) \/ At(2, 5, 1, AITASK)
                 \/ At(2, 4, 1, HEARTBEAT))
    \/ n = 1 /\ (\/ At(2, 2, 1, AITASK) \/ At(2, 1, 1, HEARTBEAT) \/ At(1, 1, 1, INPUT)
                 \/ At(2, 3, 1, AITASK) \/ At(2, 2, 1, HEARTBEAT) \/ At(1, 2, 1, INPUT))
    \/ n = 0 /\ (\/ At(1, 0, 1, AITASK) \/ At(1, 1, 1, AITASK))

PaceInv == performance_mode => \E n \in 0..3 : Pace(n)

\* How often the input task runs before the AI task.
Reading == IF cpu = "entry" /\ running = INPUT THEN 1 ELSE 0
Left    == IF performance_mode THEN CHOOSE n \in 0..3 : Pace(n)
           ELSE IF next_task = AITASK THEN 0 ELSE 1
Ahead   == IF cpu = "entry" /\ running = AITASK THEN 0 ELSE Reading + Left
Begun   == IF command_buffer = <<>> THEN 0 ELSE 1

LossInv == /\ Ahead <= 3
           /\ ~command_ready => lost = 0
           /\ command_ready => lost + (Ahead + Begun) \div 2 <= 1

\* A state of the round belongs to one number only.
LEMMA PaceIsOne ==
    ASSUME NEW m \in 0..3, NEW n \in 0..3
    PROVE  /\ Pace(m) /\ Pace(n) => m = n
           /\ Pace(m)' /\ Pace(n)' => m = n
BY TasksNamed, SMTT(60) DEF Pace, At

LEMMA LeftOfPace ==
    ASSUME NEW n \in 0..3
    PROVE  /\ performance_mode /\ Pace(n) => Left = n
           /\ performance_mode' /\ Pace(n)' => Left' = n
<1>1. ASSUME performance_mode, Pace(n) PROVE Left = n
  <2>1. \E m \in 0..3 : Pace(m)
    BY <1>1
  <2>2. PICK m \in 0..3 : Pace(m) /\ Left = m
    BY <1>1, <2>1, Zenon DEF Left
  <2> QED
    BY <1>1, <2>2, PaceIsOne
<1>2. ASSUME performance_mode', Pace(n)' PROVE Left' = n
  <2>1. \E m \in 0..3 : Pace(m)'
    BY <1>2
  <2>2. PICK m \in 0..3 : Pace(m)' /\ Left' = m
    BY <1>2, <2>1, Zenon DEF Left
  <2> QED
    BY <1>2, <2>2, PaceIsOne
<1> QED
  BY <1>1, <1>2

LEMMA LeftType ==
    ASSUME PaceInv PROVE Left \in 0..3 /\ Ahead \in 0..4
<1>1. Left \in 0..3
  <2>1. CASE performance_mode
    <3>1. PICK n \in 0..3 : Pace(n)
      BY <2>1 DEF PaceInv
    <3> QED
      BY <2>1, <3>1, LeftOfPace
  <2>2. CASE ~performance_mode
    BY <2>2 DEF Left
  <2> QED
    BY <2>1, <2>2
<1> QED
  BY <1>1 DEF Ahead, Reading

LEMMA NewPace ==
    ASSUME TableInv, S!TypeOK, booted, performance_mode
    PROVE  /\ (lane_credits[0] = 0 /\ lane_credits[1] = 0 /\ lane_credits[2] = 0) =>
                 S!credits_now[0] = 2 /\ S!credits_now[1] = 6 /\ S!credits_now[2] = 1
           /\ (lane_credits[0] # 0 \/ lane_credits[1] # 0 \/ lane_credits[2] # 0) =>
                 S!credits_now = lane_credits
<1>1. S!runnable_with_credit <=>
         lane_credits[0] # 0 \/ lane_credits[1] # 0 \/ lane_credits[2] # 0
  BY WholeTable DEF S!runnable_with_credit
<1>2. S!replenished[0] = 2 /\ S!replenished[1] = 6 /\ S!replenished[2] = 1
  BY LanesActive, TasksNamed DEF S!replenished, S!lane_weight
<1> QED
  BY <1>1, <1>2 DEF S!credits_now

\* Every state of the round: the task that is chosen and the state it leads to.
LEMMA PaceGoesOn ==
    ASSUME TableInv, S!TypeOK, booted, performance_mode, NEW n \in 0..3, Pace(n),
           S!scheduler_run_once
    PROVE  \/ running' = INPUT /\ n > 0 /\ Pace(n - 1)'
           \/ running' = AITASK /\ n = 0 /\ Pace(3)'
           \/ running' \in {HEARTBEAT, DESKTOP, AUDIO} /\ Pace(n)'
<1> USE TasksNamed
<1>l. /\ tasks[0].lane = 0 /\ tasks[1].lane = 1 /\ tasks[2].lane = 2
      /\ tasks[3].lane = 2 /\ tasks[4].lane = 1
  BY WholeTable
<1>1. CASE n = 3 /\ At(0, 0, 0, DESKTOP)
  <2>1. Compared(2, 6, 1, 3)
    BY <1>1, NewPace DEF At, Compared
  <2>2. /\ S!credits_now[tasks[4].lane] > 0
        /\ \A j \in 0..4 : j # 4 =>
              \/ S!credits_now[tasks[4].lane] > S!credits_now[tasks[j].lane]
              \/ /\ S!credits_now[tasks[4].lane] = S!credits_now[tasks[j].lane]
                 /\ Place(4) < Place(j)
    BY <1>l, <2>1 DEF Compared, Place
  <2>3. running' = 4 /\ At(2, 5, 1, HEARTBEAT)'
    BY <1>l, <2>1, <2>2, Drawn DEF Compared, At
  <2> QED
    BY <1>1, <2>3 DEF Pace
<1>2. CASE n = 3 /\ At(2, 5, 1, HEARTBEAT)
  <2>1. Compared(2, 5, 1, 0)
    BY <1>2, NewPace DEF At, Compared
  <2>2. /\ S!credits_now[tasks[1].lane] > 0
        /\ \A j \in 0..4 : j # 1 =>
              \/ S!credits_now[tasks[1].lane] > S!credits_now[tasks[j].lane]
              \/ /\ S!credits_now[tasks[1].lane] = S!credits_now[tasks[j].lane]
                 /\ Place(1) < Place(j)
    BY <1>l, <2>1 DEF Compared, Place
  <2>3. running' = 1 /\ At(2, 4, 1, AITASK)'
    BY <1>l, <2>1, <2>2, Drawn DEF Compared, At
  <2> QED
    BY <1>2, <2>3 DEF Pace
<1>3. CASE n = 3 /\ At(1, 0, 0, DESKTOP)
  <2>1. Compared(1, 0, 0, 3)
    BY <1>3, NewPace DEF At, Compared
  <2>2. /\ S!credits_now[tasks[0].lane] > 0
        /\ \A j \in 0..4 : j # 0 =>
              \/ S!credits_now[tasks[0].lane] > S!credits_now[tasks[j].lane]
              \/ /\ S!credits_now[tasks[0].lane] = S!credits_now[tasks[j].lane]
                 /\ Place(0) < Place(j)
    BY <1>l, <2>1 DEF Compared, Place
  <2>3. running' = 0 /\ At(0, 0, 0, INPUT)'
    BY <1>l, <2>1, <2>2, Drawn DEF Compared, At
  <2> QED
    BY <1>3, <2>3 DEF Pace
<1>4. CASE n = 3 /\ At(0, 0, 0, INPUT)
  <2>1. Compared(2, 6, 1, 1)
    BY <1>4, NewPace DEF At, Compared
  <2>2. /\ S!credits_now[tasks[1].lane] > 0
        /\ \A j \in 0..4 : j # 1 =>
              \/ S!credits_now[tasks[1].lane] > S!credits_now[tasks[j].lane]
              \/ /\ S!credits_now[tasks[1].lane] = S!credits_now[tasks[j].lane]
                 /\ Place(1) < Place(j)
    BY <1>l, <2>1 DEF Compared, Place
  <2>3. running' = 1 /\ At(2, 5, 1, AITASK)'
    BY <1>l, <2>1, <2>2, Drawn DEF Compared, At
  <2> QED
    BY <1>4, <2>3 DEF Pace
<1>5. CASE n = 3 /\ At(1, 1, 0, DESKTOP)
  <2>1. Compared(1, 1, 0, 3)
    BY <1>5, NewPace DEF At, Compared
  <2>2. /\ S!credits_now[tasks[4].lane] > 0
        /\ \A j \in 0..4 : j # 4 =>
              \/ S!credits_now[tasks[4].lane] > S!credits_now[tasks[j].lane]
              \/ /\ S!credits_now[tasks[4].lane] = S!credits_now[tasks[j].lane]
                 /\ Place(4) < Place(j)
    BY <1>l, <2>1 DEF Compared, Place
  <2>3. running' = 4 /\ At(1, 0, 0, HEARTBEAT)'
    BY <1>l, <2>1, <2>2, Drawn DEF Compared, At
  <2> QED
    BY <1>5, <2>3 DEF Pace
<1>6. CASE n = 3 /\ At(1, 0, 0, HEARTBEAT)
  <2>1. Compared(1, 0, 0, 0)
    BY <1>6, NewPace DEF At, Compared
  <2>2. /\ S!credits_now[tasks[0].lane] > 0
        /\ \A j \in 0..4 : j # 0 =>
              \/ S!credits_now[tasks[0].lane] > S!credits_now[tasks[j].lane]
              \/ /\ S!credits_now[tasks[0].lane] = S!credits_now[tasks[j].lane]
                 /\ Place(0) < Place(j)
    BY <1>l, <2>1 DEF Compared, Place
  <2>3. running' = 0 /\ At(0, 0, 0, INPUT)'
    BY <1>l, <2>1, <2>2, Drawn DEF Compared, At
  <2> QED
    BY <1>6, <2>3 DEF Pace
<1>7. CASE n = 2 /\ At(2, 4, 1, AITASK)
  <2>1. Compared(2, 4, 1, 2)
    BY <1>7, NewPace DEF At, Compared
  <2>2. /\ S!credits_now[tasks[4].lane] > 0
        /\ \A j \in 0..4 : j # 4 =>
              \/ S!credits_now[tasks[4].lane] > S!credits_now[tasks[j].lane]
              \/ /\ S!credits_now[tasks[4].lane] = S!credits_now[tasks[j].lane]
                 /\ Place(4) < Place(j)
    BY <1>l, <2>1 DEF Compared, Place
  <2>3. running' = 4 /\ At(2, 3, 1, HEARTBEAT)'
    BY <1>l, <2>1, <2>2, Drawn DEF Compared, At
  <2> QED
    BY <1>7, <2>3 DEF Pace
<1>8. CASE n = 2 /\ At(2, 3, 1, HEARTBEAT)
  <2>1. Compared(2, 3, 1, 0)
    BY <1>8, NewPace DEF At, Compared
  <2>2. /\ S!credits_now[tasks[1].lane] > 0
        /\ \A j \in 0..4 : j # 1 =>
              \/ S!credits_now[tasks[1].lane] > S!credits_now[tasks[j].lane]
              \/ /\ S!credits_now[tasks[1].lane] = S!credits_now[tasks[j].lane]
                 /\ Place(1) < Place(j)
    BY <1>l, <2>1 DEF Compared, Place
  <2>3. running' = 1 /\ At(2, 2, 1, AITASK)'
    BY <1>l, <2>1, <2>2, Drawn DEF Compared, At
  <2> QED
    BY <1>8, <2>3 DEF Pace
<1>9. CASE n = 2 /\ At(2, 5, 1, AITASK)
  <2>1. Compared(2, 5, 1, 2)
    BY <1>9, NewPace DEF At, Compared
  <2>2. /\ S!credits_now[tasks[4].lane] > 0
        /\ \A j \in 0..4 : j # 4 =>
              \/ S!credits_now[tasks[4].lane] > S!credits_now[tasks[j].lane]
              \/ /\ S!credits_now[tasks[4].lane] = S!credits_now[tasks[j].lane]
                 /\ Place(4) < Place(j)
    BY <1>l, <2>1 DEF Compared, Place
  <2>3. running' = 4 /\ At(2, 4, 1, HEARTBEAT)'
    BY <1>l, <2>1, <2>2, Drawn DEF Compared, At
  <2> QED
    BY <1>9, <2>3 DEF Pace
<1>10. CASE n = 2 /\ At(2, 4, 1, HEARTBEAT)
  <2>1. Compared(2, 4, 1, 0)
    BY <1>10, NewPace DEF At, Compared
  <2>2. /\ S!credits_now[tasks[1].lane] > 0
        /\ \A j \in 0..4 : j # 1 =>
              \/ S!credits_now[tasks[1].lane] > S!credits_now[tasks[j].lane]
              \/ /\ S!credits_now[tasks[1].lane] = S!credits_now[tasks[j].lane]
                 /\ Place(1) < Place(j)
    BY <1>l, <2>1 DEF Compared, Place
  <2>3. running' = 1 /\ At(2, 3, 1, AITASK)'
    BY <1>l, <2>1, <2>2, Drawn DEF Compared, At
  <2> QED
    BY <1>10, <2>3 DEF Pace
<1>11. CASE n = 1 /\ At(2, 2, 1, AITASK)
  <2>1. Compared(2, 2, 1, 2)
    BY <1>11, NewPace DEF At, Compared
  <2>2. /\ S!credits_now[tasks[4].lane] > 0
        /\ \A j \in 0..4 : j # 4 =>
              \/ S!credits_now[tasks[4].lane] > S!credits_now[tasks[j].lane]
              \/ /\ S!credits_now[tasks[4].lane] = S!credits_now[tasks[j].lane]
                 /\ Place(4) < Place(j)
    BY <1>l, <2>1 DEF Compared, Place
  <2>3. running' = 4 /\ At(2, 1, 1, HEARTBEAT)'
    BY <1>l, <2>1, <2>2, Drawn DEF Compared, At
  <2> QED
    BY <1>11, <2>3 DEF Pace
<1>12. CASE n = 1 /\ At(2, 1, 1, HEARTBEAT)
  <2>1. Compared(2, 1, 1, 0)
    BY <1>12, NewPace DEF At, Compared
  <2>2. /\ S!credits_now[tasks[0].lane] > 0
        /\ \A j \in 0..4 : j # 0 =>
              \/ S!credits_now[tasks[0].lane] > S!credits_now[tasks[j].lane]
              \/ /\ S!credits_now[tasks[0].lane] = S!credits_now[tasks[j].lane]
                 /\ Place(0) < Place(j)
    BY <1>l, <2>1 DEF Compared, Place
  <2>3. running' = 0 /\ At(1, 1, 1, INPUT)'
    BY <1>l, <2>1, <2>2, Drawn DEF Compared, At
  <2> QED
    BY <1>12, <2>3 DEF Pace
<1>13. CASE n = 1 /\ At(1, 1, 1, INPUT)
  <2>1. Compared(1, 1, 1, 1)
    BY <1>13, NewPace DEF At, Compared
  <2>2. /\ S!credits_now[tasks[1].lane] > 0
        /\ \A j \in 0..4 : j # 1 =>
              \/ S!credits_now[tasks[1].lane] > S!credits_now[tasks[j].lane]
              \/ /\ S!credits_now[tasks[1].lane] = S!credits_now[tasks[j].lane]
                 /\ Place(1) < Place(j)
    BY <1>l, <2>1 DEF Compared, Place
  <2>3. running' = 1 /\ At(1, 0, 1, AITASK)'
    BY <1>l, <2>1, <2>2, Drawn DEF Compared, At
  <2> QED
    BY <1>13, <2>3 DEF Pace
<1>14. CASE n = 1 /\ At(2, 3, 1, AITASK)
  <2>1. Compared(2, 3, 1, 2)
    BY <1>14, NewPace DEF At, Compared
  <2>2. /\ S!credits_now[tasks[4].lane] > 0
        /\ \A j \in 0..4 : j # 4 =>
              \/ S!credits_now[tasks[4].lane] > S!credits_now[tasks[j].lane]
              \/ /\ S!credits_now[tasks[4].lane] = S!credits_now[tasks[j].lane]
                 /\ Place(4) < Place(j)
    BY <1>l, <2>1 DEF Compared, Place
  <2>3. running' = 4 /\ At(2, 2, 1, HEARTBEAT)'
    BY <1>l, <2>1, <2>2, Drawn DEF Compared, At
  <2> QED
    BY <1>14, <2>3 DEF Pace
<1>15. CASE n = 1 /\ At(2, 2, 1, HEARTBEAT)
  <2>1. Compared(2, 2, 1, 0)
    BY <1>15, NewPace DEF At, Compared
  <2>2. /\ S!credits_now[tasks[0].lane] > 0
        /\ \A j \in 0..4 : j # 0 =>
              \/ S!credits_now[tasks[0].lane] > S!credits_now[tasks[j].lane]
              \/ /\ S!credits_now[tasks[0].lane] = S!credits_now[tasks[j].lane]
                 /\ Place(0) < Place(j)
    BY <1>l, <2>1 DEF Compared, Place
  <2>3. running' = 0 /\ At(1, 2, 1, INPUT)'
    BY <1>l, <2>1, <2>2, Drawn DEF Compared, At
  <2> QED
    BY <1>15, <2>3 DEF Pace
<1>16. CASE n = 1 /\ At(1, 2, 1, INPUT)
  <2>1. Compared(1, 2, 1, 1)
    BY <1>16, NewPace DEF At, Compared
  <2>2. /\ S!credits_now[tasks[1].lane] > 0
        /\ \A j \in 0..4 : j # 1 =>
              \/ S!credits_now[tasks[1].lane] > S!credits_now[tasks[j].lane]
              \/ /\ S!credits_now[tasks[1].lane] = S!credits_now[tasks[j].lane]
                 /\ Place(1) < Place(j)
    BY <1>l, <2>1 DEF Compared, Place
  <2>3. running' = 1 /\ At(1, 1, 1, AITASK)'
    BY <1>l, <2>1, <2>2, Drawn DEF Compared, At
  <2> QED
    BY <1>16, <2>3 DEF Pace
<1>17. CASE n = 0 /\ At(1, 0, 1, AITASK)
  <2>1. Compared(1, 0, 1, 2)
    BY <1>17, NewPace DEF At, Compared
  <2>2. /\ S!credits_now[tasks[2].lane] > 0
        /\ \A j \in 0..4 : j # 2 =>
              \/ S!credits_now[tasks[2].lane] > S!credits_now[tasks[j].lane]
              \/ /\ S!credits_now[tasks[2].lane] = S!credits_now[tasks[j].lane]
                 /\ Place(2) < Place(j)
    BY <1>l, <2>1 DEF Compared, Place
  <2>3. running' = 2 /\ At(1, 0, 0, DESKTOP)'
    BY <1>l, <2>1, <2>2, Drawn DEF Compared, At
  <2> QED
    BY <1>17, <2>3 DEF Pace
<1>18. CASE n = 0 /\ At(1, 1, 1, AITASK)
  <2>1. Compared(1, 1, 1, 2)
    BY <1>18, NewPace DEF At, Compared
  <2>2. /\ S!credits_now[tasks[2].lane] > 0
        /\ \A j \in 0..4 : j # 2 =>
              \/ S!credits_now[tasks[2].lane] > S!credits_now[tasks[j].lane]
              \/ /\ S!credits_now[tasks[2].lane] = S!credits_now[tasks[j].lane]
                 /\ Place(2) < Place(j)
    BY <1>l, <2>1 DEF Compared, Place
  <2>3. running' = 2 /\ At(1, 1, 0, DESKTOP)'
    BY <1>l, <2>1, <2>2, Drawn DEF Compared, At
  <2> QED
    BY <1>18, <2>3 DEF Pace
<1> QED
  BY <1>1, <1>2, <1>3, <1>4, <1>5, <1>6, <1>7, <1>8, <1>9, <1>10, <1>11, <1>12, <1>13, <1>14, <1>15, <1>16, <1>17, <1>18 DEF Pace

LEMMA InitLoss == Init => PaceInv /\ LossInv
<1> SUFFICES ASSUME Init PROVE PaceInv /\ LossInv
  OBVIOUS
<1>1. /\ ~performance_mode /\ cpu = "boot" /\ ~command_ready /\ lost = 0
  BY DEF Init, S!Init, A!Init
<1>2. PaceInv
  BY <1>1 DEF PaceInv
<1>3. Ahead <= 3
  BY <1>1 DEF Ahead, Reading, Left
<1> QED
  BY <1>1, <1>2, <1>3 DEF LossInv

\* A step that leaves the scheduler and the line alone.
LEMMA PaceWaits ==
    ASSUME PaceInv, UNCHANGED schedVars
    PROVE  PaceInv' /\ Left' = Left
<1>1. /\ lane_credits' = lane_credits /\ next_task' = next_task /\ running' = running
      /\ performance_mode' = performance_mode
  BY DEF schedVars
<1>2. ASSUME NEW n \in 0..3 PROVE Pace(n)' <=> Pace(n)
  BY <1>1 DEF Pace, At
<1>3. PaceInv'
  <2>1. CASE performance_mode
    <3>1. PICK n \in 0..3 : Pace(n)
      BY <2>1 DEF PaceInv
    <3> QED
      BY <1>2, <3>1 DEF PaceInv
  <2> QED
    BY <1>1, <2>1 DEF PaceInv
<1>4. Left' = Left
  <2>1. CASE performance_mode
    <3>1. PICK n \in 0..3 : Pace(n)
      BY <2>1 DEF PaceInv
    <3>2. Left = n
      BY <2>1, <3>1, LeftOfPace
    <3>3. performance_mode' /\ Pace(n)'
      BY <1>1, <1>2, <2>1, <3>1
    <3>4. Left' = n
      BY <3>3, LeftOfPace
    <3> QED
      BY <3>2, <3>4
  <2>2. CASE ~performance_mode
    BY <1>1, <2>2 DEF Left
  <2> QED
    BY <2>1, <2>2
<1> QED
  BY <1>3, <1>4

LEMMA Halves ==
    ASSUME NEW m \in Nat, NEW n \in Nat, m <= n, NEW a \in {0, 1}, NEW b \in {0, 1},
           b <= a \/ m < n
    PROVE  /\ (m + b) \div 2 \in Nat /\ (n + a) \div 2 \in Nat
           /\ (m + b) \div 2 <= (n + a) \div 2
OBVIOUS

LEMMA RunOnceLoss ==
    ASSUME IInv, BalancedInv, PaceInv, LossInv, RunOnce
    PROVE  PaceInv' /\ LossInv'
<1>1. /\ S!TypeOK /\ TableInv /\ booted /\ running = NoTask /\ cpu = "loop"
      /\ S!scheduler_run_once
      /\ cpu' = IF running' = NoTask THEN "halted" ELSE "entry"
      /\ UNCHANGED <<performance_mode, command_ready, command_buffer, lost>>
  BY DEF RunOnce, S!scheduler_run_once, S!table, aiVars, IInv, BalancedInv
<1>2. Ahead = Left /\ Left \in 0..3
  BY <1>1, LeftType DEF Ahead, Reading
<1>3. PaceInv' /\ Ahead' \in 0..Ahead
  <2>1. CASE performance_mode
    <3>1. PICK n \in 0..3 : Pace(n)
      BY <2>1 DEF PaceInv
    <3>2. Ahead = n
      BY <1>2, <2>1, <3>1, LeftOfPace
    <3>3. CASE running' = INPUT /\ n > 0 /\ Pace(n - 1)'
      <4>1. n - 1 \in 0..3 /\ performance_mode'
        BY <1>1, <2>1, <3>3
      <4>2. Left' = n - 1
        BY <3>3, <4>1, LeftOfPace
      <4>3. cpu' = "entry" /\ running' # AITASK
        BY <1>1, <3>3, TasksNamed, TableAssumption
      <4>4. Ahead' = n
        BY <3>3, <4>2, <4>3 DEF Ahead, Reading
      <4> QED
        BY <3>2, <3>3, <4>1, <4>4 DEF PaceInv
    <3>4. CASE running' = AITASK /\ n = 0 /\ Pace(3)'
      <4>1. cpu' = "entry"
        BY <1>1, <3>4, TasksNamed, TableAssumption
      <4>2. Ahead' = 0
        BY <3>4, <4>1 DEF Ahead
      <4> QED
        BY <3>2, <3>4, <4>2 DEF PaceInv
    <3>5. CASE running' \in {HEARTBEAT, DESKTOP, AUDIO} /\ Pace(n)'
      <4>1. Left' = n
        BY <1>1, <2>1, <3>5, LeftOfPace
      <4>2. running' # AITASK /\ running' # INPUT
        BY <3>5, TasksNamed
      <4>3. Ahead' = n
        BY <4>1, <4>2 DEF Ahead, Reading
      <4> QED
        BY <3>2, <3>5, <4>3 DEF PaceInv
    <3> QED
      BY <1>1, <2>1, <3>1, <3>3, <3>4, <3>5, PaceGoesOn
  <2>2. CASE ~performance_mode
    <3>1. /\ running' \in 0..4
          /\ next_task' = IF running' = 4 THEN 0 ELSE running' + 1
          /\ next_task = AITASK => running' = AITASK
      BY <1>1, <2>2, RoundGoesOn DEF BalancedInv, BalancedRound
    <3>2. cpu' = "entry" /\ ~performance_mode'
      BY <1>1, <2>2, <3>1, TableAssumption
    <3>3. CASE running' = AITASK
      BY <1>2, <3>2, <3>3 DEF Ahead, PaceInv
    <3>4. CASE running' # AITASK
      <4>1. Left = 1
        BY <2>2, <3>1, <3>4 DEF Left
      <4>2. Left' = IF running' = INPUT THEN 0 ELSE 1
        <5>1. next_task' = AITASK <=> running' = INPUT
          <6>1. PICK r \in 0..4 : running' = r
            BY <3>1
          <6> QED
            BY <3>1, <6>1, TasksNamed
        <5>2. Left' = IF next_task' = AITASK THEN 0 ELSE 1
          BY <3>2, Zenon DEF Left
        <5> QED
          BY <5>1, <5>2
      <4>3. Ahead' = 1
        BY <3>2, <3>4, <4>2 DEF Ahead, Reading
      <4> QED
        BY <1>2, <3>2, <4>1, <4>3 DEF PaceInv
    <3> QED
      BY <3>3, <3>4
  <2> QED
    BY <2>1, <2>2
<1>4. Begun \in {0, 1} /\ Begun' = Begun
  BY <1>1 DEF Begun
<1>5. lost \in Nat
  BY DEF IInv, A!TypeOK
<1>6. LossInv'
  <2>1. Ahead \in Nat /\ Ahead' \in Nat /\ Ahead' <= Ahead
    BY <1>2, <1>3
  <2>2. Begun <= Begun
    BY <1>4
  <2>3. /\ (Ahead' + Begun) \div 2 <= (Ahead + Begun) \div 2
        /\ (Ahead' + Begun) \div 2 \in Nat /\ (Ahead + Begun) \div 2 \in Nat
    BY <1>4, <2>1, <2>2, Halves
  <2>4. Ahead' <= 3 /\ ~command_ready' => lost' = 0
    BY <1>1, <2>1 DEF LossInv
  <2>5. command_ready' => lost' + (Ahead' + Begun') \div 2 <= 1
    BY <1>1, <1>4, <1>5, <2>3 DEF LossInv
  <2> QED
    BY <1>1, <1>2, <2>1, <2>4, <2>5 DEF LossInv
<1> QED
  BY <1>3, <1>6

LEMMA InputKeyLoss ==
    ASSUME IInv, PaceInv, LossInv, InputKey
    PROVE  PaceInv' /\ LossInv'
<1>1. /\ cpu = "entry" /\ running = INPUT /\ cpu' = "return" /\ UNCHANGED schedVars
      /\ A!ai_feed_key(Head(pending)) /\ A!TypeOK /\ lost \in Nat
  BY DEF InputKey, Entry, IInv, A!TypeOK
<1>2. PaceInv' /\ Left' = Left /\ Left \in 0..3
  BY <1>1, PaceWaits, LeftType
<1>3. Ahead = Left + 1 /\ Ahead' = Left
  <2>1. INPUT # AITASK
    BY TasksNamed
  <2> QED
    BY <1>1, <1>2, <2>1 DEF Ahead, Reading
<1>4. Left <= 2
  BY <1>2, <1>3 DEF LossInv
<1>5. Begun \in {0, 1} /\ Begun' \in {0, 1}
  BY DEF Begun
<1> HIDE DEF LossInv
<1>6. ~command_ready => lost = 0
  BY DEF LossInv
<1>7. command_ready => lost + (Left + 1 + Begun) \div 2 <= 1
  BY <1>3 DEF LossInv
<1>8. CASE UNCHANGED <<last_command, command_ready, lost>>
  <2>1. Left \in Nat /\ Left + 1 \in Nat /\ Left <= Left + 1 /\ Left < Left + 1
    BY <1>2
  <2>2. /\ (Left + Begun') \div 2 <= (Left + 1 + Begun) \div 2
        /\ (Left + Begun') \div 2 \in Nat /\ (Left + 1 + Begun) \div 2 \in Nat
    BY <1>5, <2>1, Halves
  <2>3. command_ready' => lost' + (Left + Begun') \div 2 <= 1
    BY <1>1, <1>7, <1>8, <2>2
  <2>4. Ahead' <= 3 /\ (~command_ready' => lost' = 0)
    BY <1>2, <1>3, <1>6, <1>8
  <2> QED
    BY <1>2, <1>3, <2>3, <2>4 DEF LossInv
<1>9. CASE A!enter(Head(pending)) /\ command_buffer # <<>>
  <2>1. /\ command_ready' /\ Begun = 1 /\ Begun' = 0
        /\ lost' = IF command_ready THEN lost + 1 ELSE lost
    BY <1>9 DEF A!enter, Begun
  <2>2. CASE command_ready
    <3>1. lost + (Left + 2) \div 2 <= 1
      BY <1>2, <1>7, <2>1, <2>2
    <3>2. (Left + 2) \div 2 = Left \div 2 + 1 /\ Left \div 2 \in Nat
      BY <1>2
    <3>3. lost' + Left \div 2 <= 1
      BY <1>1, <2>1, <2>2, <3>1, <3>2
    <3> QED
      BY <1>2, <1>3, <2>1, <3>3 DEF LossInv
  <2>3. CASE ~command_ready
    <3>1. lost' = 0 /\ Left \div 2 <= 1
      BY <1>2, <1>4, <1>6, <2>1, <2>3
    <3> QED
      BY <1>2, <1>3, <2>1, <3>1 DEF LossInv
  <2> QED
    BY <2>2, <2>3
<1>10. CASE A!enter(Head(pending)) /\ command_buffer = <<>>
  BY <1>8, <1>10 DEF A!enter
<1>11. CASE A!rub_out(Head(pending)) \/ A!ignored(Head(pending)) \/ A!type(Head(pending))
  BY <1>8, <1>11 DEF A!rub_out, A!ignored, A!vars, A!type
<1> QED
  BY <1>1, <1>9, <1>10, <1>11 DEF A!ai_feed_key

\* After the AI task has taken a line, nothing is lost.
LEMMA TakenLoss ==
    ASSUME A!TypeOK, PaceInv', Left' \in 0..3, Entry(AITASK), UNCHANGED running,
           ~command_ready', lost' = 0
    PROVE  LossInv'
<1>1. cpu' = "return"
  BY DEF Entry
<1>2. Reading' = 0
  BY <1>1 DEF Reading
<1>3. Ahead' = Reading' + Left'
  BY <1>1 DEF Ahead
<1>4. Ahead' = Left'
  <2>1. PICK n \in 0..3 : Left' = n
    OBVIOUS
  <2> QED
    BY <1>2, <1>3, <2>1
<1> QED
  BY <1>4 DEF LossInv

LEMMA NextLoss ==
    IInv /\ BalancedInv /\ PaceInv /\ LossInv /\ [Next]_vars => PaceInv' /\ LossInv'
<1> SUFFICES ASSUME IInv, BalancedInv, PaceInv, LossInv, [Next]_vars PROVE PaceInv' /\ LossInv'
  OBVIOUS
<1>i. A!TypeOK /\ lost \in Nat /\ Left \in 0..3
  BY LeftType DEF IInv, A!TypeOK
<1>1. ASSUME UNCHANGED <<schedVars, aiVars>>, Ahead' = Ahead PROVE PaceInv' /\ LossInv'
  <2>1. PaceInv'
    BY <1>1, PaceWaits
  <2>2. Begun' = Begun /\ command_ready' = command_ready /\ lost' = lost
    BY <1>1 DEF aiVars, Begun
  <2> QED
    BY <1>1, <2>1, <2>2 DEF LossInv
<1>2. ASSUME UNCHANGED <<schedVars, aiVars>>,
             cpu # "entry" \/ running \notin {INPUT, AITASK},
             cpu' # "entry" \/ running \notin {INPUT, AITASK}
      PROVE  PaceInv' /\ LossInv'
  <2>1. Left' = Left /\ running' = running
    BY <1>2, PaceWaits DEF schedVars
  <2> QED
    BY <1>1, <1>2, <2>1 DEF Ahead, Reading
<1>3. CASE UNCHANGED vars
  <2>1. Left' = Left /\ running' = running /\ cpu' = cpu
    BY <1>3, PaceWaits DEF vars, schedVars
  <2> QED
    BY <1>1, <1>3, <2>1 DEF Ahead, Reading, vars
<1>4. CASE AddTask \/ EnableInterrupts
  <2>1. /\ ~performance_mode' /\ ~performance_mode /\ next_task = HEARTBEAT /\ next_task' = HEARTBEAT
        /\ cpu # "entry" /\ cpu' # "entry" /\ UNCHANGED aiVars
    BY <1>4 DEF AddTask, EnableInterrupts, S!scheduler_add_lane, S!interrupts_enable, BalancedInv,
                TableInv
  <2>2. PaceInv' /\ Ahead' = Ahead
    BY <2>1 DEF PaceInv, Ahead, Reading, Left
  <2>3. Begun' = Begun /\ command_ready' = command_ready /\ lost' = lost
    BY <2>1 DEF aiVars, Begun
  <2> QED
    BY <2>2, <2>3 DEF LossInv
<1>5. CASE RunOnce
  BY <1>5, RunOnceLoss
<1>6. CASE TaskReturns
  <2>1. /\ cpu = "return" /\ cpu' = "halted"
        /\ UNCHANGED <<next_task, lane_credits, performance_mode>> /\ UNCHANGED aiVars
    BY <1>6 DEF TaskReturns, S!TaskReturns, S!credits
  <2>2. ASSUME NEW n \in 0..3 PROVE Pace(n)' <=> Pace(n)
    BY <2>1 DEF Pace, At
  <2>3. PaceInv' /\ Left' = Left
    <3>1. CASE performance_mode
      <4>1. PICK n \in 0..3 : Pace(n)
        BY <3>1 DEF PaceInv
      <4>2. performance_mode' /\ Pace(n)'
        BY <2>1, <2>2, <3>1, <4>1
      <4> QED
        BY <3>1, <4>1, <4>2, LeftOfPace DEF PaceInv
    <3>2. CASE ~performance_mode
      BY <2>1, <3>2 DEF PaceInv, Left
    <3> QED
      BY <3>1, <3>2
  <2>4. Ahead' = Ahead
    BY <2>1, <2>3 DEF Ahead, Reading
  <2>5. Begun' = Begun /\ command_ready' = command_ready /\ lost' = lost
    BY <2>1 DEF aiVars, Begun
  <2> QED
    BY <2>3, <2>4, <2>5 DEF LossInv
<1>7. CASE Report \/ DesktopTick
  BY <1>2, <1>7, TasksNamed DEF Report, DesktopTick, Entry
<1>8. CASE InputIdle
  <2>1. /\ cpu = "entry" /\ running = INPUT /\ cpu' = "return" /\ UNCHANGED <<schedVars, aiVars>>
    BY <1>8 DEF InputIdle, Entry
  <2>2. PaceInv' /\ Left' = Left
    BY <2>1, PaceWaits
  <2>3. Ahead = Left + 1 /\ Ahead' = Left
    BY <1>i, <2>1, <2>2, TasksNamed DEF Ahead, Reading
  <2>4. Begun' = Begun /\ command_ready' = command_ready /\ lost' = lost /\ Begun \in {0, 1}
    BY <2>1 DEF aiVars, Begun
  <2>5. /\ (Left + Begun) \div 2 <= (Left + 1 + Begun) \div 2
        /\ (Left + Begun) \div 2 \in Nat /\ (Left + 1 + Begun) \div 2 \in Nat
    BY <1>i, <2>4
  <2>6. command_ready' => lost' + (Ahead' + Begun') \div 2 <= 1
    BY <1>i, <2>3, <2>4, <2>5 DEF LossInv
  <2> QED
    BY <1>i, <2>2, <2>3, <2>4, <2>6 DEF LossInv
<1>9. CASE InputKey
  BY <1>9, InputKeyLoss
<1>10. ASSUME Command \/ Monitor, UNCHANGED schedVars PROVE PaceInv' /\ LossInv'
  <2>1. Entry(AITASK) /\ ~command_ready' /\ lost' = 0 /\ running' = running
    BY <1>10 DEF Command, Monitor, A!ai_takes_command, A!ai_monitors, A!vars, schedVars, LossInv
  <2>2. PaceInv' /\ Left' \in 0..3
    BY <1>i, <1>10, PaceWaits
  <2> QED
    BY <1>i, <2>1, <2>2, TakenLoss
<1>11. ASSUME NEW enabled \in BOOLEAN, SetPolicy(enabled) PROVE PaceInv' /\ LossInv'
  <2>1. /\ Entry(AITASK) /\ cpu = "entry" /\ running = AITASK /\ ~command_ready' /\ lost' = 0
        /\ running' = running /\ next_task' = next_task /\ lane_credits' = S!NoCredits
        /\ performance_mode' = enabled
    BY <1>11 DEF SetPolicy, Command, Entry, A!ai_takes_command, S!scheduler_set_performance_mode,
                 S!table
  <2>2. next_task = 3
    <3>1. running # NoTask
      BY <2>1, TasksNamed, TableAssumption
    <3>2. booted
      BY <2>1 DEF BalancedInv, TableInv
    <3> QED
      BY <2>1, <3>1, <3>2, TasksNamed DEF BalancedInv, SearchGoesOn
  <2>3. At(0, 0, 0, DESKTOP)'
    BY <2>1, <2>2, TasksNamed DEF At, S!NoCredits
  <2>4. Pace(3)'
    BY <2>3 DEF Pace
  <2>5. PaceInv' /\ Left' \in 0..3
    <3>1. CASE enabled
      BY <2>1, <2>4, <3>1, LeftOfPace DEF PaceInv
    <3>2. CASE ~enabled
      BY <2>1, <3>2 DEF PaceInv, Left
    <3> QED
      BY <3>1, <3>2
  <2> QED
    BY <1>i, <2>1, <2>5, TakenLoss
<1>12. CASE handle_command
  BY <1>10, <1>11, <1>12 DEF handle_command, ModeChange, ExactCommand, PhraseCommand
<1>13. CASE Monitor
  BY <1>10, <1>13 DEF Monitor
<1>14. CASE TimerInterrupt
  BY <1>2, <1>14 DEF TimerInterrupt
<1>15. ASSUME NEW c \in Chars, KeyInterrupt(c) PROVE PaceInv' /\ LossInv'
  <2>1. UNCHANGED <<schedVars, aiVars>> /\ cpu' = wake
    BY <1>15 DEF KeyInterrupt
  <2>2. Left' = Left /\ running' = running
    BY <2>1, PaceWaits DEF schedVars
  <2>3. cpu = "entry" <=> cpu' = "entry"
    BY <2>1 DEF wake
  <2>4. Ahead' = Ahead
    BY <2>2, <2>3 DEF Ahead, Reading
  <2> QED
    BY <1>1, <2>1, <2>4
<1> QED
  BY <1>3, <1>4, <1>5, <1>6, <1>7, <1>8, <1>9, <1>12, <1>13, <1>14, <1>15 DEF Next, Code

\* Whatever is typed and whichever mode is set, at most one line is replaced
\* before the AI task takes the next: of two lines in a row, one is carried out.
THEOREM OneOfTwoLines == Spec => []LossBounded
<1>1. IInv /\ PaceInv /\ LossInv => LossBounded
  <2> SUFFICES ASSUME IInv, PaceInv, LossInv PROVE LossBounded
    OBVIOUS
  <2>1. lost \in Nat /\ Ahead \in Nat /\ Begun \in {0, 1}
    BY LeftType DEF IInv, A!TypeOK, Begun
  <2>2. (Ahead + Begun) \div 2 \in Nat
    BY <2>1
  <2> QED
    BY <2>1, <2>2 DEF LossInv, LossBounded
<1> QED
  BY <1>1, InitLoss, NextLoss, Invariance, Balanced, PTL DEF Spec
=============================================================================
