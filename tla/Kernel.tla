------------------------------- MODULE Kernel --------------------------------
(***************************************************************************)
(* The running kernel, src/kernel/main.c: the boot-time task table, the    *)
(* loop that runs one task and halts until the next interrupt, and the     *)
(* entries of the five tasks, composed from                                *)
(*   Scheduler  which task is dispatched,                                  *)
(*   KeyFifo    what the keyboard driver promises (Keyboard implements it),*)
(*   Ai         the command line of the AI layer,                          *)
(*   Desktop    focus and the queued run of the active application.        *)
(*                                                                         *)
(* An entry runs to its return and shares nothing with an interrupt        *)
(* handler but the key queue, so its body is one step; interrupts come     *)
(* between steps.  Interrupts are taken to do what their stubs intend; the *)
(* module Interrupts looks at what the stubs do.  The text of a command is *)
(* not interpreted: a line that is carried out may have any of the effects *)
(* handle_command knows.                                                   *)
(***************************************************************************)
EXTENDS Naturals, Sequences

CONSTANTS
    MAX_TASKS, NoTask,                                         \* Scheduler
    Capacity,                                                  \* KeyFifo
    AI_BUFFER_SIZE, Printable, ENTER, BACKSPACE, Control,      \* Ai
    apps, AutoFocusPeriod, MonitorPeriod, TickCycle, Nothing   \* Desktop

VARIABLES
    tasks, task_count, next_task, lane_credits, performance_mode, running, booted, granted,
    pending, key,
    command_buffer, last_command, command_ready, lost,
    windows, active_index, mode_name, tick_count, runtime_panel_dirty, panel, requested, runs,
    cpu    \* where the loop of kernel_main is

\* What the keys of the keyboard stand for.
Chars == Printable \cup {ENTER, BACKSPACE} \cup Control

S == INSTANCE Scheduler
K == INSTANCE KeyFifo WITH NUL <- Nothing
A == INSTANCE Ai
D == INSTANCE Desktop

schedVars == <<tasks, task_count, next_task, lane_credits, performance_mode, running, booted, granted>>
keyVars   == <<pending, key>>
aiVars    == <<command_buffer, last_command, command_ready, lost>>
deskVars  == <<windows, active_index, mode_name, tick_count, runtime_panel_dirty, panel,
               requested, runs>>
vars      == <<schedVars, keyVars, aiVars, deskVars, cpu>>

\* The tasks of kernel_main: name and lane, in the order they are added.
HEARTBEAT == 0
INPUT     == 1
AITASK    == 2
DESKTOP   == 3
AUDIO     == 4
Agenda    == HEARTBEAT..AUDIO

lane_of_input_system == \* mutant: the input task is added to the heartbeat's lane
    [t \in Agenda |-> CASE t \in {HEARTBEAT, INPUT} -> S!SYSTEM
                       [] t = AUDIO                -> S!USER
                       [] t \in {AITASK, DESKTOP}  -> S!AI]

lane_of_audio_system == \* mutant: the audio task is added to the heartbeat's lane
    [t \in Agenda |-> CASE t \in {HEARTBEAT, AUDIO}  -> S!SYSTEM
                       [] t = INPUT                -> S!USER
                       [] t \in {AITASK, DESKTOP}  -> S!AI]

lane_of == [t \in Agenda |-> CASE t = HEARTBEAT         -> S!SYSTEM
                               [] t \in {INPUT, AUDIO}    -> S!USER
                               [] t \in {AITASK, DESKTOP} -> S!AI]

ASSUME TableAssumption == MAX_TASKS \in Nat /\ MAX_TASKS > AUDIO /\ NoTask \notin Nat
ASSUME QueueAssumption == Capacity \in Nat \ {0}
ASSUME LineAssumption == /\ AI_BUFFER_SIZE \in Nat /\ AI_BUFFER_SIZE > 1
                         /\ ENTER \notin Printable
                         /\ BACKSPACE \notin Printable
                         /\ ENTER # BACKSPACE
                         /\ Control \cap (Printable \cup {ENTER, BACKSPACE}) = {}
ASSUME WindowsAssumption == /\ Len(apps) \in Nat \ {0}
                            /\ \A i, j \in 1..Len(apps) : apps[i] = apps[j] => i = j
                            /\ AutoFocusPeriod \in Nat \ {0}
                            /\ MonitorPeriod \in Nat \ {0}
                            /\ TickCycle \in Nat \ {0}
                            /\ TickCycle % AutoFocusPeriod = 0
                            /\ TickCycle % MonitorPeriod = 0

TypeOK == /\ S!TypeOK
          /\ A!TypeOK
          /\ D!TypeOK
          /\ Len(pending) <= Capacity
          /\ cpu \in {"boot", "loop", "entry", "return", "halted"}
          /\ cpu \in {"entry", "return"} <=> running # NoTask

Init == /\ S!Init
        /\ K!Init
        /\ A!Init
        /\ D!Init
        /\ cpu = "boot"

-----------------------------------------------------------------------------
\* kernel_main: one scheduler_add_lane after the other, then interrupts_enable.
AddTask == /\ cpu = "boot"
           /\ task_count \in Agenda
           /\ S!scheduler_add_lane(lane_of[task_count])
           /\ UNCHANGED <<keyVars, aiVars, deskVars, cpu>>

EnableInterrupts == /\ cpu = "boot"
                    /\ task_count = AUDIO + 1
                    /\ S!interrupts_enable
                    /\ cpu' = "loop"
                    /\ UNCHANGED <<keyVars, aiVars, deskVars>>

\* The loop: run one task, halt, go on after an interrupt.
RunOnce == /\ cpu = "loop"
           /\ S!scheduler_run_once
           /\ cpu' = IF running' = NoTask THEN "halted" ELSE "entry"
           /\ UNCHANGED <<keyVars, aiVars, deskVars>>

TaskReturns == /\ cpu = "return"
               /\ S!TaskReturns
               /\ cpu' = "halted"
               /\ UNCHANGED <<keyVars, aiVars, deskVars>>

Entry(t) == /\ cpu = "entry"
            /\ running = t
            /\ cpu' = "return"

-----------------------------------------------------------------------------
(***************************************************************************)
(* The entries                                                             *)
(***************************************************************************)

\* heartbeat_task and audio_runtime_task only report.
Report == /\ Entry(HEARTBEAT) \/ Entry(AUDIO)
          /\ UNCHANGED <<schedVars, keyVars, aiVars, deskVars>>

\* input_task: at most one character, to the AI layer and to the desktop.
InputIdle == /\ Entry(INPUT)
             /\ pending = <<>>
             /\ UNCHANGED <<schedVars, keyVars, aiVars, deskVars>>

InputKey == /\ Entry(INPUT)
            /\ K!Deliver
            /\ A!ai_feed_key(Head(pending))
            /\ UNCHANGED <<schedVars, deskVars>>

\* ai_task with a command: handle_command changes the scheduling policy,
\* calls the desktop, or only answers.
Command == /\ Entry(AITASK)
           /\ A!ai_takes_command
           /\ UNCHANGED keyVars

SetPolicy(enabled) == /\ Command
                      /\ S!scheduler_set_performance_mode(enabled)
                      /\ UNCHANGED deskVars

\* What handle_command passes on to the desktop, for a command it knows word by
\* word and for one it recognises by the words in it.  No command leads to the
\* network window or back to hybrid mode.
ExactIntents  == D!Focus({"ASSISTANT", "FILES", "SYSTEM"}) \cup D!Mode({"USER", "AI"})
                 \cup [kind : {"next", "previous"}]
PhraseIntents == D!Focus({"FILES", "SYSTEM"}) \cup D!Mode({"USER", "AI"}) \cup [kind : {"status"}]

ExactCommand(intent) == /\ Command
                        /\ D!desktop_handle_voice_intent(intent)
                        /\ UNCHANGED schedVars

PhraseCommand(intent) == /\ Command
                         /\ D!desktop_handle_voice_intent(intent)
                         /\ UNCHANGED schedVars

ModeChange == \E enabled \in BOOLEAN : SetPolicy(enabled)

handle_command == \/ ModeChange
                  \/ \E intent \in ExactIntents : ExactCommand(intent)
                  \/ \E intent \in PhraseIntents : PhraseCommand(intent)
                  \/ Command /\ UNCHANGED <<schedVars, deskVars>> \* only an answer

Monitor == /\ Entry(AITASK)
           /\ A!ai_monitors
           /\ UNCHANGED <<schedVars, keyVars, deskVars>>

\* desktop_task
DesktopTick == /\ Entry(DESKTOP)
               /\ D!desktop_tick
               /\ UNCHANGED <<schedVars, keyVars, aiVars>>

-----------------------------------------------------------------------------
(***************************************************************************)
(* Interrupts, once they are enabled.  Any interrupt ends a halt; one that *)
(* comes before the hlt instruction does not.                              *)
(***************************************************************************)
wake == IF cpu = "halted" THEN "loop" ELSE cpu

KeyInterrupt(c) == /\ booted
                   /\ K!Accept(c)
                   /\ cpu' = wake
                   /\ UNCHANGED <<schedVars, aiVars, deskVars>>

TimerInterrupt == /\ cpu = "halted"
                  /\ cpu' = "loop"
                  /\ UNCHANGED <<schedVars, keyVars, aiVars, deskVars>>

Code == \/ AddTask \/ EnableInterrupts \/ RunOnce \/ TaskReturns
        \/ Report \/ InputIdle \/ InputKey
        \/ handle_command \/ Monitor
        \/ DesktopTick

Next == \/ Code
        \/ TimerInterrupt
        \/ \E c \in Chars : KeyInterrupt(c)

\* The processor executes instructions, and the PIT ticks 100 times a second.
Spec == Init /\ [][Next]_vars /\ WF_vars(Code) /\ WF_vars(TimerInterrupt)

-----------------------------------------------------------------------------
(***************************************************************************)
(* Properties                                                              *)
(***************************************************************************)

\* The display follows the focus; see Desktop.
PanelCurrent == D!PanelCurrent

\* Every request for a run of an application is answered as often as the code
\* means to, whenever the scheduler lets commands and ticks come; see Desktop.
RunsAsRequested == D!RunsAsRequested

\* The loop gives the keyboard's reader the turns the FIFO channel needs:
\* whatever is typed and whatever the mode, no accepted key waits for ever.
ServesKeyboard == K!Spec

\* A line that waits for the AI task does not wait for ever: the slot is emptied,
\* in either mode and however often commands change the mode, so that a way back
\* to balanced mode always exists.  The line carried out may be a later one (see
\* LossBounded).
SlotIsServed == command_ready ~> ~command_ready

\* In either mode at most one line is replaced before the AI task takes the next:
\* of two lines in a row, one is carried out.  (In performance mode input runs
\* three times between two AI runs, enough for the ends of two lines.)
LossBounded == lost <= 1

\* In balanced mode the agenda runs the AI task before the input task has read
\* another whole line, so an entered line is never overwritten unhandled.
NoCommandLostWhenBalanced ==
    [][InputKey /\ Head(pending) = ENTER /\ command_ready /\ ~performance_mode
          => command_buffer = <<>>]_vars

\* "Balanced mode is active. AI and desktop services are fully scheduled.":
\* when the mode has settled on balanced, every task of the table goes on
\* being run.
Runs(t) == cpu = "entry" /\ running = t
BalancedModeRunsAll ==
    (<>[]~performance_mode /\ <>[][~ModeChange]_vars) => \A t \in Agenda : []<>Runs(t)

TaskQueued == panel # Nothing /\ panel.activity = "TASK QUEUED"

\* "Input gets priority and background work is reduced.": once the mode is left
\* alone, a queued run of the active application ("TASK QUEUED") is carried
\* out in either mode, later perhaps in performance mode.
QueuedTaskRuns ==
    <>[][~ModeChange]_vars => (TaskQueued ~> ~TaskQueued)
==============================================================================
