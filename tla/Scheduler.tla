------------------------------ MODULE Scheduler ------------------------------
(***************************************************************************)
(* The cooperative scheduler, src/kernel/scheduler.c, with the part of     *)
(* kernel_main that drives it: tasks are added while the kernel boots,     *)
(* then scheduler_run_once is called for ever.  A dispatched entry runs to *)
(* its return before the next call; while it runs, and only then, the AI   *)
(* task may change the scheduling mode.                                    *)
(*                                                                         *)
(* Every run draws a credit from the lane of the task that is chosen.  A   *)
(* round starts when no active task has credit left: each lane with an     *)
(* active task is given its weight.                                        *)
(***************************************************************************)
EXTENDS Naturals

CONSTANTS MAX_TASKS, \* size of the task table (16)
          NoTask     \* no entry is running

SYSTEM == 0
USER   == 1
AI     == 2
Lanes  == {SYSTEM, USER, AI}

ASSUME MaxTasksAssumption == MAX_TASKS \in Nat \ {0}
ASSUME NoTaskAssumption == NoTask \notin Nat

VARIABLES
    tasks,            \* the table: lane and active flag of each entry
    task_count,
    next_task,        \* where the search for the next task starts
    lane_credits,
    performance_mode,
    running,          \* index of the entry that is executing, or NoTask
    booted,           \* kernel_main has entered its loop
    granted           \* history: runs of each lane in this round

table   == <<tasks, task_count>>
credits == <<lane_credits, granted>>
vars    == <<table, next_task, credits, performance_mode, running, booted>>

Slots == 0..(MAX_TASKS - 1)
Task  == [lane : Lanes, active : BOOLEAN]

TypeOK == /\ tasks \in [Slots -> Task]
          /\ task_count \in 0..MAX_TASKS
          /\ next_task \in Nat
          /\ IF task_count = 0 THEN next_task = 0 ELSE next_task < task_count
          /\ lane_credits \in [Lanes -> Nat]
          /\ granted \in [Lanes -> Nat]
          /\ performance_mode \in BOOLEAN
          /\ running \in Slots \cup {NoTask}
          /\ running # NoTask => running < task_count
          /\ booted \in BOOLEAN

NoCredits == [l \in Lanes |-> 0]

Init == /\ tasks = [i \in Slots |-> [lane |-> SYSTEM, active |-> FALSE]]
        /\ task_count = 0
        /\ next_task = 0
        /\ lane_credits = NoCredits
        /\ performance_mode = FALSE
        /\ running = NoTask
        /\ booted = FALSE
        /\ granted = NoCredits

TaskIds == { i \in Slots : i < task_count }

lane_weight_swapped(lane) == \* mutant: the two modes' weights are exchanged
    IF performance_mode
       THEN IF lane = USER THEN 3 ELSE IF lane = AI THEN 2 ELSE 1
       ELSE IF lane = USER THEN 6 ELSE IF lane = SYSTEM THEN 2 ELSE 1

lane_weight_even(lane) == \* mutant: balanced mode gives the AI lane one run
    IF performance_mode
       THEN IF lane = USER THEN 6 ELSE IF lane = SYSTEM THEN 2 ELSE 1
       ELSE IF lane = USER THEN 3 ELSE 1

lane_weight(lane) ==
    IF performance_mode
       THEN IF lane = USER THEN 6 ELSE IF lane = SYSTEM THEN 2 ELSE 1
       ELSE IF lane = USER THEN 3 ELSE IF lane = AI THEN 2 ELSE 1

active_lanes == { tasks[i].lane : i \in { j \in TaskIds : tasks[j].active } }

(***************************************************************************)
(* scheduler_add_lane: refused when the table is full or the lane is not   *)
(* one of the three.                                                       *)
(***************************************************************************)
scheduler_add_lane(lane) ==
    /\ ~booted
    /\ task_count < MAX_TASKS
    /\ lane \in Lanes
    /\ tasks' = [tasks EXCEPT ![task_count] = [lane |-> lane, active |-> TRUE]]
    /\ task_count' = task_count + 1
    /\ UNCHANGED <<next_task, credits, performance_mode, running, booted>>

\* kernel_main enters its loop.
interrupts_enable == /\ ~booted
                     /\ booted' = TRUE
                     /\ UNCHANGED <<table, next_task, credits, performance_mode, running>>

(***************************************************************************)
(* scheduler_run_once                                                      *)
(***************************************************************************)
runnable_with_credit_never == FALSE \* mutant: replenish on every run
runnable_with_credit == \E i \in TaskIds : tasks[i].active /\ lane_credits[tasks[i].lane] # 0

\* replenish_lane_credits
replenished == [l \in Lanes |-> IF l \in active_lanes THEN lane_weight(l) ELSE 0]

\* The credits the search compares: a new round starts first if it has to.
credits_now == IF runnable_with_credit THEN lane_credits ELSE replenished
granted_now == IF runnable_with_credit THEN granted ELSE NoCredits

\* Places behind next_task: the order of the search.
distance(i) == IF i >= next_task THEN i - next_task ELSE i + task_count - next_task

candidate(i) == tasks[i].active /\ credits_now[tasks[i].lane] > 0

\* The search keeps the first task with strictly more credit than those before.
selected(i) == /\ candidate(i)
               /\ \A j \in TaskIds : candidate(j) =>
                     \/ credits_now[tasks[i].lane] > credits_now[tasks[j].lane]
                     \/ /\ credits_now[tasks[i].lane] = credits_now[tasks[j].lane]
                        /\ distance(i) <= distance(j)

Dispatch(i) ==
    /\ selected(i)
    /\ lane_credits' = [credits_now EXCEPT ![tasks[i].lane] = @ - 1]
    /\ granted' = [granted_now EXCEPT ![tasks[i].lane] = @ + 1]
    /\ next_task' = IF i + 1 = task_count THEN 0 ELSE i + 1
    /\ running' = i

\* The returns without a dispatch: no active task, or best_credit still 0.
NoDispatch ==
    /\ \A i \in TaskIds : ~selected(i)
    /\ lane_credits' = IF active_lanes = {} THEN lane_credits ELSE credits_now
    /\ UNCHANGED <<granted, next_task, running>>

scheduler_run_once ==
    /\ booted
    /\ running = NoTask
    /\ NoDispatch \/ \E i \in TaskIds : Dispatch(i)
    /\ UNCHANGED <<table, performance_mode, booted>>

\* The entry returns to scheduler_run_once.
TaskReturns == /\ running # NoTask
               /\ running' = NoTask
               /\ UNCHANGED <<table, next_task, credits, performance_mode, booted>>

scheduler_set_performance_mode_keep(enabled) == \* mutant: credits survive
    /\ running # NoTask
    /\ performance_mode' = enabled
    /\ UNCHANGED <<table, next_task, credits, running, booted>>

\* Called by the running task; the round in progress is abandoned.
scheduler_set_performance_mode(enabled) ==
    /\ running # NoTask
    /\ performance_mode' = enabled
    /\ lane_credits' = NoCredits
    /\ granted' = NoCredits
    /\ UNCHANGED <<table, next_task, running, booted>>

ModeChange == \E enabled \in BOOLEAN : scheduler_set_performance_mode(enabled)

Next == \/ \E lane \in Lanes : scheduler_add_lane(lane)
        \/ interrupts_enable
        \/ scheduler_run_once
        \/ TaskReturns
        \/ ModeChange

\* The loop of kernel_main never ends and every entry returns.
Spec == /\ Init
        /\ [][Next]_vars
        /\ WF_vars(scheduler_run_once)
        /\ WF_vars(TaskReturns)

-----------------------------------------------------------------------------
(***************************************************************************)
(* Properties                                                              *)
(***************************************************************************)

\* The lanes share the processor in the proportion of their weights in the
\* mode that is set: in a round no active lane has had more runs than its
\* weight, and what it has not had yet it still holds as credit.  A change of
\* mode leaves nothing of the round of the old weights behind.
LaneShares ==
    \/ lane_credits = NoCredits /\ granted = NoCredits
    \/ \A l \in Lanes : lane_credits[l] + granted[l] =
                           IF l \in active_lanes THEN lane_weight(l) ELSE 0

\* Work conservation: with a task in the table a call of scheduler_run_once
\* finds one to run, so that the processor never idles through a round (the
\* return for best_credit = 0 is dead).
AlwaysDispatches ==
    booted /\ running = NoTask /\ TaskIds # {} => \E i \in TaskIds : selected(i)

\* Once the mode is left alone every lane that has a task goes on being run.
LaneRuns(l) == running # NoTask /\ tasks[running].lane = l
EveryLaneProgresses ==
    <>[][~ModeChange]_vars =>
        \A l \in Lanes : []((booted /\ l \in active_lanes) => <>LaneRuns(l))
==============================================================================
