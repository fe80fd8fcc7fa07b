-------------------------- MODULE Scheduler_proofs --------------------------
(***************************************************************************)
(* Theorems about Scheduler for every size of the task table and every     *)
(* assignment of lanes to tasks.                                           *)
(***************************************************************************)
EXTENDS Scheduler, WellFoundedInduction, TLAPS

LEMMA TaskIdsType == TaskIds \subseteq Slots /\ Slots \subseteq Nat
BY MaxTasksAssumption DEF TaskIds, Slots

LEMMA WeightType == \A l \in Lanes : lane_weight(l) \in Nat /\ lane_weight(l) > 0
BY DEF lane_weight, Lanes, SYSTEM, USER, AI

LEMMA CreditsNowType ==
    ASSUME TypeOK
    PROVE  /\ credits_now \in [Lanes -> Nat]
           /\ granted_now \in [Lanes -> Nat]
           /\ replenished \in [Lanes -> Nat]
BY WeightType DEF TypeOK, credits_now, granted_now, replenished, NoCredits

-----------------------------------------------------------------------------
LEMMA InitType == Init => TypeOK
<1> SUFFICES ASSUME Init PROVE TypeOK
  OBVIOUS
<1>1. tasks \in [Slots -> Task]
  BY DEF Init, Task, Lanes
<1>2. NoCredits \in [Lanes -> Nat]
  BY DEF NoCredits
<1>3. task_count \in 0..MAX_TASKS /\ task_count = 0 /\ next_task = 0
  BY MaxTasksAssumption DEF Init
<1>4. lane_credits \in [Lanes -> Nat] /\ granted \in [Lanes -> Nat]
  BY <1>2 DEF Init
<1>5. /\ performance_mode \in BOOLEAN /\ booted \in BOOLEAN
      /\ running = NoTask
  BY DEF Init
<1> QED
  BY <1>1, <1>3, <1>4, <1>5 DEF TypeOK

LEMMA DispatchType ==
    ASSUME TypeOK, NEW i \in TaskIds, Dispatch(i),
           UNCHANGED <<table, performance_mode, booted>>
    PROVE  TypeOK'
<1>1. i \in Slots /\ i \in Nat /\ i < task_count /\ task_count \in Nat
  BY TaskIdsType, MaxTasksAssumption DEF TaskIds, TypeOK
<1>2. tasks[i].lane \in Lanes /\ credits_now[tasks[i].lane] > 0
  BY <1>1 DEF TypeOK, Task, Dispatch, selected, candidate
<1>3. lane_credits' \in [Lanes -> Nat]
  BY <1>2, CreditsNowType DEF Dispatch
<1>4. granted' \in [Lanes -> Nat]
  BY <1>2, CreditsNowType DEF Dispatch
<1>5. next_task' \in Nat /\ next_task' < task_count
  BY <1>1 DEF Dispatch
<1>6. running' = i
  BY DEF Dispatch
<1> QED
  BY <1>1, <1>3, <1>4, <1>5, <1>6 DEF TypeOK, table

LEMMA NextType == TypeOK /\ [Next]_vars => TypeOK'
<1> SUFFICES ASSUME TypeOK, [Next]_vars PROVE TypeOK'
  OBVIOUS
<1>1. ASSUME NEW lane \in Lanes, scheduler_add_lane(lane) PROVE TypeOK'
  <2>1. task_count \in Slots /\ task_count \in Nat /\ task_count + 1 \in 0..MAX_TASKS
    BY <1>1, MaxTasksAssumption DEF scheduler_add_lane, TypeOK, Slots
  <2>2. tasks' \in [Slots -> Task]
    BY <1>1, <2>1 DEF scheduler_add_lane, TypeOK, Task
  <2>3. next_task < task_count + 1
    <3>1. CASE task_count > 0
      BY <2>1, <3>1 DEF TypeOK
    <3>2. CASE task_count = 0
      BY <2>1, <3>2 DEF TypeOK
    <3> QED
      BY <2>1, <3>1, <3>2
  <2>4. running # NoTask => running < task_count + 1
    BY <2>1 DEF TypeOK, Slots
  <2> QED
    BY <1>1, <2>1, <2>2, <2>3, <2>4 DEF scheduler_add_lane, TypeOK, credits
<1>2. CASE interrupts_enable
  BY <1>2 DEF interrupts_enable, TypeOK, table, credits
<1>3. CASE scheduler_run_once
  <2>1. ASSUME NEW i \in TaskIds, Dispatch(i) PROVE TypeOK'
    BY <1>3, <2>1, DispatchType DEF scheduler_run_once
  <2>2. CASE NoDispatch
    BY <1>3, <2>2, CreditsNowType DEF scheduler_run_once, NoDispatch, TypeOK, table
  <2> QED
    BY <1>3, <2>1, <2>2 DEF scheduler_run_once
<1>4. CASE TaskReturns
  BY <1>4 DEF TaskReturns, TypeOK, table, credits
<1>5. CASE ModeChange
  <2>1. NoCredits \in [Lanes -> Nat]
    BY DEF NoCredits
  <2> QED
    BY <1>5, <2>1 DEF ModeChange, scheduler_set_performance_mode, TypeOK, table
<1>6. CASE UNCHANGED vars
  BY <1>6 DEF vars, TypeOK, table, credits
<1> QED
  BY <1>1, <1>2, <1>3, <1>4, <1>5, <1>6 DEF Next

\* Every variable keeps its type: in particular next_task and the running
\* entry are always inside the filled part of the table.
THEOREM TypeCorrect == Spec => []TypeOK
BY InitType, NextType, PTL DEF Spec

-----------------------------------------------------------------------------
(***************************************************************************)
(* The search of scheduler_run_once finds a task whenever there is one.    *)
(***************************************************************************)
LEMMA LeastElement ==
    ASSUME NEW S \in SUBSET Nat, S # {}
    PROVE  \E m \in S : \A n \in S : m <= n
<1> DEFINE Less == { p \in Nat \X Nat : p[1] < p[2] }
<1>1. IsWellFoundedOn(Less, Nat)
  BY NatLessThanWellFounded DEF OpToRel
<1>2. \A m, n \in S : <<n, m>> \in Less <=> n < m
  OBVIOUS
<1>3. PICK m \in S : \A n \in S : <<n, m>> \notin Less
  <2> HIDE DEF Less
  <2> QED
    BY <1>1, WFMin
<1>4. ASSUME NEW n \in S PROVE m <= n
  <2>1. ~(n < m)
    <3> HIDE DEF Less
    <3> QED
      BY <1>2, <1>3, Zenon
  <2>2. m \in Nat /\ n \in Nat
    OBVIOUS
  <2> QED
    BY <2>1, <2>2
<1> QED
  BY <1>4

LEMMA FullestLane ==
    ASSUME NEW S \in SUBSET Lanes, S # {}, NEW f \in [Lanes -> Nat]
    PROVE  \E l \in S : \A m \in S : f[m] <= f[l]
<1>1. Lanes = {0, 1, 2}
  BY DEF Lanes, SYSTEM, USER, AI
<1>2. f[0] \in Nat /\ f[1] \in Nat /\ f[2] \in Nat
  BY <1>1
<1>3. \A l \in Lanes : f[l] \in Nat
  OBVIOUS
<1>4. PICK l \in S : TRUE
  OBVIOUS
<1>5. CASE \A m \in S : f[m] <= f[l]
  BY <1>5
<1>6. ASSUME NEW m \in S, f[m] > f[l] PROVE \E k \in S : \A n \in S : f[n] <= f[k]
  <2>1. CASE \A n \in S : f[n] <= f[m]
    BY <2>1
  <2>2. ASSUME NEW n \in S, f[n] > f[m] PROVE \A k \in S : f[k] <= f[n]
    <3>1. l # m /\ m # n /\ l # n /\ S \subseteq {l, m, n}
      BY <1>1, <1>3, <1>6, <2>2
    <3> QED
      BY <1>3, <1>6, <2>2, <3>1
  <2> QED
    BY <1>3, <2>1, <2>2
<1> QED
  BY <1>3, <1>5, <1>6

LEMMA SomeCandidate ==
    ASSUME TypeOK, active_lanes # {}
    PROVE  \E i \in TaskIds : candidate(i)
<1>1. CASE runnable_with_credit
  <2>1. PICK i \in TaskIds : tasks[i].active /\ lane_credits[tasks[i].lane] # 0
    BY <1>1 DEF runnable_with_credit
  <2>2. tasks[i].lane \in Lanes
    BY <2>1, TaskIdsType DEF TypeOK, Task
  <2> QED
    BY <1>1, <2>1, <2>2 DEF candidate, credits_now, TypeOK
<1>2. CASE ~runnable_with_credit
  <2>1. PICK i \in TaskIds : tasks[i].active
    BY DEF active_lanes
  <2>2. tasks[i].lane \in Lanes /\ tasks[i].lane \in active_lanes
    BY <2>1, TaskIdsType DEF TypeOK, Task, active_lanes
  <2> QED
    BY <1>2, <2>1, <2>2, WeightType DEF candidate, credits_now, replenished
<1> QED
  BY <1>1, <1>2

LEMMA SomeoneSelected ==
    ASSUME TypeOK, active_lanes # {}
    PROVE  \E i \in TaskIds : selected(i)
<1> DEFINE Open   == { i \in TaskIds : candidate(i) }
           Fullest == { tasks[i].lane : i \in Open }
<1>1. Open # {} /\ Open \subseteq Slots
  BY SomeCandidate, TaskIdsType
<1>2. Fullest \in SUBSET Lanes /\ Fullest # {}
  BY <1>1 DEF TypeOK, Task
<1>3. PICK l \in Fullest : \A m \in Fullest : credits_now[m] <= credits_now[l]
  <2> HIDE DEF Fullest
  <2> QED
    BY <1>2, CreditsNowType, FullestLane
<1> DEFINE Tied == { i \in Open : credits_now[tasks[i].lane] = credits_now[l] }
<1>4. Tied # {} /\ Tied \subseteq Open
  BY <1>3
<1>5. \A i \in Open : distance(i) \in Nat
  BY <1>1, MaxTasksAssumption DEF TypeOK, distance, TaskIds, Slots
<1> DEFINE Places == { distance(i) : i \in Tied }
<1>6. Places \in SUBSET Nat /\ Places # {}
  BY <1>4, <1>5
<1>7. PICK d \in Places : \A e \in Places : d <= e
  <2> HIDE DEF Places
  <2> QED
    BY <1>6, LeastElement
<1>8. PICK i \in Tied : d = distance(i)
  BY <1>7
<1>9. \A j \in TaskIds : candidate(j) =>
         \/ credits_now[tasks[i].lane] > credits_now[tasks[j].lane]
         \/ /\ credits_now[tasks[i].lane] = credits_now[tasks[j].lane]
            /\ distance(i) <= distance(j)
  <2> SUFFICES ASSUME NEW j \in TaskIds, candidate(j),
                      ~(credits_now[tasks[i].lane] > credits_now[tasks[j].lane])
               PROVE  /\ credits_now[tasks[i].lane] = credits_now[tasks[j].lane]
                      /\ distance(i) <= distance(j)
    OBVIOUS
  <2>1. tasks[j].lane \in Lanes /\ tasks[i].lane \in Lanes
    BY <1>1, TaskIdsType DEF TypeOK, Task
  <2>2. credits_now[tasks[j].lane] \in Nat /\ credits_now[tasks[i].lane] \in Nat
    BY <2>1, CreditsNowType
  <2>3. credits_now[tasks[j].lane] <= credits_now[tasks[i].lane]
    BY <1>3
  <2>4. credits_now[tasks[i].lane] = credits_now[tasks[j].lane]
    BY <2>2, <2>3
  <2>5. distance(j) \in Places
    BY <2>4
  <2> QED
    BY <1>7, <1>8, <2>4, <2>5
<1> QED
  BY <1>9 DEF selected

-----------------------------------------------------------------------------
(***************************************************************************)
(* The inductive invariant behind LaneShares: no credit exists and nothing *)
(* runs before kernel_main enters its loop, so the table is complete when  *)
(* the first round starts.                                                 *)
(***************************************************************************)
BootQuiet == ~booted => /\ lane_credits = NoCredits
                        /\ granted = NoCredits
                        /\ running = NoTask

IInv == TypeOK /\ BootQuiet /\ LaneShares

\* A round in progress or a new one: the credits the search compares and the
\* runs counted with them add up to the weights of the active lanes.
LEMMA SharesNow ==
    ASSUME IInv, NEW l \in Lanes, \E m \in Lanes : credits_now[m] > 0
    PROVE  credits_now[l] + granted_now[l] = IF l \in active_lanes THEN lane_weight(l) ELSE 0
<1>1. CASE runnable_with_credit
  <2>1. lane_credits # NoCredits
    <3>1. PICK i \in TaskIds : lane_credits[tasks[i].lane] # 0
      BY <1>1 DEF runnable_with_credit
    <3>2. tasks[i].lane \in Lanes
      BY <3>1, TaskIdsType DEF IInv, TypeOK, Task
    <3> QED
      BY <3>1, <3>2 DEF NoCredits
  <2> QED
    BY <1>1, <2>1 DEF IInv, LaneShares, credits_now, granted_now
<1>2. CASE ~runnable_with_credit
  BY <1>2, WeightType DEF credits_now, granted_now, replenished, NoCredits
<1> QED
  BY <1>1, <1>2

LEMMA SharesInit == Init => IInv
BY InitType DEF Init, IInv, BootQuiet, LaneShares

LEMMA SharesNext == IInv /\ [Next]_vars => IInv'
<1> SUFFICES ASSUME IInv, [Next]_vars PROVE IInv'
  OBVIOUS
<1> USE DEF IInv
<1>1. TypeOK'
  BY NextType
<1>2. ASSUME NEW lane \in Lanes, scheduler_add_lane(lane) PROVE IInv'
  <2>1. UNCHANGED <<lane_credits, granted, running, booted>> /\ ~booted
    BY <1>2 DEF scheduler_add_lane, credits
  <2>2. UNCHANGED NoCredits
    BY DEF NoCredits
  <2>3. BootQuiet' /\ LaneShares'
    BY <2>1, <2>2 DEF BootQuiet, LaneShares
  <2> QED
    BY <1>1, <2>3
<1>3. CASE interrupts_enable
  <2>1. UNCHANGED <<active_lanes, performance_mode, lane_credits, granted>>
    BY <1>3 DEF interrupts_enable, active_lanes, TaskIds, table, credits
  <2>2. \A l \in Lanes : lane_weight(l)' = lane_weight(l)
    BY <2>1 DEF lane_weight
  <2> QED
    BY <1>1, <1>3, <2>1, <2>2 DEF interrupts_enable, BootQuiet, LaneShares
<1>4. CASE scheduler_run_once
  <2>1. UNCHANGED <<active_lanes, performance_mode>> /\ booted'
    BY <1>4 DEF scheduler_run_once, active_lanes, TaskIds, table
  <2>2. \A l \in Lanes : lane_weight(l)' = lane_weight(l)
    BY <2>1 DEF lane_weight
  <2>3. ASSUME NEW i \in TaskIds, Dispatch(i) PROVE LaneShares'
    <3>1. tasks[i].lane \in Lanes /\ credits_now[tasks[i].lane] > 0
      BY <2>3, TaskIdsType DEF TypeOK, Task, Dispatch, selected, candidate
    <3>2. \A l \in Lanes : lane_credits'[l] + granted'[l] = credits_now[l] + granted_now[l]
      BY <2>3, <3>1, CreditsNowType DEF Dispatch
    <3> QED
      BY <2>1, <2>2, <3>1, <3>2, SharesNow DEF LaneShares
  <2>4. ASSUME NoDispatch PROVE LaneShares'
    <3>1. CASE lane_credits' = lane_credits
      <4>1. UNCHANGED NoCredits
        BY DEF NoCredits
      <4> QED
        BY <2>1, <2>2, <2>4, <3>1, <4>1 DEF NoDispatch, LaneShares
    <3>2. CASE active_lanes # {} /\ ~runnable_with_credit
      BY <2>4, <3>2, SomeoneSelected DEF NoDispatch
    <3> QED
      BY <2>4, <3>1, <3>2 DEF NoDispatch, credits_now
  <2> QED
    BY <1>1, <1>4, <2>1, <2>3, <2>4 DEF scheduler_run_once, BootQuiet
<1>5. CASE TaskReturns
  <2>1. UNCHANGED <<active_lanes, performance_mode, lane_credits, granted, booted>>
    BY <1>5 DEF TaskReturns, active_lanes, TaskIds, table, credits
  <2>2. \A l \in Lanes : lane_weight(l)' = lane_weight(l)
    BY <2>1 DEF lane_weight
  <2> QED
    BY <1>1, <1>5, <2>1, <2>2 DEF TaskReturns, BootQuiet, LaneShares
<1>6. CASE ModeChange
  BY <1>1, <1>6 DEF ModeChange, scheduler_set_performance_mode, BootQuiet, LaneShares
<1>7. CASE UNCHANGED vars
  <2>1. UNCHANGED <<active_lanes, performance_mode, lane_credits, granted, booted, running>>
    BY <1>7 DEF vars, active_lanes, TaskIds, table, credits
  <2>2. \A l \in Lanes : lane_weight(l)' = lane_weight(l)
    BY <2>1 DEF lane_weight
  <2> QED
    BY <1>1, <1>7, <2>1, <2>2 DEF BootQuiet, LaneShares
<1> QED
  BY <1>2, <1>3, <1>4, <1>5, <1>6, <1>7 DEF Next

\* In every round every lane gets its weight, whatever the task table is.
THEOREM LanesShare == Spec => []LaneShares
BY SharesInit, SharesNext, PTL DEF Spec, IInv

-----------------------------------------------------------------------------
\* Nothing takes a task out of the table again.
AllActive == \A i \in TaskIds : tasks[i].active

LEMMA ActiveInit == Init => AllActive
BY TaskIdsType DEF Init, AllActive, TaskIds

LEMMA ActiveNext == TypeOK /\ AllActive /\ [Next]_vars => AllActive'
<1> SUFFICES ASSUME TypeOK, AllActive, [Next]_vars PROVE AllActive'
  OBVIOUS
<1>1. ASSUME NEW lane \in Lanes, scheduler_add_lane(lane) PROVE AllActive'
  <2> SUFFICES ASSUME NEW i \in TaskIds' PROVE tasks'[i].active
    BY DEF AllActive
  <2>1. i \in Slots /\ i \in Nat /\ i < task_count + 1 /\ task_count \in Nat
    BY <1>1, TaskIdsType, MaxTasksAssumption DEF scheduler_add_lane, TaskIds, TypeOK
  <2>2. CASE i = task_count
    BY <1>1, <2>1, <2>2 DEF scheduler_add_lane, TypeOK
  <2>3. CASE i # task_count
    <3>1. i \in TaskIds
      BY <2>1, <2>3 DEF TaskIds
    <3> QED
      BY <1>1, <2>1, <2>3, <3>1 DEF scheduler_add_lane, TypeOK, AllActive
  <2> QED
    BY <2>2, <2>3
<1>2. CASE UNCHANGED table
  BY <1>2 DEF table, AllActive, TaskIds
<1> QED
  BY <1>1, <1>2 DEF Next, interrupts_enable, scheduler_run_once, TaskReturns, ModeChange,
                    scheduler_set_performance_mode, vars

\* scheduler_run_once is work conserving for every table and every state.
THEOREM WorkConserving == Spec => []AlwaysDispatches
<1>1. TypeOK /\ AllActive => AlwaysDispatches
  <2> SUFFICES ASSUME TypeOK, AllActive, TaskIds # {} PROVE \E i \in TaskIds : selected(i)
    BY DEF AlwaysDispatches
  <2>1. active_lanes # {}
    BY DEF AllActive, active_lanes
  <2> QED
    BY <2>1, SomeoneSelected
<1> QED
  BY <1>1, TypeCorrect, ActiveInit, ActiveNext, PTL DEF Spec
==============================================================================
