----------------------------- MODULE CoreTimer -----------------------------
(***************************************************************************)
(* The timer service of lib/core/src/timer.c: a pool of timer blocks, an   *)
(* active list sorted by expiry and an idle list.  The event loops of the  *)
(* MME and of the SPGW call tm_execute_tm_service from time to time; it    *)
(* takes expired blocks off the head of the active list until it meets one *)
(* that has not expired.                                                   *)
(*                                                                         *)
(* The service runs on one thread.  The loop of tm_execute_tm_service is   *)
(* one step per iteration, between Execute and the step that leaves it.    *)
(* Expiry functions return CORE_OK, as both installed ones always do       *)
(* (mme_event_timer_expire_func, event_timer_expire_func_zmq), so the      *)
(* ex_repeat branch is not taken; tm_set_duration has no caller.           *)
(***************************************************************************)
EXTENDS Integers, SequencesExt

CONSTANTS
    PoolSize,       \* MAX_NUM_OF_TIMER
    Durations,      \* durations callers ask for, in ms
    StartTime,      \* time_as_msec(time_now()) when the program starts
    MaxTime,        \* bound: the last instant of the run
    Uint32          \* 2^32: the modulus of c_uint32_t

ASSUME ConstantsAssumption ==
    /\ PoolSize \in Nat \ {0}
    /\ Durations \subseteq Nat
    /\ StartTime \in Nat /\ MaxTime \in Nat
    /\ Uint32 \in Nat \ {0}

Blocks == 1..PoolSize

OneShot == "TIMER_TYPE_ONE_SHOT"
Periodic == "TIMER_TYPE_PERIODIC"

VARIABLES
    now,        \* time_as_msec(time_now())
    pool,       \* the free blocks of timer_pool, in the order of allocation
    tm,         \* tm_block_t of every block
    active,     \* active_list
    idle,       \* idle_list
    cur_time,   \* cur_time of the running tm_execute_tm_service, or NotRunning
    due         \* history: when a running block was last asked to expire

vars == <<now, pool, tm, active, idle, cur_time, due>>

NotRunning == -1

Cleared == [type |-> OneShot, running |-> FALSE, duration |-> 0, expire_time |-> 0]

Held == Blocks \ ToSet(pool)

Init ==
    /\ now = StartTime
    /\ pool = [i \in Blocks |-> i]
    /\ tm = [b \in Blocks |-> Cleared]
    /\ active = << >>
    /\ idle = << >>
    /\ cur_time = NotRunning
    /\ due = [b \in Blocks |-> 0]

\* Mutant: list_append for list_insert_sorted.
tm_addLast(list, t, b) == Append(list, b)

\* list_insert_sorted with _tm_cmp_func: before the first block that expires
\* strictly later.
tm_add(list, t, b) ==
    LET before == SelectInSeq(list, LAMBDA c : t[b].expire_time < t[c].expire_time)
    IN  IF before = 0 THEN Append(list, b) ELSE InsertAt(list, before, b)

\* Mutant: the first block is removed, whichever was asked for.
tm_removeFirst(list, b) == IF list = << >> THEN list ELSE Tail(list)

tm_remove(list, b) == RemoveFirst(list, b)

\* _tm_get clears the block; here it was cleared when it was freed, and nobody
\* reads a block of the pool in between.
tm_create(type, duration) ==
    /\ cur_time = NotRunning
    /\ pool # << >>
    /\ LET b == Head(pool)
       IN  /\ idle' = tm_add(idle, tm, b)
           /\ tm' = [tm EXCEPT ![b].type = type, ![b].duration = duration]
    /\ pool' = Tail(pool)
    /\ UNCHANGED <<now, active, cur_time, due>>

tm_delete(b) ==
    /\ cur_time = NotRunning
    /\ IF tm[b].running
       THEN active' = tm_remove(active, b) /\ UNCHANGED idle
       ELSE idle' = tm_remove(idle, b) /\ UNCHANGED active
    /\ pool' = Append(pool, b)
    /\ tm' = [tm EXCEPT ![b] = Cleared]
    /\ due' = [due EXCEPT ![b] = 0]
    /\ UNCHANGED <<now, cur_time>>

tm_start(b) ==
    LET expires == now + tm[b].duration
        started == [tm EXCEPT ![b].expire_time = expires, ![b].running = TRUE]
    IN  /\ cur_time = NotRunning
        /\ idle' = IF tm[b].running THEN idle ELSE tm_remove(idle, b)
        /\ active' = tm_add(IF tm[b].running THEN tm_remove(active, b) ELSE active,
                            started, b)
        /\ tm' = started
        /\ due' = [due EXCEPT ![b] = now + tm[b].duration]
        /\ UNCHANGED <<now, pool, cur_time>>

tm_stop(b) ==
    /\ cur_time = NotRunning
    /\ tm[b].running
    /\ active' = tm_remove(active, b)
    /\ idle' = tm_add(idle, tm, b)
    /\ tm' = [tm EXCEPT ![b].running = FALSE]
    /\ due' = [due EXCEPT ![b] = 0]
    /\ UNCHANGED <<now, pool, cur_time>>

\* tm_execute_tm_service reads the clock into a c_uint32_t.
Execute ==
    /\ cur_time = NotRunning
    /\ cur_time' = now % Uint32
    /\ UNCHANGED <<now, pool, tm, active, idle, due>>

\* Mutant: a timer expires at its instant, not after it.
ExpiredAt == active # << >> /\ tm[Head(active)].expire_time <= cur_time

Expired == active # << >> /\ tm[Head(active)].expire_time < cur_time

\* One iteration: the first block has expired.  Its expiry function runs, then
\* a periodic block goes back to the active list and a one-shot block to idle.
ExpireFirst ==
    /\ cur_time # NotRunning
    /\ Expired
    /\ LET b == Head(active)
           rest == tm_remove(active, b)
           again == [tm EXCEPT ![b].expire_time = (cur_time + tm[b].duration) % Uint32]
       IN  IF tm[b].type = Periodic
           THEN /\ tm' = again
                /\ active' = tm_add(rest, again, b)
                /\ due' = [due EXCEPT ![b] = now + tm[b].duration]
                /\ UNCHANGED idle
           ELSE /\ active' = rest
                /\ idle' = tm_add(idle, tm, b)
                /\ tm' = [tm EXCEPT ![b].running = FALSE]
                /\ due' = [due EXCEPT ![b] = 0]
    /\ UNCHANGED <<now, pool, cur_time>>

\* The first block has not expired, or there is none: the loop is left.
Leave ==
    /\ cur_time # NotRunning
    /\ ~Expired
    /\ cur_time' = NotRunning
    /\ UNCHANGED <<now, pool, tm, active, idle, due>>

Tick ==
    /\ cur_time = NotRunning
    /\ now < MaxTime
    /\ now' = now + 1
    /\ UNCHANGED <<pool, tm, active, idle, cur_time, due>>

Next ==
    \/ \E type \in {OneShot, Periodic}, d \in Durations : tm_create(type, d)
    \/ \E b \in Held :
          \/ tm_delete(b)
          \/ tm_start(b)
          \/ tm_stop(b)
    \/ Execute
    \/ ExpireFirst
    \/ Leave
    \/ Tick

\* The loop of tm_execute_tm_service runs to its end without yielding.
Spec == Init /\ [][Next]_vars /\ WF_vars(ExpireFirst) /\ WF_vars(Leave)
----------------------------------------------------------------------------
TypeOK ==
    /\ now \in Nat
    /\ pool \in Seq(Blocks) /\ active \in Seq(Blocks) /\ idle \in Seq(Blocks)
    /\ tm \in [Blocks -> [type : {OneShot, Periodic}, running : BOOLEAN,
                          duration : Nat, expire_time : Nat]]
    /\ cur_time \in Nat \cup {NotRunning}
    /\ due \in [Blocks -> Nat]

\* Every block is in exactly one of timer_pool, the active list and the idle
\* list, once; and its running flag, by which tm_delete and tm_start choose the
\* list to take it from, says which ("If not running, tm is in idle list").
ListsPartition ==
    /\ TypeOK
    /\ \A l \in {pool, active, idle} : IsInjective(l)
    /\ ToSet(pool) \cup ToSet(active) \cup ToSet(idle) = Blocks
    /\ ToSet(pool) \cap (ToSet(active) \cup ToSet(idle)) = {}
    /\ \A b \in Held : (b \in ToSet(active)) = tm[b].running
    /\ \A b \in Held : (b \in ToSet(idle)) = ~tm[b].running

\* When tm_execute_tm_service returns, no running timer is overdue, although it
\* looks no further than the first block that has not expired.
PassLeavesNoneDue ==
    [][Leave => \A b \in ToSet(active) : due[b] >= now]_vars

\* A call of tm_execute_tm_service returns: a periodic timer that expires, even
\* one of duration zero, is not expired again by the same call.
PassEnds == cur_time # NotRunning ~> cur_time = NotRunning

=============================================================================
