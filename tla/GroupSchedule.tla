--------------------------- MODULE GroupSchedule ---------------------------
(***************************************************************************)
(* The task that creates groups (plugins/groups.py, automation.py) and the *)
(* account's schedule (database.update_account_schedule and                *)
(* apply_error_backoff).  Times are in ticks, rounded down.                *)
(***************************************************************************)
EXTENDS PluginTasks

CONSTANTS Day, Minute,  \* in ticks
          Limits,       \* daily_group_limit of the owner's plan
          Variation,    \* two to five minutes, taken from or added to an interval
          FirstDelay,   \* half an hour, the first backoff
          Jitter,       \* ten minutes, the most that is added to a backoff
          MaxDelay,     \* three days, the longest backoff
          MaxWait,      \* bound: the longest wait that Telegram asks for
          Never         \* 999 days, which do not pass

ASSUME TicksAssumption == Day \in Nat /\ Minute \in 1..Day
ASSUME LimitsAssumption == Limits \subseteq Nat
ASSUME VariationAssumption == Variation \subseteq Nat /\ Variation # {}
ASSUME BackoffAssumption ==
    MaxDelay \in Nat /\ FirstDelay \in 1..MaxDelay /\ Jitter \in Nat /\ MaxWait \in Nat
ASSUME NeverAssumption == Never \in Nat /\ Never > Day /\ \A v \in Variation : Never > v

VARIABLES
    next,           \* next_creation_time, in ticks from now
    delay,          \* what backoff_level stands for: the next backoff
    limit,          \* the plan's daily limit
    order,          \* the limit in the row the creation began with
    flooded,        \* flood_wait_until lies ahead
    invalid,        \* session_status
    owed,           \* history: ticks until the limit allows another group
    excused         \* history: since then the schedule was set anew, or a group was
                    \* made that nobody counted

scheduleVars == <<next, delay, limit, order, flooded, invalid, owed, excused>>

ScheduleTypeOK ==
    /\ next \in Nat /\ delay \in FirstDelay..MaxDelay /\ limit \in Limits /\ order \in Limits
    /\ flooded \in BOOLEAN /\ invalid \in BOOLEAN
    /\ owed \in Nat /\ excused \in BOOLEAN

ScheduleInit ==
    /\ next = 0 /\ delay = FirstDelay /\ limit \in Limits /\ order = limit
    /\ flooded = FALSE /\ invalid = FALSE /\ owed = 0 /\ excused = FALSE

Least(a, b) == IF a < b THEN a ELSE b

Less(a, b) == IF a < b THEN 0 ELSE a - b

\* The distance that a daily limit of l stands for
Interval(l) == IF l = 0 THEN Never
               ELSE IF Day \div l < Minute THEN Minute ELSE Day \div l

\* and when update_account_schedule puts the next group; a time gone by counts as now.
NextTimes(l) == IF l = 0 THEN {Never}
                ELSE UNION {{Less(Interval(l), v), Interval(l) + v} : v \in Variation}

\* get_eligible_accounts; is_active is the plugin's own switch.
Eligible == "groups" \in on /\ subscribed /\ ~flooded /\ next = 0 /\ ~invalid

GroupsTo(place) == Goes("groups", place) /\ UNCHANGED <<on, subscribed, serving, attached>>

\* GroupsPlugin.tick, up to the pause before a creation
Looks ==
    /\ At("groups", "awake")
    /\ \E eligible \in BOOLEAN : /\ Reads(Enabled("groups") /\ Eligible, eligible)
                                 /\ GroupsTo(IF eligible THEN "pausing" ELSE "asleep")
    /\ UNCHANGED scheduleVars

\* and after it, which a wake-up may end
LooksAgain ==
    /\ At("groups", "pausing")
    /\ \E eligible \in BOOLEAN :
          /\ Reads(Eligible, eligible)
          /\ GroupsTo(IF eligible THEN "creating" ELSE "asleep")
          /\ order' = IF eligible THEN limit ELSE order
    /\ UNCHANGED <<next, delay, limit, flooded, invalid, owed, excused>>

\* Mutant: the schedule is left to the end of the announcement
CreatesUnscheduled ==
    /\ At("groups", "creating") /\ GroupsTo("announcing")
    /\ owed' = Interval(order) /\ excused' = FALSE
    /\ UNCHANGED <<fails, next, delay, limit, order, flooded, invalid>>

\* create_supergroup, log_group_creation and update_account_schedule, whose failure
\* goes unnoticed
Creates ==
    /\ At("groups", "creating") /\ GroupsTo("announcing")
    /\ owed' = Interval(order)
    /\ \/ next' \in NextTimes(order) /\ delay' = FirstDelay /\ excused' = FALSE /\ UNCHANGED fails
       \/ DbFails /\ excused' = TRUE /\ UNCHANGED <<next, delay>>
    /\ UNCHANGED <<limit, order, flooded, invalid>>

\* apply_error_backoff, with the wait that Telegram asks for or without one
Backoff ==
    \/ /\ \/ next' \in delay..Least(delay + Jitter, MaxDelay)
          \/ next' \in 0..MaxWait
       /\ delay' = Least(2 * delay, MaxDelay)
       /\ invalid' \in {invalid, TRUE}
       /\ UNCHANGED fails
    \/ DbFails /\ UNCHANGED <<next, delay, invalid>>

\* The request was sent, and its answer does not come: Telegram may have made the group.
Unanswered == \/ owed' = Interval(order) /\ excused' = TRUE
              \/ UNCHANGED <<owed, excused>>

\* A creation that fails, or whose answer does not come within the 30 seconds
CreationFails == /\ At("groups", "creating") /\ GroupsTo("asleep") /\ Backoff /\ Unanswered
                 /\ UNCHANGED <<limit, order, flooded>>

\* The connection ends, and the task with it: no backoff, and a creation in flight is not
\* waited for.
GroupsStop == /\ IF At("groups", "creating") THEN Unanswered ELSE UNCHANGED <<owed, excused>>
              /\ UNCHANGED <<next, delay, limit, order, flooded, invalid>>

Announces == /\ At("groups", "announcing") /\ GroupsTo("asleep")
             /\ UNCHANGED <<fails, scheduleVars>>

\* The schedule of the group that was made is replaced.
AnnouncementFails ==
    /\ At("groups", "announcing") /\ GroupsTo("asleep") /\ Backoff
    /\ excused' = TRUE
    /\ UNCHANGED <<limit, order, flooded, owed>>

\* toggle_account_status, which forgets the schedule
SwitchesGroups ==
    /\ Switches("groups")
    /\ IF "groups" \in on THEN UNCHANGED <<next, delay, excused>>
                          ELSE next' = 0 /\ delay' = FirstDelay /\ excused' = TRUE
    /\ UNCHANGED <<limit, order, flooded, invalid, owed>>

\* add_managed_account for a session that was added again
AddedAgain == /\ next' = 0 /\ delay' = FirstDelay /\ invalid' = FALSE /\ excused' = TRUE
              /\ UNCHANGED <<taskVars, limit, order, flooded, owed>>

LimitChanges == /\ limit' \in Limits \ {limit}
                /\ UNCHANGED <<taskVars, next, delay, order, flooded, invalid, owed, excused>>

\* set_account_flood_wait, and its end
Floods == /\ flooded' = ~flooded
          /\ UNCHANGED <<taskVars, next, delay, limit, order, invalid, owed, excused>>

Sooner(n) == IF n \in {0, Never} THEN n ELSE n - 1

\* A tick passes.
TimePasses == /\ next' = Sooner(next) /\ owed' = Sooner(owed)
              /\ UNCHANGED <<taskVars, delay, limit, order, flooded, invalid, excused>>
-----------------------------------------------------------------------------
\* "{limit} groups/day" (user_handlers.py:486), spread over the day with a variation of up
\* to five minutes: while a group is asked for, the distance the limit stands for has gone
\* by since the last one but for that variation, also for a worker that was stopped in the
\* middle or read the row before its pause.  It holds except where the schedule was set
\* anew in between (the owner switched creation on or added the account again, the
\* announcement or the write failed), or where a creation that timed out or was cancelled
\* made a group after all.
GroupsKeepTheirDistance ==
    At("groups", "creating") => excused \/ \E v \in Variation : owed <= v
=============================================================================
