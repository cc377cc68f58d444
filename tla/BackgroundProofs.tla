-------------------------- MODULE BackgroundProofs --------------------------
(***************************************************************************)
(* The background of an account: a notice is forwarded once, and none of   *)
(* those a catch-up reads falls between the handler and the catch-up; a    *)
(* stranger is not blocked before the limit's message; groups keep their   *)
(* distance; and the types, for any notices, processes, senders, limits,   *)
(* variations, backoffs, bounds and scenes.                                *)
(***************************************************************************)
EXTENDS AccountBackground, SequenceTheorems, TLAPS

(***************************************************************************)
(* Alerts.                                                                 *)
(***************************************************************************)
\* Whatever was forwarded and may be looked at again is marked; a notice that Telegram has
\* not written yet was not forwarded.
AlertInv ==
    /\ age \in [Notice -> {"none", "recent", "old"}]
    /\ seen \in [Process -> SUBSET Notice] /\ explorer \in Process
    /\ alerts \in [Process -> [Notice -> 0..2]]
    /\ AlertedOnce
    /\ \A x \in Process, m \in Notice :
          /\ age[m] = "none" => alerts[x][m] = 0
          /\ alerts[x][m] # 0 /\ age[m] # "old" => m \in seen[x]

LEMMA AlertsInitially == Init => AlertInv
BY ProcessAssumption DEF Init, AlertInit, AlertInv, AlertedOnce

\* Handling a notice that was written forwards it if it is not marked, and marks it.
LEMMA HandlesKeeps ==
    ASSUME AlertInv, NEW x \in Process, NEW m \in Notice, Handles(x, m),
           explorer' \in Process,
           UNCHANGED age \/ (age[m] = "none" /\ age' = [age EXCEPT ![m] = "recent"]),
           age'[m] # "none"
    PROVE  AlertInv'
<1> USE DEF AlertInv
<1>1. /\ age' \in [Notice -> {"none", "recent", "old"}]
      /\ \A n \in Notice \ {m} : age'[n] = age[n]
      /\ age'[m] = "old" <=> age[m] = "old"
  OBVIOUS
<1>2. /\ seen' \in [Process -> SUBSET Notice] /\ m \in seen'[x]
      /\ \A y \in Process : seen[y] \subseteq seen'[y]
  BY DEF Handles
<1>3. CASE UNCHANGED alerts /\ (m \in seen[x] \/ age[m] = "old" \/ alerts[x][m] = 2)
  BY <1>1, <1>2, <1>3 DEF AlertedOnce
<1>4. CASE m \notin seen[x] /\ age[m] # "old" /\ UNCHANGED alerts
  BY <1>1, <1>2, <1>4 DEF AlertedOnce
<1>5. CASE /\ m \notin seen[x] /\ age[m] # "old"
           /\ alerts' = [alerts EXCEPT ![x][m] = @ + 1]
  <2>1. alerts[x][m] = 0
    BY <1>5
  <2>2. /\ alerts' \in [Process -> [Notice -> 0..2]] /\ alerts'[x][m] = 1
        /\ \A y \in Process, n \in Notice :
              (y # x \/ n # m) => alerts'[y][n] = alerts[y][n]
    BY <1>5, <2>1
  <2>3. AlertedOnce'
    BY <2>2 DEF AlertedOnce
  <2>4. \A y \in Process, n \in Notice :
           /\ age'[n] = "none" => alerts'[y][n] = 0
           /\ alerts'[y][n] # 0 /\ age'[n] # "old" => n \in seen'[y]
    <3> SUFFICES ASSUME NEW y \in Process, NEW n \in Notice
                 PROVE  /\ age'[n] = "none" => alerts'[y][n] = 0
                        /\ alerts'[y][n] # 0 /\ age'[n] # "old" => n \in seen'[y]
      OBVIOUS
    <3>1. CASE n = m /\ y = x
      BY <1>1, <1>2, <3>1
    <3>2. CASE n = m /\ y # x
      BY <1>1, <1>2, <1>5, <2>2, <3>2
    <3>3. CASE n # m
      BY <1>1, <1>2, <2>2, <3>3
    <3> QED BY <3>1, <3>2, <3>3
  <2> QED BY <1>1, <1>2, <2>2, <2>3, <2>4
<1>6. \/ UNCHANGED alerts
      \/ m \notin seen[x] /\ age[m] # "old" /\ alerts' = [alerts EXCEPT ![x][m] = @ + 1]
  BY DEF Handles, Known
<1> QED BY <1>3, <1>4, <1>5, <1>6

\* No step forwards a notice twice.
LEMMA AlertsKept ==
    ASSUME AlertInv, [Next]_vars
    PROVE  AlertInv'
<1> USE DEF AlertInv
<1>1. ASSUME UNCHANGED <<age, seen, alerts>>, explorer' \in Process PROVE AlertInv'
  BY <1>1 DEF AlertedOnce
<1>2. CASE UNCHANGED alertVars
  BY <1>1, <1>2 DEF alertVars
<1>3. CASE WorkerForgets
  <2>1. PICK kept \in SUBSET seen["worker"] :
          /\ seen' = [seen EXCEPT !["worker"] = kept]
          /\ alerts' = [alerts EXCEPT !["worker"] =
                          [m \in Notice |-> IF m \in kept THEN alerts["worker"][m] ELSE 0]]
    BY <1>3 DEF WorkerForgets
  <2>2. UNCHANGED <<age, explorer>>
    BY <1>3 DEF WorkerForgets
  <2>3. seen' \in [Process -> SUBSET Notice] /\ alerts' \in [Process -> [Notice -> 0..2]]
    BY <2>1, ProcessAssumption
  <2>4. \A m \in Notice : /\ seen'["worker"] = kept
                          /\ alerts'["worker"][m]
                                = IF m \in kept THEN alerts["worker"][m] ELSE 0
    BY <2>1, ProcessAssumption
  <2>5. \A x \in Process \ {"worker"} : seen'[x] = seen[x] /\ alerts'[x] = alerts[x]
    BY <2>1
  <2>6. \A x \in Process, m \in Notice :
           alerts'[x][m] = 0 \/ (alerts'[x][m] = alerts[x][m] /\ (m \in seen[x] => m \in seen'[x]))
    BY <2>4, <2>5
  <2>7. AlertedOnce'
    BY <2>6 DEF AlertedOnce
  <2> QED BY <2>2, <2>3, <2>6, <2>7
<1>4. CASE ConnectionStep
  BY <1>1, <1>2, <1>3, <1>4 DEF ConnectionStep, MonitorStops
<1>5. ASSUME NEW r \in Runner, NEW m \in Notice, CatchesUp(r, m) PROVE AlertInv'
  BY <1>5, HandlesKeeps, ProcessAssumption DEF CatchesUp, ProcessOf
<1>6. ASSUME NEW p \in Background, Loops(p) PROVE AlertInv'
  BY <1>1, <1>2, <1>6 DEF Loops, MonitorFetches, Fetches, MonitorCaughtUp, CatchUpEnds,
                         CatchUpFails
<1>7. CASE CatchUpStep
  BY <1>5, <1>7 DEF CatchUpStep, MonitorCatchesUp, Runner
<1>8. CASE NoticeStep
  <2>1. ASSUME NEW m \in Notice, NoticeArrives(m) PROVE AlertInv'
    <3>1. CASE Handles("worker", m)
      BY <2>1, <3>1, HandlesKeeps, ProcessAssumption DEF NoticeArrives
    <3>2. CASE UNCHANGED <<seen, alerts>>
      BY <2>1, <3>2 DEF NoticeArrives, AlertedOnce
    <3> QED BY <2>1, <3>1, <3>2 DEF NoticeArrives
  <2>2. ASSUME NEW m \in Notice, NoticeEdited(m) PROVE AlertInv'
    BY <2>2, HandlesKeeps, ProcessAssumption DEF NoticeEdited
  <2>3. ASSUME NEW m \in Notice, Ages(m) PROVE AlertInv'
    BY <2>3 DEF Ages, AlertedOnce
  <2>4. ASSUME NEW x \in Process, Prunes(x) PROVE AlertInv'
    BY <2>4 DEF Prunes, AlertedOnce
  <2>5. CASE Explores \/ ExplorerEnds
    BY <1>1, <2>5, ProcessAssumption DEF Explores, ExplorerEnds, Fetches, CatchUpEnds, CatchUpFails
  <2>6. ASSUME NEW m \in Notice, CatchesUp("explorer", m) PROVE AlertInv'
    BY <1>5, <2>6 DEF Runner
  <2>7. CASE OtherArrives
    BY <1>1, <2>7 DEF OtherArrives
  <2> QED BY <1>8, <2>1, <2>2, <2>3, <2>4, <2>5, <2>6, <2>7 DEF NoticeStep
<1>9. CASE SwitchStep \/ GroupStep \/ GuardStep
  BY <1>2, <1>9 DEF SwitchStep, GroupStep, GuardStep
<1>10. CASE UNCHANGED vars
  BY <1>2, <1>10 DEF vars
<1> QED BY <1>4, <1>6, <1>7, <1>8, <1>9, <1>10 DEF Next

\* A process forwards a notice at most once within the six hours, whichever of its handler,
\* an edit and the two catch-ups gets to it first.
THEOREM NoticesAreForwardedOnce == Spec => []AlertedOnce
<1>1. AlertInv => AlertedOnce
  BY DEF AlertInv
<1> QED BY <1>1, AlertsInitially, AlertsKept, PTL DEF Spec
-----------------------------------------------------------------------------
(***************************************************************************)
(* Strangers.                                                              *)
(***************************************************************************)
\* A row counts no more warnings than were given, until it is blocked.
GuardInv ==
    /\ permit \in [Sender -> Row] /\ warned \in [Sender -> Nat]
    /\ warnLimit \in Nat /\ fails \in Nat
    /\ \A s \in Sender : ~permit[s].blocked => permit[s].warnings <= warned[s]

Warns(s) == s \in queued' \ queued => warned[s] + 1 >= warnLimit \/ fails' # fails

LEMMA GuardsInitially == Init => GuardInv
<1> SUFFICES ASSUME Init PROVE GuardInv
  OBVIOUS
<1>1. NewRow \in Row /\ NewRow.warnings = 0
  BY DEF NewRow, Row
<1>2. warnLimit \in Nat
  BY LimitAssumption DEF Init, GuardInit
<1> QED BY <1>1, <1>2 DEF Init, GuardInit, TaskInit, GuardInv

\* A verdict on a sender, from a row that counts no more warnings than were given.
LEMMA JudgesKeeps ==
    ASSUME GuardInv, NEW s \in Sender, NEW row \in Row, NEW most \in Nat,
           Judges(s, row, most), row.warnings <= warned[s],
           UNCHANGED warnLimit, fails' \in Nat,
           fails' # fails \/ most = warnLimit
    PROVE  GuardInv' /\ \A z \in Sender : Warns(z)
<1> DEFINE n == row.warnings + 1
           r == [approved |-> FALSE, warnings |-> n, blocked |-> n >= most]
<1>1. n \in Nat /\ row.warnings \in Nat
  BY DEF Row
<1>2. r \in Row /\ r.warnings = n /\ r.blocked = (n >= most)
  BY <1>1 DEF Row
<1>3. permit' = [permit EXCEPT ![s] = r]
  BY DEF Judges
<1>4. IF n >= most THEN queued' = queued \cup {s} /\ UNCHANGED warned
                    ELSE warned' = [warned EXCEPT ![s] = @ + 1] /\ UNCHANGED queued
  BY DEF Judges
<1> HIDE DEF r
<1>5. permit' \in [Sender -> Row] /\ permit'[s] = r
      /\ \A z \in Sender \ {s} : permit'[z] = permit[z]
  BY <1>2, <1>3 DEF GuardInv
<1>6. CASE n >= most
  <2>1. GuardInv'
    BY <1>2, <1>4, <1>5, <1>6 DEF GuardInv
  <2>2. \A z \in Sender : Warns(z)
    BY <1>1, <1>4, <1>6 DEF Warns, GuardInv
  <2> QED BY <2>1, <2>2
<1>7. CASE ~(n >= most)
  <2>1. /\ warned' \in [Sender -> Nat] /\ warned'[s] = warned[s] + 1
        /\ \A z \in Sender \ {s} : warned'[z] = warned[z]
    BY <1>4, <1>7 DEF GuardInv
  <2>2. r.warnings <= warned'[s]
    BY <1>1, <1>2, <2>1 DEF GuardInv
  <2>3. GuardInv'
    BY <1>5, <2>1, <2>2 DEF GuardInv
  <2>4. \A z \in Sender : Warns(z)
    BY <1>4, <1>7 DEF Warns
  <2> QED BY <2>3, <2>4
<1> QED BY <1>6, <1>7


\* Every step keeps it, and queues a block only after the warnings.
LEMMA GuardsKept ==
    ASSUME GuardInv, [Next]_vars
    PROVE  GuardInv' /\ \A s \in Sender : Warns(s)
<1>1. ASSUME UNCHANGED guardVars, fails' \in Nat
      PROVE  GuardInv' /\ \A s \in Sender : Warns(s)
  BY <1>1 DEF guardVars, permitVars, GuardInv, Warns
<1>2. fails \in Nat /\ fails + 1 \in Nat
  BY DEF GuardInv
<1>3. ASSUME UNCHANGED guardVars, UNCHANGED fails \/ DbFails
      PROVE  GuardInv' /\ \A s \in Sender : Warns(s)
  BY <1>1, <1>2, <1>3 DEF DbFails
<1>4. CASE ConnectionStep
  BY <1>3, <1>4 DEF ConnectionStep, Connects, Disconnects
<1>5. ASSUME NEW p \in Background, Loops(p)
      PROVE  GuardInv' /\ \A s \in Sender : Warns(s)
  BY <1>3, <1>5 DEF Loops, Wakes, Watches, MonitorWatches, MonitorFetches, MonitorCaughtUp,
                    Finds, Reads
<1>6. CASE CatchUpStep \/ SwitchStep \/ NoticeStep
  BY <1>3, <1>6 DEF CatchUpStep, MonitorCatchesUp, SwitchStep, Subscribes, Switches,
                    SwitchesGroups, NoticeStep, taskVars
<1>7. CASE GroupStep
  BY <1>3, <1>7 DEF GroupStep, Looks, LooksAgain, Creates, CreationFails, Announces,
                    AnnouncementFails, Backoff, AddedAgain, LimitChanges, Floods, TimePasses,
                    Reads, taskVars
<1>8. CASE GuardStep
  <2>1. ASSUME NEW s \in Sender, PermitHears(s)
        PROVE  GuardInv' /\ \A z \in Sender : Warns(z)
    <3>1. /\ UNCHANGED warnLimit /\ permit[s] \in Row /\ warned[s] \in Nat
          /\ warnLimit \in Nat /\ DefaultLimit \in Nat
      BY <2>1, LimitAssumption DEF PermitHears, GuardInv
    <3>2. NewRow \in Row /\ NewRow.warnings = 0
      BY DEF NewRow, Row
    <3>3. CASE DbFails /\ Judges(s, NewRow, warnLimit)
      <4>1. NewRow.warnings <= warned[s] /\ fails' \in Nat
        BY <1>2, <3>1, <3>2, <3>3 DEF DbFails
      <4> QED BY <3>1, <3>2, <3>3, <4>1, JudgesKeeps
    <3>4. ASSUME ~permit[s].blocked, NEW most \in Nat, Judges(s, permit[s], most),
                 \/ UNCHANGED fails /\ most = warnLimit
                 \/ DbFails
          PROVE  GuardInv' /\ \A z \in Sender : Warns(z)
      <4>1. permit[s].warnings <= warned[s]
        BY <3>4 DEF GuardInv
      <4>2. fails' \in Nat /\ (fails' # fails \/ most = warnLimit)
        BY <1>2, <3>4 DEF DbFails
      <4> QED BY <3>1, <3>4, <4>1, <4>2, JudgesKeeps
    <3> QED BY <2>1, <3>1, <3>3, <3>4 DEF PermitHears
  <2>2. ASSUME NEW s \in Sender, Blocks(s)
        PROVE  GuardInv' /\ \A z \in Sender : Warns(z)
    BY <2>2 DEF Blocks, taskVars, GuardInv, Warns
  <2>3. ASSUME NEW s \in Sender, NEW approved \in BOOLEAN, SetsApproval(s, approved)
        PROVE  GuardInv' /\ \A z \in Sender : Warns(z)
    <3>1. [NewRow EXCEPT !.approved = approved] \in Row
          /\ [NewRow EXCEPT !.approved = approved].warnings = 0
      BY DEF NewRow, Row
    <3>2. /\ permit' = [permit EXCEPT ![s] = [NewRow EXCEPT !.approved = approved]]
          /\ warned' = [warned EXCEPT ![s] = 0]
          /\ UNCHANGED <<warnLimit, queued, fails>>
      BY <2>3 DEF SetsApproval, Decided, taskVars
    <3> QED BY <3>1, <3>2 DEF GuardInv, Warns
  <2>4. CASE SetsProtection
    <3>1. warnLimit' \in Nat
      BY <2>4, LimitAssumption DEF SetsProtection, GuardInv
    <3> QED BY <2>4, <3>1 DEF SetsProtection, taskVars, GuardInv, Warns
  <2>5. ASSUME UNCHANGED permitVars, UNCHANGED fails \/ DbFails
        PROVE  GuardInv' /\ \A s \in Sender : Warns(s)
    BY <1>2, <2>5 DEF permitVars, DbFails, GuardInv, Warns
  <2>6. ASSUME NEW s \in Sender, AfkHears(s)
        PROVE  GuardInv' /\ \A z \in Sender : Warns(z)
    BY <2>5, <2>6 DEF AfkHears
  <2>7. ASSUME NEW value, AwayBecomes(value)
        PROVE  GuardInv' /\ \A s \in Sender : Warns(s)
    BY <2>5, <2>7 DEF AwayBecomes
  <2> QED BY <1>8, <2>1, <2>2, <2>3, <2>4, <2>6, <2>7 DEF GuardStep, SetsAway, AfkHearsItself
<1>9. CASE UNCHANGED vars
  BY <1>3, <1>9 DEF vars, taskVars
<1> QED BY <1>4, <1>5, <1>6, <1>7, <1>8, <1>9 DEF Next

\* A stranger is blocked no sooner than with the limit-th message since the owner last
\* decided on him, so after one warning fewer than the limit, whatever the owner does in
\* the meantime.
THEOREM NoneIsBlockedEarly == Spec => BlockedAtTheLimit
<1>1. GuardInv /\ [Next]_vars
        => [\A s \in Sender : s \in queued' \ queued =>
              warned[s] + 1 >= warnLimit \/ fails' # fails]_<<taskVars, guardVars>>
  BY GuardsKept DEF Warns
<1>2. GuardInv /\ [Next]_vars => GuardInv'
  BY GuardsKept
<1> QED BY <1>1, <1>2, GuardsInitially, PTL DEF Spec, BlockedAtTheLimit
-----------------------------------------------------------------------------
(***************************************************************************)
(* Groups.                                                                 *)
(***************************************************************************)
\* o ticks are owed and the schedule says n; what never comes is owed only while it says so.
OnTime(o, n) == IF o = Never THEN n = Never ELSE \E v \in Variation : o <= n + v

\* The schedule is earlier than the limit allows by no more than a variation, unless it was
\* set anew or a group was not counted, and a group is asked for only when it has come.
DistanceInv ==
    /\ next \in Nat /\ owed \in Nat /\ owed <= Never /\ delay \in Nat
    /\ limit \in Limits /\ order \in Limits
    /\ task \in [Background -> Place]
    /\ excused \/ OnTime(owed, next)
    /\ At("groups", "creating") => excused \/ \E v \in Variation : owed <= v

LEMMA Varied == \A v \in Variation : v \in Nat /\ v < Never /\ 0 <= v
BY VariationAssumption, NeverAssumption

LEMMA DueIsOnTime ==
    ASSUME NEW o \in Nat, NEW n \in Nat, NEW v \in Variation, o <= v
    PROVE  OnTime(o, n)
<1>1. v \in Nat /\ v < Never /\ Never \in Nat
  BY Varied, NeverAssumption
<1>2. o # Never /\ o <= n + v
  BY <1>1
<1> QED BY <1>2 DEF OnTime

LEMMA AtOnce == \A n \in Nat : OnTime(0, n)
<1>1. PICK v \in Variation : TRUE
  BY VariationAssumption
<1>2. 0 <= v
  BY Varied
<1> QED BY <1>2, DueIsOnTime

LEMMA DistanceInitially == Init => DistanceInv
<1>1. FirstDelay \in Nat /\ OnTime(0, 0) /\ 0 <= Never
  BY AtOnce, BackoffAssumption, NeverAssumption
<1> QED BY <1>1 DEF Init, TaskInit, ScheduleInit, DistanceInv, At, Background, Place

LEMMA IntervalTyped ==
    ASSUME NEW l \in Limits
    PROVE  /\ Interval(l) \in Nat
           /\ l = 0 => Interval(l) = Never
           /\ l # 0 => Interval(l) < Never
<1>1. /\ l \in Nat /\ Day \in Nat /\ Never \in Nat /\ Minute \in Nat
      /\ Minute < Never /\ Day < Never
  BY LimitsAssumption, TicksAssumption, NeverAssumption
<1>2. CASE l # 0
  <2>1. Day \div l \in Nat /\ Day \div l <= Day
    BY <1>1, <1>2
  <2>2. Day \div l < Never
    BY <1>1, <2>1
  <2> QED BY <1>1, <1>2, <2>1, <2>2 DEF Interval
<1> QED BY <1>1, <1>2 DEF Interval

\* The next time that is drawn is on time for the interval.
LEMMA NextTimesOnTime ==
    ASSUME NEW l \in Limits, NEW n \in NextTimes(l)
    PROVE  n \in Nat /\ OnTime(Interval(l), n)
<1>1. Interval(l) \in Nat /\ Never \in Nat
  BY IntervalTyped, NeverAssumption
<1>2. CASE l = 0
  <2>1. n = Never /\ Interval(l) = Never
    BY <1>2, IntervalTyped DEF NextTimes
  <2> QED BY <1>1, <2>1 DEF OnTime
<1>3. CASE l # 0
  <2>1. PICK v \in Variation : n = Less(Interval(l), v) \/ n = Interval(l) + v
    BY <1>3 DEF NextTimes
  <2>2. v \in Nat
    BY Varied
  <2>3. n \in Nat /\ Interval(l) <= n + v
    BY <1>1, <2>1, <2>2 DEF Less
  <2>4. Interval(l) # Never
    BY <1>1, <1>3, IntervalTyped
  <2> QED BY <2>3, <2>4 DEF OnTime
<1> QED BY <1>2, <1>3

LEMMA SoonerTyped == ASSUME NEW n \in Nat PROVE Sooner(n) \in Nat /\ Sooner(n) <= n
BY NeverAssumption DEF Sooner

LEMMA SoonerOnTime ==
    ASSUME NEW o \in Nat, o <= Never, NEW n \in Nat, OnTime(o, n)
    PROVE  OnTime(Sooner(o), Sooner(n))
<1>1. Never \in Nat /\ Sooner(n) \in Nat /\ Sooner(o) \in Nat
  BY NeverAssumption, SoonerTyped
<1>2. CASE o = Never
  BY <1>2 DEF OnTime, Sooner
<1>3. CASE o = 0
  BY <1>1, <1>3, AtOnce DEF Sooner
<1>4. CASE o # Never /\ o # 0
  <2>1. PICK v \in Variation : o <= n + v
    BY <1>4 DEF OnTime
  <2>2. v \in Nat /\ v < Never
    BY Varied
  <2>3. Sooner(o) = o - 1
    BY <1>4 DEF Sooner
  <2>4. Sooner(n) = n \/ Sooner(n) = n - 1
    BY DEF Sooner
  <2>5. o - 1 <= Sooner(n) + v
    BY <1>1, <2>1, <2>2, <2>4
  <2>6. o - 1 # Never
    BY <1>1, <1>4
  <2> QED BY <2>3, <2>5, <2>6 DEF OnTime
<1> QED BY <1>2, <1>3, <1>4

\* Steps that leave the schedule alone and begin no creation.
LEMMA Unscheduled ==
    ASSUME DistanceInv, UNCHANGED <<next, owed, delay, excused>>,
           limit' \in Limits, order' \in Limits, task' \in [Background -> Place],
           task'["groups"] = "creating" => task["groups"] = "creating"
    PROVE  DistanceInv'
BY DEF DistanceInv, At

\* A backoff is some natural number.
LEMMA BackoffNatural ==
    ASSUME DistanceInv, Backoff
    PROVE  delay' \in Nat /\ next' \in Nat
<1> USE DEF DistanceInv
<1>1. MaxDelay \in Nat /\ MaxWait \in Nat /\ Jitter \in Nat
  BY BackoffAssumption
<1>2. Least(2 * delay, MaxDelay) \in Nat /\ Least(delay + Jitter, MaxDelay) \in Nat
  BY <1>1 DEF Least
<1>3. delay' = Least(2 * delay, MaxDelay) \/ UNCHANGED delay
  BY DEF Backoff
<1>4. \/ next' \in delay..Least(delay + Jitter, MaxDelay)
      \/ next' \in 0..MaxWait
      \/ UNCHANGED next
  BY DEF Backoff
<1> QED BY <1>1, <1>2, <1>3, <1>4

\* A request without an answer leaves what is owed as it is or excuses what follows.
LEMMA UnansweredExcuses ==
    ASSUME DistanceInv, Unanswered
    PROVE  /\ owed' \in Nat /\ owed' <= Never
           /\ excused' \/ UNCHANGED <<owed, excused>>
<1>1. Interval(order) \in Nat /\ Interval(order) <= Never
  BY IntervalTyped, NeverAssumption DEF DistanceInv
<1> QED BY <1>1 DEF Unanswered, DistanceInv

\* The backoff after a failure may be sooner than the limit allows.
LEMMA BackoffKeeps ==
    ASSUME DistanceInv, Backoff, UNCHANGED <<limit, order>>,
           owed' \in Nat, owed' <= Never, GroupsTo("asleep"),
           excused' \/ (UNCHANGED owed /\ \E v \in Variation : owed <= v)
    PROVE  DistanceInv'
<1>1. delay' \in Nat /\ next' \in Nat
  BY BackoffNatural
<1>2. task' \in [Background -> Place] /\ task'["groups"] = "asleep"
  BY DEF GroupsTo, Goes, Place, Background, DistanceInv
<1>3. excused' \/ OnTime(owed', next')
  <2>1. CASE UNCHANGED owed /\ \E v \in Variation : owed <= v
    <3>1. PICK v \in Variation : owed <= v
      BY <2>1
    <3>2. owed \in Nat
      BY DEF DistanceInv
    <3> QED BY <1>1, <2>1, <3>1, <3>2, DueIsOnTime
  <2> QED BY <2>1
<1> QED BY <1>1, <1>2, <1>3 DEF At, DistanceInv

\* A step of the task or of the schedule.
LEMMA GroupStepKeeps ==
    ASSUME DistanceInv, GroupStep
    PROVE  DistanceInv'
<1> USE DEF GroupsTo, Goes
<1>1. "groups" \in Background /\ task \in [Background -> Place]
  BY DEF Background, DistanceInv
<1>2. ASSUME NEW place \in {"asleep", "pausing", "announcing", "creating"}, GroupsTo(place)
      PROVE  task' \in [Background -> Place] /\ task'["groups"] = place
  BY <1>1, <1>2 DEF Place
<1>3. CASE Looks
  <2>1. \E place \in {"asleep", "pausing"} : GroupsTo(place)
    BY <1>3 DEF Looks
  <2>2. task' \in [Background -> Place] /\ task'["groups"] # "creating"
    BY <1>2, <2>1
  <2> QED BY <1>3, <2>2, Unscheduled DEF Looks, scheduleVars, DistanceInv
<1>4. CASE LooksAgain
  <2>1. UNCHANGED <<next, owed, delay, excused, limit>> /\ order' \in {order, limit}
    BY <1>4 DEF LooksAgain
  <2>2. CASE GroupsTo("creating") /\ Eligible
    <3>1. excused \/ \E v \in Variation : owed <= v
      <4>1. CASE OnTime(owed, 0)
        <5>1. PICK v \in Variation : v \in Nat /\ v < Never
          BY VariationAssumption, NeverAssumption
        <5>2. CASE owed = Never
          BY <4>1, <5>1, <5>2 DEF OnTime
        <5>3. CASE \E w \in Variation : owed <= 0 + w
          <6>1. PICK w \in Variation : owed <= 0 + w
            BY <5>3
          <6>2. w \in Nat /\ 0 + w = w
            BY Varied
          <6> QED BY <6>1, <6>2
        <5> QED BY <4>1, <5>2, <5>3 DEF OnTime
      <4> QED BY <2>2, <4>1 DEF Eligible, DistanceInv
    <3> QED BY <1>2, <2>1, <2>2, <3>1 DEF DistanceInv
  <2>3. CASE GroupsTo("asleep")
    <3>1. task' \in [Background -> Place] /\ task'["groups"] # "creating"
      BY <1>2, <2>3
    <3> QED BY <2>1, <3>1, Unscheduled DEF DistanceInv
  <2>4. (GroupsTo("creating") /\ Eligible) \/ GroupsTo("asleep")
    BY <1>4 DEF LooksAgain, Reads
  <2> QED BY <2>2, <2>3, <2>4
<1>5. CASE Creates
  <2>1. Interval(order) \in Nat /\ Interval(order) <= Never
    BY IntervalTyped, NeverAssumption DEF DistanceInv
  <2>2. /\ owed' = Interval(order) /\ UNCHANGED <<limit, order>>
        /\ \/ next' \in NextTimes(order) /\ delay' = FirstDelay
           \/ excused' = TRUE /\ UNCHANGED <<next, delay>>
    BY <1>5 DEF Creates
  <2>3. task' \in [Background -> Place] /\ task'["groups"] = "announcing"
    BY <1>2, <1>5 DEF Creates
  <2>4. next' \in NextTimes(order) => next' \in Nat /\ OnTime(Interval(order), next')
    BY NextTimesOnTime DEF DistanceInv
  <2>5. FirstDelay \in Nat
    BY BackoffAssumption
  <2> HIDE DEF GroupsTo, Goes
  <2> QED BY <2>1, <2>2, <2>3, <2>4, <2>5 DEF DistanceInv, At
<1>6. CASE CreationFails
  <2>1. /\ owed' \in Nat /\ owed' <= Never
        /\ excused' \/ UNCHANGED <<owed, excused>>
    BY <1>6, UnansweredExcuses DEF CreationFails
  <2>2. excused \/ \E v \in Variation : owed <= v
    BY <1>6 DEF CreationFails, DistanceInv
  <2> QED BY <1>6, <2>1, <2>2, BackoffKeeps DEF CreationFails
<1>7. CASE Announces
  <2>1. task' \in [Background -> Place] /\ task'["groups"] # "creating"
    BY <1>2, <1>7 DEF Announces
  <2> QED BY <1>7, <2>1, Unscheduled DEF Announces, scheduleVars, DistanceInv
<1>8. CASE AnnouncementFails
  <2>1. owed' \in Nat /\ owed' <= Never
    BY <1>8 DEF AnnouncementFails, DistanceInv
  <2> QED BY <1>8, <2>1, BackoffKeeps DEF AnnouncementFails
<1>9. CASE AddedAgain
  BY <1>9, BackoffAssumption DEF AddedAgain, taskVars, DistanceInv, At
<1>10. CASE LimitChanges \/ Floods
  BY <1>10, Unscheduled DEF LimitChanges, Floods, taskVars, DistanceInv
<1>11. CASE TimePasses
  <2>1. next' = Sooner(next) /\ owed' = Sooner(owed)
        /\ UNCHANGED <<task, delay, limit, order, excused>>
    BY <1>11 DEF TimePasses, taskVars
  <2>2. next' \in Nat /\ owed' \in Nat /\ owed' <= owed
    BY <2>1, SoonerTyped DEF DistanceInv
  <2>3. OnTime(owed, next) => OnTime(owed', next')
    BY <2>1, SoonerOnTime DEF DistanceInv
  <2>4. owed' <= Never
    BY <2>2, NeverAssumption DEF DistanceInv
  <2>5. ASSUME NEW v \in Variation, owed <= v PROVE owed' <= v
    <3>1. v \in Nat
      BY Varied
    <3> QED BY <2>2, <2>5, <3>1 DEF DistanceInv
  <2> QED BY <2>1, <2>2, <2>3, <2>4, <2>5 DEF DistanceInv, At
<1> QED BY <1>3, <1>4, <1>5, <1>6, <1>7, <1>8, <1>9, <1>10, <1>11 DEF GroupStep

LEMMA DistanceKept ==
    ASSUME DistanceInv, [Next]_vars
    PROVE  DistanceInv'
<1>1. ASSUME UNCHANGED scheduleVars, task' \in [Background -> Place],
             task'["groups"] = "creating" => task["groups"] = "creating"
      PROVE  DistanceInv'
  BY <1>1, Unscheduled DEF scheduleVars, DistanceInv
<1>2. ASSUME UNCHANGED scheduleVars, UNCHANGED task PROVE DistanceInv'
  BY <1>1, <1>2 DEF DistanceInv
<1>3. CASE ConnectionStep
  <2>1. CASE Connects
    BY <1>1, <1>3, <2>1 DEF ConnectionStep, Connects, Disconnects, Place, Background
  <2>2. CASE Disconnects /\ GroupsStop
    <3>1. task' \in [Background -> Place] /\ task'["groups"] = "off"
      BY <2>2 DEF Disconnects, Place, Background
    <3>2. /\ owed' \in Nat /\ owed' <= Never
          /\ excused' \/ UNCHANGED <<owed, excused>>
      BY <2>2, UnansweredExcuses DEF GroupsStop, DistanceInv
    <3> QED BY <2>2, <3>1, <3>2 DEF GroupsStop, DistanceInv, At
  <2> QED BY <1>3, <2>1, <2>2 DEF ConnectionStep
<1>4. ASSUME NEW p \in Background, Loops(p) PROVE DistanceInv'
  <2>1. \E place \in Place \ {"creating"}, q \in Background :
          task' = [task EXCEPT ![q] = place]
    BY <1>4 DEF Loops, Wakes, Watches, MonitorWatches, MonitorFetches, MonitorCaughtUp, Goes,
                Place, Background, Watcher
  <2>2. /\ task' \in [Background -> Place]
        /\ task'["groups"] = "creating" => task["groups"] = "creating"
    BY <2>1 DEF DistanceInv, Background
  <2> QED BY <1>1, <1>4, <2>2 DEF Loops
<1>5. CASE CatchUpStep \/ NoticeStep \/ GuardStep
  BY <1>2, <1>5 DEF CatchUpStep, MonitorCatchesUp, NoticeStep, GuardStep, taskVars,
                    PermitHears, Blocks, SetsApproval, SetsProtection, AfkHears, SetsAway,
                    AfkHearsItself, AwayBecomes, OnlyFails
<1>6. CASE SwitchStep
  <2>1. CASE UNCHANGED scheduleVars
    BY <1>2, <1>6, <2>1 DEF SwitchStep, Subscribes, Switches, SwitchesGroups
  <2>2. CASE SwitchesGroups
    BY <2>2, BackoffAssumption DEF SwitchesGroups, Switches, DistanceInv, At
  <2> QED BY <1>6, <2>1, <2>2 DEF SwitchStep
<1>7. CASE GroupStep
  BY <1>7, GroupStepKeeps
<1>8. CASE UNCHANGED vars
  BY <1>2, <1>8 DEF vars, taskVars
<1> QED BY <1>3, <1>4, <1>5, <1>6, <1>7, <1>8 DEF Next

\* A group is asked for no earlier after the last one than the limit allows, but for the
\* variation, unless the schedule was set anew in between or a group was not counted.
THEOREM GroupsAreSpaced == Spec => []GroupsKeepTheirDistance
<1>1. DistanceInv => GroupsKeepTheirDistance
  BY DEF DistanceInv, GroupsKeepTheirDistance
<1> QED BY <1>1, DistanceInitially, DistanceKept, PTL DEF Spec
-----------------------------------------------------------------------------
(***************************************************************************)
(* Those told that the account is away.                                    *)
(***************************************************************************)
\* The list ends as the history does, for as long as it remembers.
TellsInv ==
    /\ told \in Seq(Sender) /\ log \in Seq(Sender)
    /\ \A k \in 0..MaxTold - 1 : k < Len(log) =>
          k < Len(told) /\ told[Len(told) - k] = log[Len(log) - k]
    /\ ToldOncePerAway

LEMMA NewestEnds ==
    ASSUME told \in Seq(Sender), NEW s \in Sender
    PROVE  /\ Newest(s) \in Seq(Sender) /\ Len(Newest(s)) >= 1
           /\ Len(Newest(s)) <= MaxTold
           /\ Newest(s)[Len(Newest(s))] = s
           /\ \A k \in 1..MaxTold - 1 : k - 1 < Len(told) =>
                 /\ k < Len(Newest(s))
                 /\ Newest(s)[Len(Newest(s)) - k] = told[Len(told) - (k - 1)]
<1> DEFINE t == Append(told, s)
<1>1. /\ t \in Seq(Sender) /\ Len(t) = Len(told) + 1 /\ t[Len(t)] = s
      /\ \A i \in 1..Len(told) : t[i] = told[i]
      /\ Len(told) \in Nat /\ MaxTold \in Nat /\ MaxTold >= 1
  BY ToldAssumption
<1>2. \A k \in 1..MaxTold - 1 : k - 1 < Len(told) =>
         k < Len(t) /\ t[Len(t) - k] = told[Len(told) - (k - 1)]
  <2> SUFFICES ASSUME NEW k \in 1..MaxTold - 1, k - 1 < Len(told)
               PROVE  k < Len(t) /\ t[Len(t) - k] = told[Len(told) - (k - 1)]
    OBVIOUS
  <2>1. Len(t) - k = Len(told) - (k - 1) /\ Len(told) - (k - 1) \in 1..Len(told)
    BY <1>1
  <2> QED BY <1>1, <2>1
<1>3. Newest(s) = IF Len(t) <= MaxTold THEN t
                  ELSE SubSeq(t, Len(t) - MaxTold + 1, Len(t))
  BY DEF Newest
<1> HIDE DEF t
<1>4. CASE Len(t) <= MaxTold
  <2>1. Newest(s) = t
    BY <1>3, <1>4
  <2>2. t \in Seq(Sender) /\ Len(t) >= 1 /\ t[Len(t)] = s
    BY <1>1
  <2> QED BY <1>2, <1>4, <2>1, <2>2
<1>5. CASE ~(Len(t) <= MaxTold)
  <2> DEFINE r == SubSeq(t, Len(t) - MaxTold + 1, Len(t))
  <2>1. /\ r \in Seq(Sender) /\ Len(r) = MaxTold
        /\ \A i \in 1..MaxTold : r[i] = t[Len(t) - MaxTold + i]
    BY <1>1, <1>5
  <2>2. \A k \in 0..MaxTold - 1 : r[Len(r) - k] = t[Len(t) - k]
    <3> HIDE DEF r
    <3> SUFFICES ASSUME NEW k \in 0..MaxTold - 1 PROVE r[Len(r) - k] = t[Len(t) - k]
      OBVIOUS
    <3>1. Len(r) - k \in 1..MaxTold /\ Len(t) - MaxTold + (Len(r) - k) = Len(t) - k
      BY <1>1, <2>1
    <3> QED BY <2>1, <3>1
  <2>3. Newest(s) = r
    BY <1>3, <1>5
  <2> HIDE DEF r
  <2>4. r[Len(r)] = s
    <3>1. r[Len(r) - 0] = t[Len(t) - 0]
      BY <1>1, <2>2
    <3> QED BY <1>1, <2>1, <3>1
  <2>5. \A k \in 1..MaxTold - 1 : k - 1 < Len(told) =>
           k < Len(r) /\ r[Len(r) - k] = told[Len(told) - (k - 1)]
    BY <1>1, <1>2, <2>1, <2>2
  <2> QED BY <1>1, <2>1, <2>3, <2>4, <2>5
<1> QED BY <1>4, <1>5

LEMMA TellsInitially == Init => TellsInv
BY DEF Init, GuardInit, TellsInv, ToldOncePerAway

\* A message of someone who is not on the list.
LEMMA AfkHearsKeeps ==
    ASSUME TellsInv, NEW s \in Sender, \A i \in DOMAIN told : told[i] # s,
           told' = Newest(s), log' = Append(log, s)
    PROVE  TellsInv'
<1>1. /\ told \in Seq(Sender) /\ log \in Seq(Sender) /\ Len(told) \in Nat /\ Len(log) \in Nat
      /\ MaxTold \in Nat /\ MaxTold >= 1
  BY ToldAssumption DEF TellsInv
<1>2. /\ log' \in Seq(Sender) /\ Len(log') = Len(log) + 1 /\ log'[Len(log) + 1] = s
      /\ \A i \in 1..Len(log) : log'[i] = log[i]
  BY <1>1
<1>3. told' \in Seq(Sender)
  BY <1>1, NewestEnds
<1>4. ASSUME NEW k \in 0..MaxTold - 1, k < Len(log')
      PROVE  k < Len(told') /\ told'[Len(told') - k] = log'[Len(log') - k]
  <2>1. CASE k = 0
    BY <1>1, <1>2, <2>1, NewestEnds
  <2>2. CASE k # 0
    <3>1. k \in 1..MaxTold - 1 /\ k - 1 \in 0..MaxTold - 1 /\ k - 1 < Len(log)
      BY <1>1, <1>2, <1>4, <2>2
    <3>2. k - 1 < Len(told) /\ told[Len(told) - (k - 1)] = log[Len(log) - (k - 1)]
      BY <3>1 DEF TellsInv
    <3>3. k < Len(told') /\ told'[Len(told') - k] = told[Len(told) - (k - 1)]
      BY <1>1, <3>1, <3>2, NewestEnds
    <3>4. Len(log') - k = Len(log) - (k - 1) /\ Len(log) - (k - 1) \in 1..Len(log)
      BY <1>1, <1>2, <3>1
    <3> QED BY <1>2, <3>2, <3>3, <3>4
  <2> QED BY <2>1, <2>2
<1>5. ASSUME NEW i \in 1..Len(log), log[i] = s PROVE Len(log) + 1 - i > MaxTold
  <2> SUFFICES ASSUME ~(Len(log) + 1 - i > MaxTold) PROVE FALSE
    OBVIOUS
  <2> DEFINE k == Len(log) - i
  <2>1. k \in 0..MaxTold - 1 /\ k < Len(log) /\ Len(log) - k = i
    BY <1>1
  <2>2. k < Len(told) /\ told[Len(told) - k] = log[i]
    BY <2>1 DEF TellsInv
  <2>3. Len(told) - k \in DOMAIN told
    BY <1>1, <2>1, <2>2
  <2> QED BY <1>5, <2>2, <2>3
<1>6. ToldOncePerAway'
  <2> SUFFICES ASSUME NEW i \in DOMAIN log', NEW j \in DOMAIN log', i < j, log'[i] = log'[j]
               PROVE  j - i > MaxTold
    BY DEF ToldOncePerAway
  <2>1. i \in 1..Len(log) /\ j \in 1..Len(log) + 1
    BY <1>1, <1>2
  <2>2. CASE j \in 1..Len(log)
    BY <1>1, <1>2, <2>1, <2>2 DEF TellsInv, ToldOncePerAway
  <2>3. CASE j = Len(log) + 1
    BY <1>2, <1>5, <2>1, <2>3
  <2> QED BY <1>1, <2>1, <2>2, <2>3
<1> QED BY <1>2, <1>3, <1>4, <1>6 DEF TellsInv

LEMMA TellsKept ==
    ASSUME TellsInv, [Next]_vars
    PROVE  TellsInv'
<1>1. ASSUME UNCHANGED <<told, log>> PROVE TellsInv'
  BY <1>1 DEF TellsInv, ToldOncePerAway
<1>2. ASSUME log' = <<>>, told' \in Seq(Sender) PROVE TellsInv'
  BY <1>2 DEF TellsInv, ToldOncePerAway
<1>3. CASE GuardStep
  <2>1. ASSUME NEW s \in Sender, AfkHears(s) PROVE TellsInv'
    <3>1. CASE told' = <<s>> /\ log' = <<s>>
      BY <3>1 DEF TellsInv, ToldOncePerAway
    <3> QED BY <2>1, <3>1, AfkHearsKeeps DEF AfkHears
  <2>2. ASSUME NEW value, AwayBecomes(value) PROVE TellsInv'
    <3>1. log' = <<>> /\ (told' = <<>> \/ told' = told)
      BY <2>2 DEF AwayBecomes
    <3>2. told \in Seq(Sender) /\ <<>> \in Seq(Sender)
      BY DEF TellsInv
    <3>3. told' \in Seq(Sender)
      BY <3>1, <3>2
    <3> QED BY <1>2, <3>1, <3>3
  <2> QED BY <1>1, <1>3, <2>1, <2>2 DEF GuardStep, PermitHears, Blocks, SetsApproval,
                                       SetsProtection, SetsAway, AfkHearsItself, afkVars
<1>4. CASE ~GuardStep
  BY <1>1, <1>4 DEF Next, vars, guardVars, afkVars, ConnectionStep, Loops, CatchUpStep,
                    SwitchStep, NoticeStep, GroupStep
<1> QED BY <1>3, <1>4

\* Whoever is told again was pushed off the list by as many others as it holds, whatever
\* its length.
THEOREM TellsOnce == Spec => []ToldOncePerAway
<1>1. TellsInv => ToldOncePerAway
  BY DEF TellsInv
<1> QED BY <1>1, TellsInitially, TellsKept, PTL DEF Spec
-----------------------------------------------------------------------------
(***************************************************************************)
(* Types; the handlers are the hard part.                                  *)
(***************************************************************************)
\* Each handler is attached once.
Distinct(s) == \A i, j \in DOMAIN s : s[i] = s[j] => i = j

In(q, s) == \E i \in DOMAIN s : s[i] = q

LEMMA OneLess ==
    ASSUME NEW s \in Seq(Watcher), Distinct(s), NEW k \in 1..Len(s),
           NEW t, t = RemoveAt(s, k)
    PROVE  t \in Seq(Watcher) /\ Distinct(t) /\ \A q : In(q, t) <=> q # s[k] /\ In(q, s)
<1> DEFINE a == SubSeq(s, 1, k - 1)
           b == SubSeq(s, k + 1, Len(s))
<1>1. Len(s) \in Nat /\ DOMAIN s = 1..Len(s) /\ k \in Nat /\ k <= Len(s) /\ k >= 1
  OBVIOUS
<1>2. a \in Seq(Watcher) /\ Len(a) = k - 1 /\ \A i \in 1..k - 1 : a[i] = s[i]
  BY <1>1
<1>3. b \in Seq(Watcher) /\ Len(b) = Len(s) - k /\ \A i \in 1..Len(s) - k : b[i] = s[k + i]
  <2> DEFINE m == k + 1
             n == Len(s)
  <2>0. \A i \in m..n : i \in 1..Len(s)
    BY <1>1
  <2>6. \A i \in m..n : s[i] \in Watcher
    BY <1>1, <2>0
  <2>1. /\ m \in Int /\ n \in Int /\ n - m + 1 = Len(s) - k
        /\ ~(m <= n) => Len(s) - k = 0
    <3>1. m \in Int /\ n \in Int
      BY <1>1
    <3>2. n - m + 1 = Len(s) - k
      BY <1>1
    <3>3. ASSUME ~(m <= n) PROVE Len(s) - k = 0
      <4>1. \A y, z \in Nat : z <= y /\ ~(z + 1 <= y) => y - z = 0
        OBVIOUS
      <4> QED BY <1>1, <3>3, <4>1
    <3> QED BY <3>1, <3>2, <3>3
  <2>5. \A i \in 1..Len(s) - k : m + i - 1 = k + i
    BY <1>1
  <2> HIDE DEF m, n
  <2>2. /\ SubSeq(s, m, n) \in Seq(Watcher)
        /\ Len(SubSeq(s, m, n)) = IF m <= n THEN n - m + 1 ELSE 0
        /\ \A i \in 1..n - m + 1 : SubSeq(s, m, n)[i] = s[m + i - 1]
    BY <2>1, <2>6, SubSeqProperties
  <2>3. b = SubSeq(s, m, n)
    BY DEF m, n
  <2>4. Len(b) = Len(s) - k
    BY <2>1, <2>2, <2>3
  <2> QED BY <2>1, <2>2, <2>3, <2>4, <2>5
<1>4. t = a \o b
  BY DEF RemoveAt
<1> HIDE DEF a, b
<1>5. t \in Seq(Watcher) /\ Len(t) = Len(s) - 1
  <2>1. t \in Seq(Watcher) /\ Len(t) = Len(a) + Len(b)
    BY <1>2, <1>3, <1>4, ConcatProperties
  <2> QED BY <1>1, <1>2, <1>3, <2>1
<1>6. DOMAIN t = 1..Len(s) - 1
  BY <1>5
<1>7. ASSUME NEW i \in 1..Len(s) - 1 PROVE t[i] = s[IF i < k THEN i ELSE i + 1]
  <2>1. CASE i < k
    <3>1. i \in 1..Len(a)
      BY <1>1, <1>2, <2>1
    <3>2. t[i] = a[i]
      BY <1>2, <1>3, <1>4, <3>1
    <3> QED BY <1>2, <2>1, <3>1, <3>2
  <2>2. CASE ~(i < k)
    <3>1. i \in Len(a) + 1 .. Len(a) + Len(b) /\ i - Len(a) \in 1..Len(s) - k
          /\ k + (i - Len(a)) = i + 1
      BY <1>1, <1>2, <1>3, <2>2
    <3>2. t[i] = b[i - Len(a)]
      BY <1>2, <1>3, <1>4, <3>1
    <3> QED BY <1>3, <2>2, <3>1, <3>2
  <2> QED BY <2>1, <2>2
<1>8. Distinct(t)
  BY <1>1, <1>6, <1>7 DEF Distinct
<1>9. ASSUME NEW i \in DOMAIN t PROVE t[i] # s[k] /\ \E j \in DOMAIN s : s[j] = t[i]
  <2> DEFINE j == IF i < k THEN i ELSE i + 1
  <2>1. j \in DOMAIN s /\ j # k
    BY <1>1, <1>6
  <2> QED BY <1>6, <1>7, <2>1 DEF Distinct
<1>10. ASSUME NEW i \in DOMAIN s, i # k PROVE \E j \in DOMAIN t : t[j] = s[i]
  <2> DEFINE j == IF i < k THEN i ELSE i - 1
  <2>1. j \in 1..Len(s) - 1 /\ i = IF j < k THEN j ELSE j + 1
    BY <1>1, <1>10
  <2>2. t[j] = s[i]
    BY <1>7, <2>1
  <2> QED BY <1>6, <2>1, <2>2
<1> QED BY <1>5, <1>8, <1>9, <1>10 DEF In

\* Without removes the handler of a plugin and no other.
LEMMA WithoutRemoves ==
    ASSUME attached \in Seq(Watcher), Distinct(attached), NEW p \in Watcher
    PROVE  /\ Without(p) \in Seq(Watcher) /\ Distinct(Without(p))
           /\ \A q : In(q, Without(p)) <=> q # p /\ In(q, attached)
<1>1. CASE Attached(p)
  <2> DEFINE I == {i \in 1..Len(attached) : attached[i] = p}
             n == SelectInSeq(attached, LAMBDA v : v = p)
  <2>1. PICK k \in 1..Len(attached) : attached[k] = p
    BY <1>1 DEF Attached
  <2>2. I = {k} /\ k \in Nat
    BY <2>1 DEF Distinct
  <2>3. n = k
    <3>1. n = Min(I)
      BY <2>2 DEF SelectInSeq
    <3>2. k \in I /\ \A y \in I : k <= y
      BY <2>2
    <3>3. \A x \in I : x = k
      BY <2>2
    <3> HIDE DEF I, n
    <3> QED BY <3>1, <3>2, <3>3 DEF Min
  <2>4. Without(p) = RemoveAt(attached, k)
    <3>1. Without(p) = RemoveAt(attached, n)
      BY <2>1 DEF Without, RemoveFirst
    <3> QED BY <2>3, <3>1
  <2> HIDE DEF I, n
  <2> DEFINE t == RemoveAt(attached, k)
  <2> HIDE DEF t
  <2>5. /\ t \in Seq(Watcher) /\ Distinct(t)
        /\ \A q : In(q, t) <=> q # attached[k] /\ In(q, attached)
    <3>1. attached \in Seq(Watcher) /\ Distinct(attached) /\ t = RemoveAt(attached, k)
      BY DEF t
    <3>2. k \in 1..Len(attached)
      OBVIOUS
    <3> QED BY <3>1, <3>2, OneLess, Zenon
  <2>6. Without(p) = t
    BY <2>4 DEF t
  <2> QED BY <2>1, <2>5, <2>6
<1>2. CASE ~Attached(p)
  <2>0. ~ \E i \in 1..Len(attached) : attached[i] = p
    BY <1>2 DEF Attached
  <2>1. Without(p) = attached
    BY <1>2 DEF Without, RemoveFirst, Attached
  <2> QED BY <1>2, <2>1 DEF Attached, In
<1> QED BY <1>1, <1>2

\* Attaching a handler adds it to the others.
LEMMA AppendAdds ==
    ASSUME attached \in Seq(Watcher), Distinct(attached), NEW p \in Watcher, ~Attached(p)
    PROVE  /\ Append(attached, p) \in Seq(Watcher) /\ Distinct(Append(attached, p))
           /\ \A q : In(q, Append(attached, p)) <=> q = p \/ In(q, attached)
<1> DEFINE t == Append(attached, p)
<1>1. /\ t \in Seq(Watcher) /\ DOMAIN t = 1..Len(attached) + 1 /\ Len(attached) \in Nat
      /\ DOMAIN attached = 1..Len(attached)
      /\ t[Len(attached) + 1] = p /\ \A i \in 1..Len(attached) : t[i] = attached[i]
  OBVIOUS
<1> HIDE DEF t
<1>2. Distinct(t)
  BY <1>1 DEF Distinct, Attached
<1>3. \A q : In(q, t) <=> q = p \/ In(q, attached)
  BY <1>1 DEF In
<1> QED BY <1>1, <1>2, <1>3 DEF t

LEMMA FailsBounded == ASSUME TaskTypeOK, UNCHANGED fails \/ DbFails PROVE fails' \in 0..MaxFails
BY MaxFailsAssumption DEF TaskTypeOK, DbFails

\* A task that runs goes on, and its plugin may attach or remove a handler.
LEMMA GoesOn ==
    ASSUME TaskTypeOK, NEW p \in Background, ~At(p, "off"),
           NEW place \in Place \ {"off"}, Goes(p, place), UNCHANGED <<on, subscribed, serving>>,
           attached' \in Seq(Watcher), Distinct(attached'), UNCHANGED fails \/ DbFails
    PROVE  TaskTypeOK'
<1>1. serving /\ fails' \in 0..MaxFails
  BY FailsBounded DEF TaskTypeOK, At
<1>2. /\ task' \in [Background -> Place]
      /\ \A q \in Background : task'[q] = IF q = p THEN place ELSE task[q]
  BY DEF TaskTypeOK, Goes
<1>3. \A q \in Background : task'[q] = "off" <=> ~serving'
  BY <1>1, <1>2 DEF TaskTypeOK
<1> QED BY <1>1, <1>2, <1>3 DEF TaskTypeOK, Distinct

LEMMA TaskTypesInitially == Init => TaskTypeOK
<1> SUFFICES ASSUME Init PROVE TaskTypeOK
  OBVIOUS
<1>1. /\ on \subseteq Background /\ subscribed \in BOOLEAN /\ serving = FALSE
      /\ task = [p \in Background |-> "off"] /\ attached = <<>> /\ fails = 0
  BY DEF Init, TaskInit, Background, Watcher
<1>2. fails \in 0..MaxFails
  BY <1>1, MaxFailsAssumption
<1>3. attached \in Seq(Watcher) /\ \A i, j \in DOMAIN attached : attached[i] = attached[j] => i = j
  BY <1>1
<1> QED BY <1>1, <1>2, <1>3 DEF TaskTypeOK, Place

\* One turn of the loop of a plugin that watches its switch, up to where its task goes
LEMMA TurnAttaches ==
    ASSUME TaskTypeOK, NEW p \in Watcher,
           attached' \in {attached, Without(p)} \/ (attached' = Append(attached, p) /\ ~Attached(p))
    PROVE  /\ attached' \in Seq(Watcher) /\ Distinct(attached')
           /\ \A q : q # p => (In(q, attached') <=> In(q, attached))
<1>1. attached \in Seq(Watcher) /\ Distinct(attached)
  BY DEF TaskTypeOK, Distinct
<1>2. CASE attached' = Without(p)
  BY <1>1, <1>2, WithoutRemoves
<1>3. CASE attached' = Append(attached, p) /\ ~Attached(p)
  BY <1>1, <1>3, AppendAdds
<1> QED BY <1>1, <1>2, <1>3

LEMMA TaskTypesKept ==
    ASSUME TaskTypeOK, [Next]_vars
    PROVE  TaskTypeOK'
<1>0. attached \in Seq(Watcher) /\ Distinct(attached) /\ Watcher \subseteq Background
  BY DEF TaskTypeOK, Distinct, Background
<1>1. ASSUME OnlyFails, UNCHANGED fails \/ DbFails PROVE TaskTypeOK'
  <2>1. fails' \in 0..MaxFails
    BY <1>1, FailsBounded
  <2> QED BY <1>1, <2>1 DEF OnlyFails, TaskTypeOK
<1>2. CASE UNCHANGED taskVars
  BY <1>1, <1>2 DEF taskVars, OnlyFails
<1>3. CASE ConnectionStep
  <2>1. CASE Connects
    <3>1. task' \in [Background -> Place] /\ \A p \in Background : task'[p] = "awake"
      BY <2>1 DEF Connects, Place
    <3> QED BY <2>1, <3>1 DEF Connects, TaskTypeOK
  <2>2. CASE Disconnects
    <3>1. task' \in [Background -> Place] /\ \A p \in Background : task'[p] = "off"
      BY <2>2 DEF Disconnects, Place
    <3>2. attached' \in Seq(Watcher) /\ Distinct(attached')
      BY <2>2 DEF Disconnects, Distinct
    <3> QED BY <2>2, <3>1, <3>2 DEF Disconnects, TaskTypeOK, Distinct
  <2> QED BY <1>3, <2>1, <2>2 DEF ConnectionStep
<1>4. ASSUME NEW p \in Background, Loops(p) PROVE TaskTypeOK'
  <2>1. CASE Wakes(p)
    BY <1>0, <2>1, GoesOn DEF Wakes, At, Place
  <2>2. CASE Watches(p)
    <3>1. /\ p \in Watcher
          /\ attached' \in {attached, Without(p)} \/ (attached' = Append(attached, p) /\ ~Attached(p))
      BY <2>2 DEF Watches, Watcher
    <3>2. attached' \in Seq(Watcher) /\ Distinct(attached')
      BY <2>2, <3>1, TurnAttaches DEF Watches, Watcher
    <3> QED BY <2>2, <3>2, GoesOn DEF Watches, Finds, Reads, At, Place
  <2>3. CASE MonitorWatches
    <3>1. /\ "codemon" \in Watcher
          /\ \/ attached' \in {attached, Without("codemon")}
             \/ attached' = Append(attached, "codemon") /\ ~Attached("codemon")
      BY <2>3 DEF MonitorWatches, Watcher
    <3>2. attached' \in Seq(Watcher) /\ Distinct(attached')
      BY <3>1, TurnAttaches
    <3>3. \E place \in {"fetching", "asleep"} : Goes("codemon", place)
      BY <2>3 DEF MonitorWatches
    <3> QED BY <1>0, <2>3, <3>1, <3>2, <3>3, GoesOn DEF MonitorWatches, Finds, Reads, At, Place
  <2>4. CASE MonitorFetches \/ MonitorCaughtUp
    <3>1. "codemon" \in Background /\ \E place \in {"catching", "asleep"} : Goes("codemon", place)
      BY <2>4 DEF MonitorFetches, MonitorCaughtUp, Background, Watcher
    <3> QED BY <1>0, <2>4, <3>1, GoesOn DEF MonitorFetches, MonitorCaughtUp, At, Place
  <2> QED BY <1>4, <2>1, <2>2, <2>3, <2>4 DEF Loops
<1>5. CASE CatchUpStep \/ NoticeStep
  BY <1>2, <1>5 DEF CatchUpStep, MonitorCatchesUp, NoticeStep
<1>6. CASE SwitchStep
  <2>1. ASSUME on' \subseteq Background, subscribed' \in BOOLEAN,
               UNCHANGED <<serving, task, attached, fails>>
        PROVE  TaskTypeOK'
    BY <2>1 DEF TaskTypeOK
  <2>2. "groups" \in Background /\ on \subseteq Background /\ subscribed \in BOOLEAN
    BY DEF Background, TaskTypeOK
  <2> QED BY <1>0, <1>6, <2>1, <2>2 DEF SwitchStep, Subscribes, Switches, SwitchesGroups
<1>7. CASE GroupStep
  <2>1. "groups" \in Background
    BY DEF Background
  <2>2. ASSUME NEW place \in {"asleep", "pausing", "announcing", "creating"},
               GroupsTo(place), ~At("groups", "off"), UNCHANGED fails \/ DbFails
        PROVE  TaskTypeOK'
    BY <1>0, <2>1, <2>2, GoesOn DEF GroupsTo, Place
  <2>3. CASE Looks \/ LooksAgain
    <3>1. \E place \in {"asleep", "pausing", "creating"} : GroupsTo(place)
      BY <2>3 DEF Looks, LooksAgain
    <3> QED BY <2>2, <2>3, <3>1 DEF Looks, LooksAgain, Reads, At
  <2>4. CASE Creates \/ CreationFails \/ Announces \/ AnnouncementFails
    <3>1. \E place \in {"asleep", "announcing"} : GroupsTo(place)
      BY <2>4 DEF Creates, CreationFails, Announces, AnnouncementFails
    <3> QED BY <2>2, <2>4, <3>1 DEF Creates, CreationFails, Announces, AnnouncementFails,
                                    Backoff, At
  <2> QED BY <1>2, <1>7, <2>3, <2>4 DEF GroupStep, AddedAgain, LimitChanges, Floods, TimePasses
<1>8. CASE GuardStep
  <2>1. \/ UNCHANGED taskVars
        \/ OnlyFails /\ (UNCHANGED fails \/ DbFails)
    BY <1>8 DEF GuardStep, PermitHears, Blocks, SetsApproval, SetsProtection, AfkHears,
                SetsAway, AfkHearsItself, AwayBecomes
  <2> QED BY <1>1, <1>2, <2>1
<1>9. CASE UNCHANGED vars
  BY <1>2, <1>9 DEF vars
<1> QED BY <1>3, <1>4, <1>5, <1>6, <1>7, <1>8, <1>9 DEF Next

LEMMA AlertTypesInitially == Init => AlertTypeOK
<1> SUFFICES ASSUME Init PROVE AlertTypeOK
  OBVIOUS
<1>1. age = [m \in Notice |-> "none"] /\ seen = [x \in Process |-> {}]
      /\ newer = [m \in Notice |-> 0] /\ 0 \in 0..CatchUpLimit
      /\ todo = [r \in Runner |-> {}]
      /\ alerts = [x \in Process |-> [m \in Notice |-> 0]]
  BY CatchUpAssumption DEF Init, AlertInit
<1>2. /\ age \in [Notice -> {"none", "recent", "old"}] /\ seen \in [Process -> SUBSET Notice]
      /\ newer \in [Notice -> 0..CatchUpLimit] /\ todo \in [Runner -> SUBSET Notice]
  BY <1>1
<1>3. alerts \in [Process -> [Notice -> 0..2]]
  BY <1>1
<1> QED BY <1>2, <1>3, ProcessAssumption DEF Init, AlertInit, AlertTypeOK

\* Handling a notice
LEMMA HandlesTyped ==
    ASSUME AlertTypeOK, NEW x \in Process, NEW m \in Notice, Handles(x, m)
    PROVE  seen' \in [Process -> SUBSET Notice] /\ alerts' \in [Process -> [Notice -> 0..2]]
<1>1. seen' \in [Process -> SUBSET Notice]
  BY DEF Handles, AlertTypeOK
<1>2. \/ UNCHANGED alerts
      \/ alerts[x][m] # 2 /\ alerts' = [alerts EXCEPT ![x][m] = @ + 1]
  BY DEF Handles
<1>3. alerts[x][m] \in 0..2
  BY DEF AlertTypeOK
<1>4. ASSUME alerts[x][m] # 2 PROVE alerts[x][m] + 1 \in 0..2
  BY <1>3, <1>4
<1>5. alerts' \in [Process -> [Notice -> 0..2]]
  <2> DEFINE S == 0..2
  <2>1. alerts[x][m] # 2 => alerts[x][m] + 1 \in S
    BY <1>4
  <2>2. alerts \in [Process -> [Notice -> S]]
    BY DEF AlertTypeOK
  <2> HIDE DEF S
  <2>3. alerts' \in [Process -> [Notice -> S]]
    BY <1>2, <2>1, <2>2
  <2> QED BY <2>3 DEF S
<1> QED BY <1>1, <1>5

\* A message behind others
LEMMA FollowsTyped ==
    ASSUME AlertTypeOK, Follows
    PROVE  newer' \in [Notice -> 0..CatchUpLimit]
<1> DEFINE S == 0..CatchUpLimit
<1>1. ASSUME NEW n \in S, n < CatchUpLimit PROVE n + 1 \in S
  BY <1>1, CatchUpAssumption
<1>2. newer \in [Notice -> S]
  BY DEF AlertTypeOK
<1> HIDE DEF S
<1>3. newer' \in [Notice -> S]
  BY <1>1, <1>2 DEF Follows
<1> QED BY <1>3 DEF S

LEMMA AlertTypesKept ==
    ASSUME AlertTypeOK, [Next]_vars
    PROVE  AlertTypeOK'
<1> USE DEF AlertTypeOK
<1>1. CASE UNCHANGED alertVars
  BY <1>1 DEF alertVars
<1>2. "codemon" \in Runner /\ "explorer" \in Runner /\ Recent \subseteq Notice
      /\ Found \subseteq Notice
  BY DEF Runner, Recent, Found
<1>3. ASSUME NEW r \in Runner, NEW m \in Notice, CatchesUp(r, m) PROVE AlertTypeOK'
  <2>1. ProcessOf(r) \in Process
    BY ProcessAssumption DEF ProcessOf
  <2>2. seen' \in [Process -> SUBSET Notice] /\ alerts' \in [Process -> [Notice -> 0..2]]
    BY <1>3, <2>1, HandlesTyped DEF CatchesUp
  <2> QED BY <1>3, <2>2 DEF CatchesUp, Rest
<1>4. CASE ConnectionStep
  <2>1. CASE MonitorStops
    BY <2>1 DEF MonitorStops
  <2>2. CASE WorkerForgets
    <3>1. PICK kept \in SUBSET seen["worker"] :
            /\ seen' = [seen EXCEPT !["worker"] = kept]
            /\ alerts' = [alerts EXCEPT !["worker"] =
                            [m \in Notice |-> IF m \in kept THEN alerts["worker"][m] ELSE 0]]
      BY <2>2 DEF WorkerForgets
    <3>2. seen' \in [Process -> SUBSET Notice] /\ alerts' \in [Process -> [Notice -> 0..2]]
      BY <3>1, ProcessAssumption
    <3>3. todo' \in [Runner -> SUBSET Notice] /\ exploring' \in BOOLEAN
      BY <2>2 DEF WorkerForgets
    <3> QED BY <2>2, <3>2, <3>3 DEF WorkerForgets
  <2> QED BY <1>1, <1>4, <2>1, <2>2 DEF ConnectionStep
<1>5. ASSUME NEW p \in Background, Loops(p) PROVE AlertTypeOK'
  <2>1. CASE MonitorFetches
    BY <1>2, <2>1 DEF MonitorFetches, Fetches
  <2>2. CASE MonitorCaughtUp
    BY <1>2, <2>2 DEF MonitorCaughtUp, CatchUpEnds, CatchUpFails
  <2> QED BY <1>1, <1>5, <2>1, <2>2 DEF Loops
<1>6. CASE CatchUpStep
  BY <1>2, <1>3, <1>6 DEF CatchUpStep, MonitorCatchesUp
<1>7. CASE NoticeStep
  <2>1. ASSUME NEW m \in Notice, NoticeArrives(m) PROVE AlertTypeOK'
    <3>1. seen' \in [Process -> SUBSET Notice] /\ alerts' \in [Process -> [Notice -> 0..2]]
      BY <2>1, HandlesTyped, ProcessAssumption DEF NoticeArrives
    <3>2. newer' \in [Notice -> 0..CatchUpLimit]
      BY <2>1, FollowsTyped DEF NoticeArrives
    <3> QED BY <2>1, <3>1, <3>2 DEF NoticeArrives
  <2>2. ASSUME NEW m \in Notice, NoticeEdited(m) PROVE AlertTypeOK'
    BY <2>2, HandlesTyped, ProcessAssumption DEF NoticeEdited
  <2>3. ASSUME NEW m \in Notice, Ages(m) PROVE AlertTypeOK'
    <3>1. 0 \in 0..CatchUpLimit
      BY CatchUpAssumption
    <3> QED BY <2>3, <3>1 DEF Ages
  <2>4. ASSUME NEW x \in Process, Prunes(x) PROVE AlertTypeOK'
    BY <2>4 DEF Prunes
  <2>5. CASE Explores \/ ExplorerEnds
    BY <1>2, <2>5, ProcessAssumption DEF Explores, ExplorerEnds, Fetches, CatchUpEnds, CatchUpFails
  <2>6. ASSUME NEW m \in Notice, CatchesUp("explorer", m) PROVE AlertTypeOK'
    BY <1>2, <1>3, <2>6
  <2>7. CASE OtherArrives
    BY <2>7, FollowsTyped DEF OtherArrives
  <2> QED BY <1>7, <2>1, <2>2, <2>3, <2>4, <2>5, <2>6, <2>7 DEF NoticeStep
<1>8. CASE SwitchStep \/ GroupStep \/ GuardStep
  BY <1>1, <1>8 DEF SwitchStep, GroupStep, GuardStep
<1>9. CASE UNCHANGED vars
  BY <1>1, <1>9 DEF vars
<1> QED BY <1>4, <1>5, <1>6, <1>7, <1>8, <1>9 DEF Next

LEMMA FirstDelayTyped == FirstDelay \in FirstDelay..MaxDelay
BY BackoffAssumption

LEMMA ScheduleTypesInitially == Init => ScheduleTypeOK
<1> SUFFICES ASSUME Init PROVE ScheduleTypeOK
  OBVIOUS
<1>1. /\ next \in Nat /\ limit \in Limits /\ order \in Limits /\ owed \in Nat
      /\ flooded \in BOOLEAN /\ invalid \in BOOLEAN /\ excused \in BOOLEAN
  BY DEF Init, ScheduleInit
<1>2. delay \in FirstDelay..MaxDelay
  BY FirstDelayTyped DEF Init, ScheduleInit
<1> QED BY <1>1, <1>2 DEF ScheduleTypeOK

LEMMA BackoffTyped ==
    ASSUME ScheduleTypeOK, Backoff
    PROVE  next' \in Nat /\ delay' \in FirstDelay..MaxDelay /\ invalid' \in BOOLEAN
<1>1. /\ MaxDelay \in Nat /\ FirstDelay \in 1..MaxDelay /\ Jitter \in Nat /\ MaxWait \in Nat
      /\ delay \in FirstDelay..MaxDelay /\ next \in Nat /\ invalid \in BOOLEAN
  BY BackoffAssumption DEF ScheduleTypeOK
<1>2. Least(2 * delay, MaxDelay) \in FirstDelay..MaxDelay
      /\ Least(delay + Jitter, MaxDelay) \in Nat /\ delay \in Nat
  BY <1>1 DEF Least
<1>3. \/ /\ next' \in delay..Least(delay + Jitter, MaxDelay) \/ next' \in 0..MaxWait
         /\ delay' = Least(2 * delay, MaxDelay) /\ invalid' \in {invalid, TRUE}
      \/ UNCHANGED <<next, delay, invalid>>
  BY DEF Backoff
<1>4. next' \in Nat
  <2>1. CASE next' \in delay..Least(delay + Jitter, MaxDelay)
    BY <1>1, <1>2, <2>1
  <2>2. CASE next' \in 0..MaxWait
    BY <1>1, <2>2
  <2> QED BY <1>1, <1>3, <2>1, <2>2
<1>5. delay' \in FirstDelay..MaxDelay
  BY <1>1, <1>2, <1>3
<1>6. invalid' \in BOOLEAN
  BY <1>1, <1>3
<1> QED BY <1>4, <1>5, <1>6

LEMMA UnansweredTyped ==
    ASSUME ScheduleTypeOK, Unanswered
    PROVE  owed' \in Nat /\ excused' \in BOOLEAN
BY IntervalTyped DEF Unanswered, ScheduleTypeOK

LEMMA ScheduleTypesKept ==
    ASSUME ScheduleTypeOK, [Next]_vars
    PROVE  ScheduleTypeOK'
<1> USE DEF ScheduleTypeOK
<1>1. CASE UNCHANGED scheduleVars
  BY <1>1 DEF scheduleVars
<1>2. FirstDelay \in FirstDelay..MaxDelay
  BY FirstDelayTyped
<1>3. CASE SwitchStep
  <2>1. CASE SwitchesGroups
    <3>1. /\ next' \in {next, 0} /\ delay' \in {delay, FirstDelay}
          /\ excused' \in {excused, TRUE} /\ UNCHANGED <<limit, order, flooded, invalid, owed>>
      BY <2>1 DEF SwitchesGroups
    <3>2. delay' \in FirstDelay..MaxDelay
      BY <1>2, <3>1 DEF ScheduleTypeOK
    <3>3. next' \in Nat /\ owed' \in Nat
      BY <3>1 DEF ScheduleTypeOK
    <3>4. /\ limit' \in Limits /\ order' \in Limits
          /\ flooded' \in BOOLEAN /\ invalid' \in BOOLEAN /\ excused' \in BOOLEAN
      BY <3>1 DEF ScheduleTypeOK
    <3> HIDE DEF ScheduleTypeOK
    <3> QED BY <3>2, <3>3, <3>4 DEF ScheduleTypeOK
  <2> QED BY <1>1, <1>3, <2>1 DEF SwitchStep
<1>4. CASE GroupStep
  <2>1. CASE Looks \/ Announces
    BY <1>1, <2>1 DEF Looks, Announces
  <2>2. CASE LooksAgain
    BY <2>2 DEF LooksAgain
  <2>3. CASE Creates
    <3>1. Interval(order) \in Nat /\ (next' \in NextTimes(order) => next' \in Nat)
      BY IntervalTyped, NextTimesOnTime
    <3> QED BY <1>2, <2>3, <3>1 DEF Creates
  <2>4. CASE CreationFails \/ AnnouncementFails
    BY <2>4, BackoffTyped, UnansweredTyped DEF CreationFails, AnnouncementFails
  <2>5. CASE AddedAgain
    BY <1>2, <2>5 DEF AddedAgain
  <2>6. CASE LimitChanges \/ Floods
    BY <2>6 DEF LimitChanges, Floods
  <2>7. CASE TimePasses
    BY <2>7, SoonerTyped DEF TimePasses
  <2> QED BY <1>4, <2>1, <2>2, <2>3, <2>4, <2>5, <2>6, <2>7 DEF GroupStep
<1>5. CASE ConnectionStep
  <2>1. CASE GroupsStop
    BY <2>1, UnansweredTyped DEF GroupsStop
  <2> QED BY <1>1, <1>5, <2>1 DEF ConnectionStep
<1>6. CASE ~SwitchStep /\ ~GroupStep /\ ~ConnectionStep
  BY <1>1, <1>6 DEF Next, vars, Loops, CatchUpStep, NoticeStep, GuardStep
<1> QED BY <1>3, <1>4, <1>5, <1>6

LEMMA GuardTypesInitially == Init => GuardTypeOK
<1> SUFFICES ASSUME Init PROVE GuardTypeOK
  OBVIOUS
<1>1. NewRow \in Row
  BY DEF NewRow, Row
<1>2. /\ protect = FALSE /\ warnLimit = DefaultLimit /\ permit = [s \in Sender |-> NewRow]
      /\ queued = {} /\ barred = {} /\ warned = [s \in Sender |-> 0]
      /\ away = FALSE /\ told = <<>> /\ log = <<>>
  BY DEF Init, GuardInit
<1>3. permit \in [Sender -> Row] /\ warned \in [Sender -> Nat] /\ warnLimit \in WarnLimits
  BY <1>1, <1>2, LimitAssumption
<1>4. <<>> \in Seq(Sender) /\ Len(<<>>) = 0 /\ 0 <= MaxTold /\ 0 <= MaxLog
  BY ToldAssumption
<1> QED BY <1>2, <1>3, <1>4 DEF GuardTypeOK

LEMMA JudgesTyped ==
    ASSUME GuardTypeOK, NEW s \in Sender, NEW row \in Row, NEW most \in Nat, Judges(s, row, most)
    PROVE  /\ permit' \in [Sender -> Row] /\ queued' \subseteq Sender
           /\ warned' \in [Sender -> Nat]
<1> DEFINE n == row.warnings + 1
           r == [approved |-> FALSE, warnings |-> n, blocked |-> n >= most]
<1>1. r \in Row
  BY DEF Row
<1>2. permit' = [permit EXCEPT ![s] = r]
  BY DEF Judges
<1> HIDE DEF r
<1>3. permit' \in [Sender -> Row]
  BY <1>1, <1>2 DEF GuardTypeOK
<1> QED BY <1>3 DEF Judges, GuardTypeOK

LEMMA GuardTypesKept ==
    ASSUME GuardTypeOK, [Next]_vars
    PROVE  GuardTypeOK'
<1>1. CASE UNCHANGED guardVars
  BY <1>1 DEF guardVars, permitVars, afkVars, GuardTypeOK
<1>2. CASE GuardStep
  <2>1. ASSUME NEW s \in Sender, PermitHears(s) PROVE GuardTypeOK'
    <3>1. permit[s] \in Row /\ NewRow \in Row /\ warnLimit \in Nat /\ DefaultLimit \in Nat
      BY LimitAssumption DEF GuardTypeOK, NewRow, Row
    <3>2. /\ permit' \in [Sender -> Row] /\ queued' \subseteq Sender
          /\ warned' \in [Sender -> Nat]
      <4>1. \/ Judges(s, NewRow, warnLimit) \/ Judges(s, permit[s], warnLimit)
            \/ Judges(s, permit[s], DefaultLimit)
        BY <2>1 DEF PermitHears
      <4> QED BY <3>1, <4>1, JudgesTyped
    <3> QED BY <2>1, <3>2 DEF PermitHears, afkVars, GuardTypeOK
  <2>2. ASSUME NEW s \in Sender, Blocks(s) PROVE GuardTypeOK'
    BY <2>2 DEF Blocks, afkVars, GuardTypeOK
  <2>3. ASSUME NEW s \in Sender, NEW approved \in BOOLEAN, SetsApproval(s, approved)
        PROVE  GuardTypeOK'
    <3> DEFINE r == [NewRow EXCEPT !.approved = approved]
    <3>1. r \in Row
      BY DEF NewRow, Row
    <3>2. permit' = [permit EXCEPT ![s] = r] /\ warned' = [warned EXCEPT ![s] = 0]
      BY <2>3 DEF SetsApproval, Decided
    <3> HIDE DEF r
    <3>3. permit' \in [Sender -> Row] /\ warned' \in [Sender -> Nat]
      BY <3>1, <3>2 DEF GuardTypeOK
    <3> QED BY <2>3, <3>3 DEF SetsApproval, afkVars, GuardTypeOK
  <2>4. CASE SetsProtection
    BY <2>4 DEF SetsProtection, afkVars, GuardTypeOK
  <2>5. ASSUME NEW s \in Sender, AfkHears(s) PROVE GuardTypeOK'
    <3>1. told' \in Seq(Sender) /\ Len(told') <= MaxTold
      <4>1. <<s>> \in Seq(Sender) /\ Len(<<s>>) <= MaxTold
        BY ToldAssumption
      <4>2. told \in Seq(Sender)
        BY DEF GuardTypeOK
      <4>3. Newest(s) \in Seq(Sender) /\ Len(Newest(s)) <= MaxTold
        BY <4>2, NewestEnds
      <4>4. told' = <<s>> \/ told' = Newest(s)
        BY <2>5 DEF AfkHears
      <4> QED BY <4>1, <4>3, <4>4
    <3>2. log' \in Seq(Sender) /\ Len(log') <= MaxLog
      <4>1. log \in Seq(Sender) /\ Len(log) < MaxLog /\ Len(log) \in Nat /\ MaxLog \in Nat
        BY <2>5, ToldAssumption DEF AfkHears, GuardTypeOK
      <4>2. log' = <<s>> \/ log' = Append(log, s)
        BY <2>5 DEF AfkHears
      <4>3. /\ <<s>> \in Seq(Sender) /\ Len(<<s>>) = 1
            /\ Append(log, s) \in Seq(Sender) /\ Len(Append(log, s)) = Len(log) + 1
        BY <4>1
      <4>4. 1 <= MaxLog /\ Len(log) + 1 <= MaxLog
        BY <4>1
      <4> QED BY <4>2, <4>3, <4>4
    <3> QED BY <2>5, <3>1, <3>2 DEF AfkHears, permitVars, GuardTypeOK
  <2>6. ASSUME NEW value \in BOOLEAN, AwayBecomes(value) PROVE GuardTypeOK'
    <3>1. <<>> \in Seq(Sender) /\ Len(<<>>) = 0 /\ 0 <= MaxTold /\ 0 <= MaxLog
      BY ToldAssumption
    <3> QED BY <2>6, <3>1 DEF AwayBecomes, permitVars, GuardTypeOK
  <2> QED BY <1>2, <2>1, <2>2, <2>3, <2>4, <2>5, <2>6 DEF GuardStep, SetsAway, AfkHearsItself
<1>3. CASE ~GuardStep
  BY <1>1, <1>3 DEF Next, vars, ConnectionStep, Loops, CatchUpStep, SwitchStep, NoticeStep,
                    GroupStep
<1> QED BY <1>2, <1>3

\* Every variable of the background keeps its type; in particular each handler is attached
\* once, and no task runs and no handler stays without a connection.
THEOREM BackgroundTypes == Spec => []TypeOK
<1>1. Init => TypeOK
  BY TaskTypesInitially, AlertTypesInitially, ScheduleTypesInitially, GuardTypesInitially
     DEF TypeOK, Init
<1>2. TypeOK /\ [Next]_vars => scene' \in Scenes
  BY DEF TypeOK, Next, vars, ConnectionStep, Loops, CatchUpStep, SwitchStep, NoticeStep,
         GroupStep, GuardStep
<1>3. TypeOK /\ [Next]_vars => TypeOK'
  BY <1>2, TaskTypesKept, AlertTypesKept, ScheduleTypesKept, GuardTypesKept DEF TypeOK
<1> QED BY <1>1, <1>3, PTL DEF Spec
-----------------------------------------------------------------------------
(***************************************************************************)
(* Notices that the code monitor has not handled.                          *)
(***************************************************************************)
\* Where notices may be that are recent and not marked.  The task attaches before it looks
\* and stays attached until the catch-up is through.
Excuses == IF At("codemon", "catching") THEN taken \cup passed \cup todo["codemon"]
                                        ELSE taken \cup passed \cup left

MonitorInv ==
    /\ TaskTypeOK /\ AlertTypeOK
    /\ At("codemon", "fetching") \/ At("codemon", "catching") => Attached("codemon")
    /\ Attached("codemon") /\ ~At("codemon", "fetching")
          => Recent \subseteq seen["worker"] \cup Excuses
    /\ At("codemon", "catching") => left = {}

LEMMA MonitorInitially == Init => MonitorInv
<1> SUFFICES ASSUME Init PROVE MonitorInv
  OBVIOUS
<1>1. TaskTypeOK /\ AlertTypeOK
  BY TaskTypesInitially, AlertTypesInitially
<1>2. ~Attached("codemon") /\ At("codemon", "off")
  BY DEF Init, TaskInit, Attached, At, Background, Watcher
<1> QED BY <1>1, <1>2 DEF MonitorInv, At

\* A step that leaves the monitor's task where it is, attaches and detaches nothing of it,
\* makes no notice recent and takes no mark and no excuse of a recent one.
LEMMA Undisturbed ==
    ASSUME MonitorInv, TaskTypeOK', AlertTypeOK',
           task'["codemon"] = task["codemon"],
           Attached("codemon")' <=> Attached("codemon"),
           Recent' \cap seen["worker"] \subseteq seen'["worker"], Recent' \subseteq Recent,
           Recent' \cap todo["codemon"] \subseteq todo'["codemon"],
           Recent' \cap taken \subseteq taken', Recent' \cap passed \subseteq passed',
           Recent' \cap left \subseteq left', left' \subseteq left
    PROVE  MonitorInv'
<1>1. /\ At("codemon", "catching")' <=> At("codemon", "catching")
      /\ At("codemon", "fetching")' <=> At("codemon", "fetching")
  BY DEF At
<1>2. Recent' \cap Excuses \subseteq Excuses'
  BY <1>1 DEF Excuses
<1> QED BY <1>1, <1>2 DEF MonitorInv

\* A notice that is handled, before it is recent or when it is
LEMMA HandlesMarks ==
    ASSUME AlertTypeOK, NEW x \in Process, NEW m \in Notice, Handles(x, m)
    PROVE  /\ seen["worker"] \subseteq seen'["worker"]
           /\ x = "worker" => m \in seen'["worker"]
BY ProcessAssumption DEF Handles, AlertTypeOK

\* A step of the monitor's own task
LEMMA MonitorMoves ==
    ASSUME MonitorInv, TaskTypeOK', AlertTypeOK',
           (MonitorWatches /\ UNCHANGED alertVars) \/ MonitorFetches \/ MonitorCaughtUp
    PROVE  MonitorInv'
<1>0. "codemon" \in Watcher /\ "codemon" \in Background /\ "codemon" \in Runner
  BY DEF Watcher, Background, Runner
<1>1. task \in [Background -> Place] /\ todo \in [Runner -> SUBSET Notice]
  BY DEF MonitorInv, TaskTypeOK, AlertTypeOK
<1>2. ASSUME NEW place, Goes("codemon", place) PROVE task'["codemon"] = place
  BY <1>0, <1>1, <1>2 DEF Goes
<1>3. CASE MonitorWatches /\ UNCHANGED alertVars
  <2>1. Recent' = Recent /\ UNCHANGED <<seen, taken, left, passed>> /\ At("codemon", "awake")
    BY <1>3 DEF alertVars, Recent, MonitorWatches
  <2>2. CASE Goes("codemon", "fetching") /\ attached' = Append(attached, "codemon")
             /\ ~Attached("codemon")
    <3>1. Attached("codemon")'
      BY <1>0, <2>2, AppendAdds DEF MonitorInv, TaskTypeOK, Distinct, Attached, In
    <3>2. task'["codemon"] = "fetching"
      BY <1>2, <2>2
    <3> QED BY <3>1, <3>2 DEF MonitorInv, At
  <2>3. CASE Goes("codemon", "asleep") /\ UNCHANGED attached
    <3>1. task'["codemon"] = "asleep"
      BY <1>2, <2>3
    <3> QED BY <2>1, <2>3, <3>1 DEF MonitorInv, At, Attached, Excuses
  <2>4. CASE Goes("codemon", "asleep") /\ attached' = Without("codemon")
    <3>1. ~Attached("codemon")'
      BY <1>0, <2>4, WithoutRemoves DEF MonitorInv, TaskTypeOK, Distinct, Attached, In
    <3>2. task'["codemon"] = "asleep"
      BY <1>2, <2>4
    <3> QED BY <3>1, <3>2 DEF MonitorInv, At
  <2> QED BY <1>3, <2>2, <2>3, <2>4 DEF MonitorWatches
<1>4. CASE MonitorFetches
  <2>1. /\ task'["codemon"] = "catching" /\ todo'["codemon"] = Found /\ left' = {}
        /\ passed' = Recent \ Found /\ UNCHANGED attached /\ Recent' = Recent /\ Attached("codemon")
    BY <1>0, <1>1, <1>2, <1>4 DEF MonitorFetches, Fetches, Recent, MonitorInv
  <2> QED BY <2>1 DEF MonitorInv, At, Attached, Excuses
<1>5. CASE MonitorCaughtUp
  <2>1. /\ task'["codemon"] = "asleep" /\ Recent' = Recent
        /\ UNCHANGED <<attached, seen, taken, passed>>
    BY <1>2, <1>5 DEF MonitorCaughtUp, CatchUpEnds, CatchUpFails, Recent
  <2>2. Recent \subseteq seen["worker"] \cup taken \cup passed \cup left'
    <3>1. CASE At("codemon", "fetching")
      BY <1>5, <3>1 DEF MonitorCaughtUp, CatchUpFails, At
    <3>2. CASE At("codemon", "catching")
      <4>1. Recent \subseteq seen["worker"] \cup taken \cup passed \cup todo["codemon"]
        BY <3>2 DEF MonitorInv, At, Excuses
      <4>2. todo["codemon"] \cap Recent = {} \/ left' = todo["codemon"]
        BY <1>5, <3>2 DEF MonitorCaughtUp, CatchUpEnds, CatchUpFails, At
      <4> QED BY <4>1, <4>2
    <3> QED BY <1>5, <3>1, <3>2 DEF MonitorCaughtUp
  <2> QED BY <2>1, <2>2 DEF MonitorInv, At, Attached, Excuses
<1> QED BY <1>3, <1>4, <1>5

LEMMA MonitorKept ==
    ASSUME MonitorInv, [Next]_vars
    PROVE  MonitorInv'
<1>0. TaskTypeOK' /\ AlertTypeOK'
  BY TaskTypesKept, AlertTypesKept DEF MonitorInv
<1>1. "codemon" \in Watcher /\ "codemon" \in Background /\ "codemon" \in Runner
      /\ "groups" # "codemon" /\ "worker" \in Process
      /\ task \in [Background -> Place] /\ todo \in [Runner -> SUBSET Notice]
      /\ seen \in [Process -> SUBSET Notice]
  BY ProcessAssumption DEF Watcher, Background, Runner, MonitorInv, TaskTypeOK, AlertTypeOK
<1>2. ASSUME UNCHANGED alertVars, task'["codemon"] = task["codemon"], UNCHANGED attached
      PROVE  MonitorInv'
  BY <1>0, <1>2, Undisturbed DEF alertVars, Recent, Attached
<1>3. CASE ConnectionStep
  <2>1. CASE Connects
    <3>1. ~Attached("codemon")' /\ task'["codemon"] = "awake"
      BY <1>1, <2>1 DEF Connects, MonitorInv, TaskTypeOK, Attached
    <3> QED BY <1>0, <3>1 DEF MonitorInv, At
  <2>2. CASE Disconnects
    <3>1. ~Attached("codemon")' /\ task'["codemon"] = "off"
      BY <1>1, <2>2 DEF Disconnects, Attached
    <3> QED BY <1>0, <3>1 DEF MonitorInv, At
  <2> QED BY <1>3, <2>1, <2>2 DEF ConnectionStep
<1>4. ASSUME NEW p \in Background, Loops(p) PROVE MonitorInv'
  <2>1. CASE Wakes(p) /\ UNCHANGED alertVars
    <3>1. CASE p = "codemon"
      <4>1. /\ task["codemon"] = "asleep" /\ task'["codemon"] = "awake"
            /\ UNCHANGED <<attached, seen, taken, left, passed>> /\ Recent' = Recent
        BY <1>1, <2>1, <3>1 DEF Wakes, Goes, At, alertVars, Recent
      <4> QED BY <1>0, <4>1 DEF MonitorInv, At, Attached, Excuses
    <3> QED BY <1>1, <1>2, <2>1, <3>1 DEF Wakes, Goes
  <2>2. CASE Watches(p) /\ UNCHANGED alertVars
    <3>1. p \in Watcher /\ p # "codemon"
      BY <2>2, ListenerAssumption DEF Watches, Watcher
    <3>2. Attached("codemon")' <=> Attached("codemon")
      <4>1. attached' \in {attached, Without(p)}
            \/ (attached' = Append(attached, p) /\ ~Attached(p))
        BY <2>2 DEF Watches
      <4> QED BY <3>1, <4>1, TurnAttaches DEF MonitorInv, Attached, In
    <3>3. task'["codemon"] = task["codemon"]
      BY <1>1, <2>2, <3>1 DEF Watches, Goes
    <3> QED BY <1>0, <2>2, <3>2, <3>3, Undisturbed DEF alertVars, Recent
  <2> QED BY <1>0, <1>4, <2>1, <2>2, MonitorMoves DEF Loops
<1>5. CASE CatchUpStep
  <2>1. PICK m \in Notice : MonitorCatchesUp(m)
    BY <1>5 DEF CatchUpStep
  <2>2. /\ At("codemon", "catching") /\ UNCHANGED <<task, attached, age, taken, left, passed>>
        /\ todo'["codemon"] = todo["codemon"] \ {m} /\ Handles("worker", m)
    BY <1>1, <2>1 DEF MonitorCatchesUp, CatchesUp, Rest, ProcessOf, taskVars
  <2>3. seen["worker"] \subseteq seen'["worker"] /\ m \in seen'["worker"]
    BY <1>1, <2>2, HandlesMarks DEF MonitorInv
  <2> QED BY <1>0, <2>2, <2>3 DEF MonitorInv, At, Attached, Excuses, Recent
<1>6. CASE NoticeStep
  <2>0. UNCHANGED <<task, attached>> /\ (Attached("codemon")' <=> Attached("codemon"))
    BY <1>6 DEF NoticeStep, taskVars, Attached
  <2>1. ASSUME NEW m \in Notice, NoticeArrives(m) PROVE MonitorInv'
    <3>1. Recent' \subseteq Recent \cup {m} /\ UNCHANGED <<todo, left, passed>>
          /\ taken \subseteq taken'
      BY <2>1 DEF NoticeArrives, Recent
    <3>2. seen["worker"] \subseteq seen'["worker"]
      BY <1>1, <2>1, HandlesMarks DEF NoticeArrives, MonitorInv
    <3>3. Attached("codemon") => m \in seen'["worker"] \cup taken'
      BY <1>1, <2>1, HandlesMarks DEF NoticeArrives, MonitorInv
    <3> QED BY <1>0, <2>0, <3>1, <3>2, <3>3 DEF MonitorInv, At, Excuses
  <2>2. ASSUME NEW m \in Notice, NoticeEdited(m) PROVE MonitorInv'
    <3>1. seen["worker"] \subseteq seen'["worker"]
      BY <1>1, <2>2, HandlesMarks DEF NoticeEdited, MonitorInv
    <3> QED BY <1>0, <2>0, <2>2, <3>1, Undisturbed DEF NoticeEdited, Recent
  <2>3. ASSUME NEW m \in Notice, Ages(m) PROVE MonitorInv'
    <3>1. Recent' \subseteq Recent \ {m}
      BY <2>3 DEF Ages, Recent, MonitorInv, AlertTypeOK
    <3>2. todo'["codemon"] = todo["codemon"] \ {m}
      BY <1>1, <2>3 DEF Ages
    <3> QED BY <1>0, <2>0, <2>3, <3>1, <3>2, Undisturbed DEF Ages
  <2>4. ASSUME NEW x \in Process, Prunes(x) PROVE MonitorInv'
    <3>1. Recent' = Recent /\ Recent \cap seen["worker"] \subseteq seen'["worker"]
      BY <1>1, <2>4 DEF Prunes, Recent
    <3> QED BY <1>0, <2>0, <2>4, <3>1, Undisturbed DEF Prunes
  <2>5. CASE Explores \/ ExplorerEnds
    <3>1. UNCHANGED <<age, seen, taken, left, passed>> /\ todo'["codemon"] = todo["codemon"]
      BY <1>1, <2>5 DEF Explores, ExplorerEnds, Fetches, CatchUpEnds, CatchUpFails
    <3> QED BY <1>0, <2>0, <3>1, Undisturbed DEF Recent
  <2>6. ASSUME NEW m \in Notice, CatchesUp("explorer", m) PROVE MonitorInv'
    <3>1. ProcessOf("explorer") \in Process
      BY DEF ProcessOf, MonitorInv, AlertTypeOK
    <3>2. seen["worker"] \subseteq seen'["worker"]
      BY <2>6, <3>1, HandlesMarks DEF CatchesUp, MonitorInv
    <3>3. UNCHANGED <<age, taken, left, passed>> /\ todo'["codemon"] = todo["codemon"]
      BY <1>1, <2>6 DEF CatchesUp
    <3> QED BY <1>0, <2>0, <3>2, <3>3, Undisturbed DEF Recent
  <2>7. CASE OtherArrives
    BY <1>0, <2>0, <2>7, Undisturbed DEF OtherArrives, Recent
  <2> QED BY <1>6, <2>1, <2>2, <2>3, <2>4, <2>5, <2>6, <2>7 DEF NoticeStep
<1>7. CASE SwitchStep
  BY <1>2, <1>7 DEF SwitchStep, Subscribes, Switches, SwitchesGroups
<1>8. CASE GroupStep
  <2>1. UNCHANGED attached /\ task'["codemon"] = task["codemon"]
    BY <1>1, <1>8 DEF GroupStep, Looks, LooksAgain, Creates, CreationFails, Announces,
                      AnnouncementFails, AddedAgain, LimitChanges, Floods, TimePasses,
                      GroupsTo, Goes, taskVars
  <2> QED BY <1>2, <1>8, <2>1 DEF GroupStep
<1>9. CASE GuardStep
  BY <1>2, <1>9 DEF GuardStep, PermitHears, Blocks, SetsApproval, SetsProtection, AfkHears,
                    SetsAway, AfkHearsItself, AwayBecomes, OnlyFails, taskVars
<1>10. CASE UNCHANGED vars
  BY <1>2, <1>10 DEF vars, taskVars
<1> QED BY <1>3, <1>4, <1>5, <1>6, <1>7, <1>8, <1>9, <1>10 DEF Next

\* Once the code monitor's catch-up is through, every notice of the last six hours has been
\* handled, went to another plugin's listener, is one the catch-up failed on, or had as
\* many messages after it as a catch-up reads, however arrivals, edits, both catch-ups,
\* prunings and disconnections interleave.
THEOREM NoticesAreKnown == Spec => []KnowsEveryNotice
<1>1. MonitorInv => KnowsEveryNotice
  BY DEF MonitorInv, KnowsEveryNotice, At, Excuses
<1> QED BY <1>1, MonitorInitially, MonitorKept, PTL DEF Spec
=============================================================================
