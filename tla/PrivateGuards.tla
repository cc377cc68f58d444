--------------------------- MODULE PrivateGuards ---------------------------
(***************************************************************************)
(* Two listeners of private messages: pmpermit (plugins/pmpermit.py) warns *)
(* strangers and blocks them, afk (plugins/afk.py) tells them that the     *)
(* account is away.  A callback does not wait between what it reads and    *)
(* what it writes; the calls to Telegram wait in the limiter afterwards.   *)
(***************************************************************************)
EXTENDS PluginTasks

CONSTANTS Sender,       \* those who are neither the account nor its owner or admins
          WarnLimits,   \* values of the setting warn_limit
          DefaultLimit, \* its default
          MaxTold,      \* _MAX_TOLD
          MaxLog        \* bound: senders told while the account is away

ASSUME GuardsAssumption == {"pmpermit", "afk"} \subseteq Listener
ASSUME LimitAssumption == WarnLimits \subseteq Nat \ {0} /\ DefaultLimit \in WarnLimits
ASSUME ToldAssumption == MaxTold \in Nat \ {0} /\ MaxLog \in Nat

VARIABLES
    protect, warnLimit,     \* the settings of pmpermit
    permit,                 \* sender -> the row of pm_permits
    queued,                 \* senders whose block waits in the limiter
    barred,                 \* senders blocked on Telegram
    warned,                 \* history: sender -> warnings since the owner's last decision
    away, told,             \* the settings of afk
    log                     \* history: the senders told since told was emptied or lost

permitVars == <<protect, warnLimit, permit, queued, barred, warned>>

afkVars == <<away, told, log>>

guardVars == <<permitVars, afkVars>>

Row == [approved : BOOLEAN, warnings : Nat, blocked : BOOLEAN]

NewRow == [approved |-> FALSE, warnings |-> 0, blocked |-> FALSE]

GuardTypeOK ==
    /\ protect \in BOOLEAN /\ warnLimit \in WarnLimits
    /\ permit \in [Sender -> Row]
    /\ queued \subseteq Sender /\ barred \subseteq Sender
    /\ warned \in [Sender -> Nat]
    /\ away \in BOOLEAN /\ told \in Seq(Sender) /\ Len(told) <= MaxTold
    /\ log \in Seq(Sender) /\ Len(log) <= MaxLog

GuardInit ==
    /\ protect = FALSE /\ warnLimit = DefaultLimit
    /\ permit = [s \in Sender |-> NewRow] /\ queued = {} /\ barred = {}
    /\ warned = [s \in Sender |-> 0]
    /\ away = FALSE /\ told = <<>> /\ log = <<>>

OnlyFails == UNCHANGED <<on, subscribed, serving, task, attached>>

\* The record that is written, and the call that is queued
Judges(s, row, limit) ==
    LET n == row.warnings + 1 IN
    /\ permit' = [permit EXCEPT ![s] =
                     [approved |-> FALSE, warnings |-> n, blocked |-> n >= limit]]
    /\ IF n >= limit THEN queued' = queued \cup {s} /\ UNCHANGED warned
                     ELSE warned' = [warned EXCEPT ![s] = @ + 1] /\ UNCHANGED queued

\* pmpermit.on_message.  A row that cannot be read is a new one, a limit the default.
PermitHears(s) ==
    /\ s \notin barred /\ Receives("pmpermit", "private")
    /\ Enabled("pmpermit") /\ protect
    /\ \/ DbFails /\ Judges(s, NewRow, warnLimit)
       \/ /\ ~permit[s].approved /\ ~permit[s].blocked
          /\ \/ UNCHANGED fails /\ Judges(s, permit[s], warnLimit)
             \/ DbFails /\ Judges(s, permit[s], DefaultLimit)
    /\ OnlyFails /\ UNCHANGED <<protect, warnLimit, barred, afkVars>>

\* The queued block_user is made, or fails and is not tried again.
Blocks(s) == /\ s \in queued /\ queued' = queued \ {s}
             /\ barred' \in {barred, barred \cup {s}}
             /\ UNCHANGED <<taskVars, protect, warnLimit, permit, warned, afkVars>>

\* Mutant: the warnings of a user who is disapproved stay
KeepsWarnings(s, approved) ==
    permit' = [permit EXCEPT ![s].approved = approved, ![s].blocked = FALSE]

Decided(s, approved) ==
    permit' = [permit EXCEPT ![s] = [NewRow EXCEPT !.approved = approved]]

\* The commands approve and disapprove
SetsApproval(s, approved) ==
    /\ serving /\ Enabled("pmpermit")
    /\ Decided(s, approved) /\ warned' = [warned EXCEPT ![s] = 0]
    /\ UNCHANGED <<taskVars, protect, warnLimit, queued, barred, afkVars>>

\* pmpermit on and off, and pmwarn
SetsProtection ==
    /\ serving /\ Enabled("pmpermit")
    /\ \/ protect' = ~protect /\ UNCHANGED warnLimit
       \/ warnLimit' \in WarnLimits \ {warnLimit} /\ UNCHANGED protect
    /\ UNCHANGED <<taskVars, permit, queued, barred, warned, afkVars>>
-----------------------------------------------------------------------------
\* Mutant: a full list keeps its oldest names
Oldest(s) == IF Len(told) < MaxTold THEN Append(told, s) ELSE told

Newest(s) == LET t == Append(told, s) IN
             IF Len(t) <= MaxTold THEN t ELSE SubSeq(t, Len(t) - MaxTold + 1, Len(t))

\* afk.on_message, of someone else.  A list that cannot be read is empty.
AfkHears(s) ==
    /\ s \notin barred /\ Receives("afk", "private") /\ Len(log) < MaxLog
    /\ Enabled("afk") /\ away
    /\ \/ DbFails /\ told' = <<s>> /\ log' = <<s>>
       \/ /\ \A i \in DOMAIN told : told[i] # s
          /\ told' = Newest(s) /\ log' = Append(log, s) /\ UNCHANGED fails
    /\ OnlyFails /\ UNCHANGED <<away, permitVars>>

\* Two settings are written, one after the other.
AwayBecomes(value) ==
    /\ away' = value /\ log' = <<>>
    /\ \/ told' = <<>> /\ UNCHANGED fails
       \/ UNCHANGED told /\ DbFails
    /\ OnlyFails /\ UNCHANGED permitVars

\* The commands afk and unafk
SetsAway(value) == serving /\ Enabled("afk") /\ AwayBecomes(value)

\* afk.on_message, of a message of the account that is no command
AfkHearsItself == Receives("afk", "own") /\ Enabled("afk") /\ away /\ AwayBecomes(FALSE)
-----------------------------------------------------------------------------
\* "Remove approval and reset warnings" (pmpermit.py:50): a block is queued no sooner than
\* with the warn_limit-th message that is heard since the owner last decided on the sender,
\* however the limit changes and callbacks of several messages and restarts fall, unless the
\* database has just failed.  That message is blocked, not warned (191): there is one warning
\* fewer than "Block after {limit} warnings." (104) says, and none at all with a limit of 1.
BlockedAtTheLimit ==
    [][\A s \in Sender : s \in queued' \ queued =>
          warned[s] + 1 >= warnLimit \/ fails' # fails]_<<taskVars, guardVars>>

\* "Reply once while you are away" (afk.py:29), with a list that keeps the last MaxTold
\* names: whoever is told again was pushed out by as many others.
ToldOncePerAway ==
    \A i, j \in DOMAIN log : i < j /\ log[i] = log[j] => j - i > MaxTold
=============================================================================
