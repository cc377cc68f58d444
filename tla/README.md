# TeleGroup: TLA+ models, checks and proofs

TeleGroup is a Telegram control bot (python-telegram-bot) with a worker process
that runs one Pyrogram client per managed account.  Bot and worker are separate
processes (`RUNTIME_ROLE=bot` / `worker`) or one process (`all`), and share
nothing but a PostgreSQL database.

This directory holds TLA+ modules for the parts of the program whose state and
interleavings are worth checking, TLC configurations for small instances, and
TLAPS proofs of the main safety properties.  `PROJECT.json` ties every definition
to the lines it models, and lists the runs, the hazards, the disagreements found
and the theorems.

Contents: [1 Inventory](#1-inventory), [2 Modules](#2-modules),
[3 Worker and tools](#3-worker-and-tools-runtime),
[4 Subscriptions](#4-subscriptions-codes-and-payments-billing),
[5 Commands](#5-the-commands-of-an-account-accountcommands),
[6 Conversations](#6-signing-in-and-moving-numbers-accountconversations),
[7 Access](#7-who-may-do-what-accountaccess),
[8 Background](#8-what-an-account-does-by-itself-accountbackground),
[9 Runs and bounds](#9-runs-and-bounds), [10 Findings](#10-what-the-code-does-not-keep),
[11 Proofs](#11-proofs), [12 Limits](#12-what-is-not-modelled), [13 Plan](#13-plan).

Paths are under `src/src` unless they begin with `src/`.

## 1. Inventory

| Component | State | Operations | What is hard | Correct means |
|---|---|---|---|---|
| Worker supervisor (`runtime/supervisor.py`, `connect.py`) | one slot per account: task, stop event, fingerprint; the reconcile loop | reconcile, start, stop and restart a slot, connect with proxy rotation, serve, probe, invalidate | the main task awaits between reading the tables and acting on them; a stop that is cut short; a dead slot | running clients match the database; is_running is honest |
| Session leases (`runtime/store.py`, `lease.py`) | one row per account, acknowledged or not, with an expiry | acquire, acknowledge, release, prune | no owner, no count; late acknowledgement; expiry under a working tool | acknowledged means let go; one session per account |
| Borrowing tools (`two_step.py`, `account_explorer.py`) | an asyncio lock per account, a temporary client; the two-step keys of `user_data` | open, share, use, close, report on the session; ask for, confirm and set a cloud password | handlers run concurrently; a report written after the lease is gone; a conversation that goes on while its handler works | a tool works under an acknowledged lease; a password is set as it was typed twice |
| Account table (`database.py`, `db/models.py`) | proxy, session, session status, is_running, soft delete, schedule | add, delete, reassign, mark, transfer | two processes write it; soft-deleted rows come back | a refused session stays unlisted until a new login |
| Flood limiter (`runtime/flood.py`) | next call time, flood end, waiters | run, pace, note a flood | one call in flight, at most 8 waiters, one retry | every call gets its turn |
| Command dispatch (`runtime/plugins.py`, `actors.py`, `gating.py`) | switches, incoming limits, background tasks and their handlers | resolve, permit, dispatch; watch a switch, attach, detach | windows that overlap, plan and owner changes, handlers interleaved at awaits, one group for all listeners | only permitted commands, limits per window; listeners follow their switch |
| Work pool, job slots (`runtime/work_pool.py`, `plugins/slots.py`, `jobs.py`) | semaphores, held slots, cancel events | acquire, run, release, cancel | slots leaked by failures, semaphores replaced while held | process limit; a stop is obeyed and releases |
| Confirmed actions (`plugins/broadcast.py`, `gifts.py`, `createchat.py`) | what waits for a confirmation | prepare, confirm, cancel | two confirmations; a preparation that awaits | done at most once, not at all when cancelled |
| Subscriptions, codes (`subscription_grants.py`, `admin_grants.py`) | subscription rows, activation codes, audit rows, the admin's two conversations | grant, extend, replace, revoke, issue, redeem | two redeemers; a card that is stale; double taps | a code is used once; nobody loses days by a grant |
| Payments (`payments.py`, `cryptopay.py`, `main.py`, `user_handlers.py`) | invoices of the services, price and activity of a plan | invoice, pre-checkout, payment, webhook | redelivery, edits between the steps, failing database | money taken is answered |
| Plan plugins (`plan_grants.py`, `plugin_menu.py`, `admin_handlers.py`) | plans, the plugins a plan allows, an account's switches | create and edit a plan, toggle, migrate | a conversation whose data is cleared, a change while commands run | gates follow the plan; a plan is saved complete |
| Group creation (`automation.py`, `plugins/groups.py`) | schedule, backoff, group log | look, pause, look again, create, schedule, announce | cancellation or failure between the creation, its schedule and the announcement; edits during the pause | the daily limit's distance between groups |
| Code monitor (`code_monitor.py`, `plugins/codewatch.py`) | seen messages, the attached handler | attach, catch up, handle, mark, prune, forward | notices that come, change and age during a catch-up; a second catch-up of the explorer | a notice is forwarded once, none is passed over |
| Account login (`user_handlers.py`, `text_router.py`) | conversation state, `user_data`, temporary clients | owner, phone, code, password, save, cancel | handlers of one user overlap, fail, time out | a number with its own session, on the prompted list; no client left behind |
| Sharing and transfer (`sharing.py`, `database.py`) | link tokens, managers, owner of a row | rotate a link, join a team, transfer | the row is deleted or moved meanwhile; what the prompt tested is old | one owner, who moves it himself; room on the list |
| Account admins (`account_admin_menu.py`, `plugins/delegates.py`) | admin rows, at most 20 | add, remove, permit | two processes that count and insert; an owner looked at before an await | owners appoint; the limit, all but one |
| PM permit, auto replies (`plugins/pmpermit.py`, `afk.py`, ...) | warnings and approval per sender; who was told | warn, block, approve; away, back, tell | failing reads, callbacks of several messages, a list that is cut | no block before the limit's message; told once |
| SQLite migration (`tools/migrate_sqlite.py`) | two databases | copy in foreign-key order | re-runs | idempotent |
| Media jobs, chat utilities, panels, texts | none of their own | render, convert, reply | nothing a model checker reaches | - |

Bot and worker meet only in tables: `session_leases` (borrowing),
`managed_accounts` (what runs, with which proxy and session, and how it went),
`account_plugins`, `plan_plugins` and `account_admins` (what it may do and for whom) and
the subscription tables, which decide what is listed.  Inside a process there is
one event loop: handlers and account tasks interleave at awaits, and a database
call blocks the loop, so that a transaction is one step.

## 2. Modules

| Module | Models | Extends |
|---|---|---|
| `SessionLease` | the `session_leases` table and its transactions | |
| `AccountTable` | the account columns that decide what the worker runs; the bot's edits | `SessionLease` |
| `Supervisor` | the worker: main task, account tasks, crash and restart | `AccountTable` |
| `SessionBorrow` | the tools of the bot that open a session | `AccountTable` |
| `Runtime` | worker, bot and time together; the properties | `Supervisor`, `SessionBorrow` |
| `ExclusiveSession` | abstract: a session is in one place at a time | |
| `Voucher` | abstract: a code is issued, then redeemed once or revoked | |
| `Subscriptions` | subscription rows, codes, audit rows, redemptions | |
| `GrantConversation` | an admin's conversation about a grant | `Subscriptions` |
| `CodeConversation` | an admin's conversation about activation codes | `Subscriptions` |
| `Payments` | Stars and crypto payments | `Subscriptions` |
| `Billing` | everything that writes subscriptions; the properties | the three above |
| `Confirmation` | abstract: a request waits, is confirmed and carried out | |
| `AccountLimiter` | the queue of Telegram calls of an account | |
| `WorkPool` | slots, semaphores and child processes | |
| `AccountCommands` | the handlers of an account's commands; the properties | both |
| `AccountOwners` | whose list a number stands on: add, delete, transfer | |
| `AccountConversations` | the login and transfer conversations; the properties | `AccountOwners` |
| `PendingInputs` | which of several open questions of the bot a text answers | |
| `PlanEditing` | plans and their plugins, created and edited in conversations | `PendingInputs` |
| `AccountRights` | row, managers, admins and switches of an account | `PlanEditing` |
| `CommandGate` | which command of whom the dispatcher carries out | `AccountRights` |
| `TwoStep` | the conversation that sets a cloud password | `AccountRights` |
| `AccountAccess` | all that decides who may do what; the properties | `CommandGate`, `TwoStep` |
| `PluginTasks` | the background tasks of plugins and what they attach | |
| `SecurityAlerts` | the code monitor and the two catch-ups | `PluginTasks` |
| `GroupSchedule` | the task that creates groups | `PluginTasks` |
| `PrivateGuards` | `pmpermit` and `afk` | `PluginTasks` |
| `AccountBackground` | all that an account does by itself; the properties | the three above |
| `MCRuntime`, `MCBilling`, `MCCommands`, `MCConversations`, `MCAccess`, `MCBackground` | instances for TLC | |
| `RuntimeProofs`, `LeaseProofs`, `ExclusiveProofs`, `BillingProofs`, `CommandProofs`, `ConversationProofs`, `AccessProofs`, `BackgroundProofs` | the theorems | |

Operators named "Mutant" or "a bug to be caught" are broken variants of the definition
below them.  No action uses them; substituting one must make TLC refute the
property it is listed with in `PROJECT.json`.

The modules of an account fall into five compositions, which share no variable.  What
one of them needs of another is a nondeterministic action with the same guard: the
subscription that `Billing` changes is `SubscriptionChanges` in `AccountRights` and
`Subscribes` in `PluginTasks`, the switches of `AccountRights` are `Switches` there, and the
connection that `Supervisor` keeps is `Connects` and `Disconnects`.

## 3. Worker and tools (`Runtime`)

**State.** `lease` is the table; a row is `none`, `live` or `expired`, and
acknowledged or not.  `standing`, `sessionStatus`, `proxyId`, `session`,
`isRunning` are the columns of `managed_accounts` and, in `standing`, the joins of
`list_runtime_candidates` with subscription, plugins and `deleted_at`.  The worker's
memory is `task` (where an account's task is), `stopEvent`, `made` (the
fingerprint of the slot), `via`, `attempt` (a connection attempt), `why` (why
a client is closing), `leaked` (a started client nobody stops), and the main
task's `loop`, `todo`, `awaiting`, `leased`, `desired`, `rows`, `shutdown`.  A tool
is `idle`, `waiting` for the acknowledgement, `opening`, `using`, `sharing` the
embedded supervisor's client, or `reporting` on the session afterwards.

**Actions.**  `reconcile` is four phases with the bot's transactions between them:
`BeginReconcile` (leases read, expired rows pruned), `StopSlot`/`SlotStopped` for the
leased, `AckAndPlan` (acknowledge, read the accounts), `BeginApply`, then
`StartSlot`, `RestartSlot`, `KeepSlot`, and `EndReconcile`.  `_run_account`, `_serve` and
`connect_account` are `BeginConnect`, `RotateAndRetry`, `ConnectFails`,
`ConnectRefused`, `Connected`, `Discarded`, `ServeStopped`, `ServeDropped`, `ServeRefused`,
`Closed`, `TaskStops`.  `StopTimesOut` is the cancellation of `_stop_slot`.  The process
crashes and starts (`WorkerCrash`, `WorkerStarts`) with an empty memory.  The
tools are `Begin`, `PauseEnds` (acknowledged, or 20 seconds over), `Aborts`, `Opened`,
`OpenRefused`, `OpenFails`, `Closes`, `StopsSharing`, `Reports`, `BotCrash`.

**Scheduling.**  The worker has one thread; account tasks only move while the main
task is suspended (`Suspended`), and the bot moves at any time when it is another
process, or while the supervisor is suspended when it is the same (`BotMayRun`).

**What may go wrong** is the constant `May`, a subset of `Happening`: deadlines that
pass, reads and writes that fail, crashes, and edits.  A run names what it allows,
and a theorem names what it excludes.

**Properties.**  `AckedMeansStopped` (an acknowledged lease means that the worker has
no task for the account), `ToolHoldsAckedLease`, `NotTwoSessions`, `RunningMeansServing`
(`is_running` only while a task serves or closes), `DeadSlotIsUnwanted` (a slot whose
task ended by itself is not wanted any more), the implementation of
`ExclusiveSession`, and the liveness properties `LeaseIsAnswered`,
`ListedAccountsAreServed`, `UnlistedAccountsAreStopped`.

**Refinement.**  `ExclusiveSession` has one variable: who has an open session of an
account.  It opens only when nobody has one.  The mapping (`Holders`) collects
the worker's connecting, serving and closing tasks, the tools that open or use a
client, and leaked clients.

**Fairness** (`FairSpec`).  Every await of the worker ends by the client library's
timeouts, and the poll of `_loop_main` wakes the main task: weak fairness of
`MainProgress`.  A ready account task runs when the main task next suspends, which
the phases of a reconcile disable again and again: strong fairness of the tasks, and of
`BeginConnect` by itself, since the coroutine of a slot runs to its first await.  An
attempt repeated forever succeeds in the end, and one succeeds whose slot is not being
stopped: strong fairness of `Connected` without a stop.  The second half is an
assumption.  A rotation gives the account another proxy, reconcile finds another
fingerprint and restarts the slot, and if only attempts succeeded that such a restart has
already stopped, the account would never be served; nothing in the code rules that out,
but nothing makes the network follow the restarts.
Tool calls end.  A lease expires unless its tool still waits: 20 seconds are
over before 180.  Nothing is assumed of crashes, edits, drops, or of tools being
started.  The 20-second limit itself is not fair, so that `LeaseIsAnswered` must be
kept by the worker's acknowledgement.

## 4. Subscriptions, codes and payments (`Billing`)

**State.**  `active` holds, per user, the rows with `is_active` as plan and end
day; a user may have several from before (`LegacyRows`), as the code provides
for.  `codes` and `audit` are `activation_codes` and the `plan_grants` rows that name a
code.  `redeem` is a redemption between its first look and its claim.  `conv` is
an admin's grant conversation: its state and the keys in `user_data`; `sending` counts
`_finish_grant` calls that wait for their notice.  `batch` is the same for the
conversation about codes; `naming` and `showing` count the `_issue` calls that wait for the
bot's name or for the message with the links, and `named` says that `bot_data` holds
the name.  `offer` is price and activity of a plan, `invoice` a payment and how far it
got.

**Actions.**  A database function is one step, since `run_db` blocks the thread.  The
one exception is `redeem_activation_code`: its first look (`LookAtCode`) and its
conditional UPDATE (`ClaimCode`) are two, because the UPDATE is the code's own
race gate and the tests run redeemers in threads.  `FinishGrant` commits before the
notice is sent and `GrantSent` comes later; between them the conversation is
still where it was, and updates are handled concurrently (`main.py:167`).  Likewise
`CodesIssue` commits a batch of codes, `NameKnown` comes after `get_me` and clears the
keys, and `CodesIssued` ends whichever conversation the admin is in by then; a second
tap before `NameKnown` makes a second batch.  `SuccessfulPayment` validates again.
`CryptoWebhook` grants, then messages the user, and a failed message (500) is
delivered again.

**Properties.**  The codes implement `Voucher`.  `RedeemedWhileValid` and
`RedeemAddsItsDays`: a redeemed code was valid by the clock of its redemption and adds
its days to whatever the user has at the claim.  `SubscribersAreKnown`.
`OnlyTheseShorten`: only a replacement, an ending or a payment shortens what a user
has.  `RefusedOnlyForAnEdit`: money paid in Stars is refused only when an admin edited the
plan between the answer to the pre-checkout query and the payment, since the invoice of an
old price is declined at the pre-checkout, before it costs anything.

No liveness is stated here.  That a payment is answered at all is up to Telegram and to
the database: `main.py:266` drops the updates that came while the bot was down, a
payment among them, and a database error leaves a payment without a grant.

## 5. The commands of an account (`AccountCommands`)

**State.**  `AccountLimiter`: the calls that count in `_waiting` as a queue, how far
the first is (pacing, calling, sleeping out a FloodWait, retrying), and whether
the later of `_next_at` and `_flood_until` lies ahead.  `WorkPool`: who holds a slot, whose
event is set, the semaphores an account has had (the last one is in `_accounts`,
earlier ones may still be held) and the child processes.  `AccountCommands`: for each
command `m` of the instance, what it asks for (`kind`), the await its handler is
at (`at`), the slots it read from the settings (`size`), messages left to send
(`left`), what a confirmation took (`subject`); what waits (`pending`), the broadcast
that runs and its event (`job`, `stop`); and two histories, `sent` and `discarded`.

**Actions.**  A step lasts from one await to the next.  Commands start in the order
of the updates (`Arrives`) and then interleave at their awaits.  `Goes` applies the
`finally` blocks a handler leaves (`InTry`: release of a slot) and `finish_job`;
`Reached` ends a handler whose next call is refused with `ActionQueueFull`.  Media
commands (video, search, convert) take a slot, the account's semaphore, the global one,
and a process; repeat sends and pauses; broadcast, gift and transfer prepare, confirm
and act.

**Properties.**  `TakesWhatWaits`: the confirmed actions implement `Confirmation`, with
`pending` as what waits and `subject` as what was taken.  A gift is prepared after an awaited
price, a password's message is deleted before the transfer is looked up, and a full queue ends a
handler between any two of its steps; still a confirmation takes what waits at its own step,
and a request that was replaced, cancelled or expired is never carried out.  A prepared broadcast
that `broadcaststop` was to discard still waits, and a later confirmation sends it: `Confirmation` allows
it, since nothing was cancelled, and `DiscardedBroadcastsAreNotSent`, which says what the command
promises, is refuted (section 10).
It follows that what was prepared is carried out at most once (`OncePerConfirmation`, a part of
the inductive invariant).  `CancelledGiftsAreNotSent`, `ProcessesWithinWorkers`, `StoppedJobsSendNoMore` (after a stop no further message
enters the queue), `StoppedDownloadsLetGo` (a stopped download releases its slot, even
behind a process that hangs) and `EveryCallEnds` (every call gets its turn).

**Fairness**: Telegram answers, time passes, the event loop runs what is ready.  A
process ends for sure only once its event is set, for then it is terminated;
one nobody stops may hang.

## 6. Signing in and moving numbers (`AccountConversations`)

**State.**  `row` (`AccountOwners`) is a number's row in `managed_accounts`: owner,
soft deletion, and whose session it holds.  `phone` is unique, so a deletion only
marks the row.  `conv` and `awaiting` are the states of the two conversation handlers
of `user_handlers.py`, `data` is `user_data` (login client, number, the owner the number
is for, the number that is moving), `handler` the handlers in flight with their
local variables, `client` the login clients as Telegram sees them.  `asked` and
`disturbed` are histories.

**Actions.**  Updates are handled concurrently (`main.py:167`).  The library picks a
handler by the state when the update arrives and sets the state when the handler
returns, so two messages of one user can be in the same handler.  A step lasts from
one await to the next, the awaits that nothing else can tell apart being one:
`Start`/`Greeted`, `ReceivePhoneNumber`/`Dropped`/`CodeSent`/`SendFails`,
`ReceivePhoneCode`/`SignInEnds`, `ReceivePassword`/`PasswordEnds`, then `Saves` and
`Told`, `Quits`, or `Cancel`/`Cancelled`.  `Replied` is the last reply with the state
returned; `ReplyFails` is the reply that raises.  `TimesOut` ends a conversation that
no handler is in (a handler takes the timer away when it starts) and leaves
`user_data`, there being no TIMEOUT handlers.  `Restarts` loses everything but the rows.
`Elsewhere` is deletion and the coming and going of subscriptions.

**Assumed of Telegram** (external definitions): a code is accepted only for the number
and on the connection it was sent for; a password only after that; `disconnect` ends
a connection, also when it raises.

**Properties.**  `SessionsMatch`: a row holds the session of its own number, although
client and number are read from `user_data` after the await of `sign_in`.
`ConnectedClientsAreKept`: a login client left connected is still in `user_data` when
the user's handlers are done, so that the next `/start`, `/cancel` or number ends it.
`SavedForThePrompted`: the number goes on the list the prompt named, whose plan was
tested.  `MovesAreTheOwners`: a row changes owner only while its owner is moving
it, and only to a list with room.

The second and third speak only of users whose handlers did not overlap, the third
only of those none of whose handlers raised either.  Without the restriction the code
does not keep them; the hazards of `PROJECT.json` say how.

## 7. Who may do what (`AccountAccess`)

**State.**  `waits` (`PendingInputs`) holds, per user, the questions that wait for a text.
`plans`, `allowed` and the dialog variables (`PlanEditing`) are the plans, `plan_plugins` and
an administrator's `user_data`.  `AccountRights` has the row (`owner`, `deleted`, `plan` of
each user's subscription), `toggle` (the account's own switches), `managers`, `team` (which
team link is valid), `admins` with who added them, and `tx`, an `add_account_admin` that has
counted and not yet committed.  `CommandGate` adds `call` (commands that wait for Telegram to
resolve a name) and the sliding windows of `IncomingCommandLimit`: `hits` and `quiet` hold ages
in ticks.  `TwoStep` adds the password Telegram asks for (`cloud`), the conversation's state
(`prompt`), its keys (`typed`) and the handlers at work (`work`).  `owned`, `answered` and `last`
are histories.

**Actions.**  A handler of the bot is one step unless it awaits Telegram: looking a @name up
(`LookedUp`), resolving one in the worker (`Resolved`), reading and setting the cloud password
(`StatusAnswers`, `SetsPassword`, `TellsResult`).  The library gives a text to the first handler in
order of registration whose conversation waits (`First`), so a text may answer another
question than the last one asked.  A conversation's state changes when its handler returns.
A start link clears `user_data` and leaves the conversations where they are (`OpensLink`,
`Forgets`, `ForgetsTyped`).  `AddStarts` and `AddCommits` split the one transaction that two
processes run without a lock.  A dispatched command (`Dispatches`) is heard, gated by plan and
switch, limited, and then carried out or refused; only the commands of `delegates.py` change
state here.

**Properties.**  `AnswersAreComplete`: a plan is saved with all its answers, and a password is set
only after it was typed twice, the second time right after the first.  `AppointedByOwners`: every
admin was added by the account or by one who has owned it.  `AdminsNearlyWithinLimit`: the
count and the insert of two processes miss the limit by one at most.  `AnswersPerWindow`: in no
window does a user get more answers than the owner's limit and one notice.

## 8. What an account does by itself (`AccountBackground`)

**State.**  `PluginTasks` has, per plugin with a background task, where the task is (`task`), the
handlers of group 0 in the order they were attached (`attached`), the switches and the
subscription, and `fails`, the database calls that have failed (bounded by `MaxFails`).
`SecurityAlerts` has the notices of Telegram (`age`), the marks of each process (`seen`) and what the
two catch-ups still have to look at (`todo`), and, per notice, how many messages of that chat came after
it (`newer`), since a catch-up reads the newest `CatchUpLimit` messages only.  `GroupSchedule` has the
columns of the schedule, in ticks from now, and `order`, the row a creation read.  `PrivateGuards` has the
rows of `pm_permits`, the blocks that wait in the limiter, and the settings of `afk`.  `alerts`, `taken`,
`left`, `passed`, `owed`, `excused`, `warned` and `log` are histories.

**Actions.**  A task's turn is one step up to its next await.  When a sleeping task wakes is left
open, since a timeout, a signal and another plugin's wake-up look the same.  A message goes to
the first attached handler that matches (`Receives`).  `Disconnects` cancels the tasks wherever they
are; their `finally` clauses take the handlers away.  The monitor attaches, fetches, and goes through
what it fetched (`MonitorWatches`, `MonitorFetches`, `MonitorCaughtUp`) while notices arrive, are edited,
age, and the explorer catches up beside it in either process.  A creation is `Looks`, a pause,
`LooksAgain`, `Creates` or `CreationFails`, `Announces` or `AnnouncementFails`.  A request that is not
answered within its 30 seconds, or is in flight when the task is cancelled (`GroupsStop`), may have made a
group that nobody logs or counts (`Unanswered`).

**Properties.**  `AlertedOnce`.  `KnowsEveryNotice`: after a catch-up no recent notice is unknown, except
those another listener took (`taken`), the catch-up failed on (`left`), or that had as many messages after
them as a catch-up reads (`passed`).  `GroupsKeepTheirDistance`: while a group is asked for, the interval of
the limit has gone by since the last one but for the variation of two to five minutes, unless the
schedule was set anew or an uncounted group was made (`excused`).  `BlockedAtTheLimit`: a block is queued
no sooner than with the limit-th message, so after one warning fewer than the limit; that it comes after
as many warnings as the limit says is not so (section 10).  `ToldOncePerAway`, and the liveness property
`ListenersFollowTheirSwitch`.

**Fairness**: `AccountSession.sleep` has a timeout and so has a call to Telegram, so a task that is
not cancelled goes on: weak fairness of `Loops(p)` for each plugin.  Nothing is assumed of
connections, switches, notices or of the database.

## 9. Runs and bounds

Sizes are distinct states.

| Run | Instance | Shows | Size |
|---|---|---|---|
| `runtime_embedded` | 2 accounts, 1 unlocked tool, `Role = "all"`; edits, deletion and return, failing plan reads | `RunningMeansServing`, `DeadSlotIsUnwanted` | 1,638,279 |
| `runtime_exclusive` | 1 account, 2 locked tools, 2 proxies; crashes, lost writes, edits; no deadline passes | `TypeOK`, `ToolHoldsAckedLease`, `ExclusiveSessionSpec` | 19,234 |
| `runtime_live` | 1 account, 1 unlocked tool, 2 proxies, deadlines, cut-off stops, aborted calls, lost writes, bot crashes, edits, deletion and return | `AckedMeansStopped` and the three liveness properties | 97,784 |
| `billing` | 2 users, 2 codes, 3 days; an admin who makes links beside one redeemer, or 2 redeemers and several legacy rows, or 1 user with 1 admin, 1 invoice, 2 prices, 2 edits and a failing database | `TypeOK`, `VoucherSpec`, `RedeemedWhileValid`, `RedeemAddsItsDays`, `SubscribersAreKnown`, `OnlyTheseShorten`, `RefusedOnlyForAnEdit` | 2,137,207 |
| `commands` | 3 commands out of groups that meet in a slot, a process or a confirmation; queue of 2, 1 worker, 2 messages | all properties of section 5 | 352,593 |
| `accounts` | 2 users of whom one signs in, 2 numbers, 2 clients, 2 handlers in flight, 6 events, plans of 1 account | all properties of section 6 | 1,965,232 |
| `access` | 2 users and the account itself, 2 plans, 3 plugins, limit of 1 admin, 1 renewed link, window of 2 ticks, 2 passwords, 2 password handlers | all properties of section 7 | 1,221,822 |
| `background` | 2 listeners, the monitor and the group task, 2 notices, 2 processes, 2 senders, 1 failing database call, days of 3 ticks | all properties of section 8 | 1,064,475 |
| `shared_lease`, `dead_slot`, `listener_group`, `broadcast_stop` | see section 10 | a documented claim is refuted | - |

Why these bounds are enough for the questions asked:

- *One account* in most runtime runs: nothing in worker or tools couples accounts
  except the main task, which visits them one by one; `runtime_embedded` has two,
  with the main task stopping one while the other serves.  The theorems cover
  any number.
- *Two tools*: the lease row has no owner, so the second writer is what matters.
- *`MaxSession`* counts logins (the first is 0): a deleted account that returns
  with a new login needs two.  *`MaxProxyRetries`* 2 gives a first, a rotated and a last
  attempt.
- *`MaxNow`, `MaxEnd`*: a code can be unexpired, expire today or have expired at the
  claim, and a subscription can end before, on or after the day.  `InBounds` guards
  the ends; `MaxEnd` leaves room for two extensions.
- *`MaxSending`* and *`MaxIssuing`* 2 are the double tap; *`MaxGrants`* 2 is one redelivered
  webhook; *`MaxEdits`* 2 changes a plan and changes it back.  `billing` has three
  *scenes*: the admin's conversation and the payments about one user; the codes with everything
  moving at once, where a second redeemer and old rows are left out; and the codes with these,
  where the links are made before anything else moves.
- *Three commands*: a preparation, its confirmation and one competitor (another
  confirmation, a cancellation, a repeat that fills the queue); or two holders of a
  slot and a stop.  With a queue of 2 the third call is refused.  The instance
  only combines commands that share state.
- *`Times`* 2 is the shortest broadcast that can be stopped in the middle.
- *Six events* of the conversations (updates, timeouts, restarts, edits elsewhere): a
  login to its end takes `/start` with an invite, number, code and password, so two
  more can come between.  Handlers going on are not counted.  Seven events pass as
  well (8 million states) and take minutes.  Two handlers and two clients are
  what it takes for one to overtake the other; conversations of different users
  share only the rows, so one user who signs in is enough while both move numbers.
- *`Scenes`* of `access` and `background` are the parts that move together in one behaviour:
  those that read or write the same variables.  A scene is chosen in the initial state, so
  nothing is fixed but which parts stand still; the theorems have no such restriction
  (`Scenes` is any set of sets of parts).  In `access` nobody but the manager who changes
  the password moves in that scene, and nobody may command the account.
- *`MaxAdmins`* 1: the last place is the only one that is contested.  *Window* 2, limits 1 and 2:
  a command can be in the window of another and out of that of a third, and a role can
  change within a window.
- *Two proxies* in `runtime_live`: a rotation changes the fingerprint and can change it back, which
  one proxy cannot show.
- *Two notices* with a *`CatchUpLimit`* of 2, so that a catch-up can be between them, and so that
  one notice or both can be pushed out of its reach by other messages.
- *`Day`* 3 with limits 0, 1 and 5 gives no interval, one that is longer than the first backoff and
  shorter than the longest (4), and one at the floor of a minute (1 tick) that the variation (1 tick) may
  cancel.  *`MaxWait`* 4 bounds the waits Telegram asks for.  *`WarnLimits`*
  {1, 3}: the limit can jump past the warnings given.  *`MaxTold`* 1 with 2 senders pushes names off the list;
  `MaxLog` 4 lets both be told twice.

Deadlock is checked in the runtime runs.  The other runs switch it
off: an instance ends when its codes, invoices, days, commands, events, notices or links
are used up.

Symmetry is used in safety runs only, over sets whose members are
interchangeable.

## 10. What the code does not keep

Four runs refute something the repository says of itself.

- `shared_lease`: `release_session_lease` deletes the account's row whoever wrote it
  (`runtime/store.py:454`).  Two calls of `use_account_client` share a row; the first
  to finish gives the session back to the worker under the second.
  `runtime/lease.py:3-6` says that Telegram does not see two sessions.
- `dead_slot`: reconcile looks at the fingerprint, never at whether the task still
  runs (`runtime/supervisor.py:244`).  A tool's `mark_session_ok`, written after its
  lease is released, may overwrite the worker's `mark_session_invalid`: the account is
  listed, its slot is dead, and no reconcile starts it.
- `listener_group`: all listeners and the code monitor attach to group 0
  (`plugins/listeners.py:18`, `code_monitor.py:332`), where the client gives a message to the first
  handler that matches.  A listener that is attached first takes every notice from the
  monitor.  `plugins/listeners.py:16` and `src/docs/plugins.md:74` say that all of them still
  receive.
- `broadcast_stop`: `broadcaststop` cancels a running broadcast and nothing else
  (`plugins/broadcast.py:69`).  A prepared one goes on waiting, and a later confirmation sends it.
  `src/docs/commands.md:161` says "Stop or discard a broadcast", and so does the reply to the
  preparation (`plugins/broadcast.py:95`).

Smaller observations without a run are hazards with a note in `PROJECT.json`: the message that
`pmpermit` handles counts before it is answered (`plugins/pmpermit.py:191`), so a sender is blocked at the
limit-th message, after one warning fewer than `plugins/pmpermit.py:69`, `104` and `src/docs/commands.md:152`
say, and with a limit of 1 without any (`test_pm_permit_warns_then_blocks` expects what the code does); the second
tap on *Extend* that extends again (`admin_grants.py:608`), the notice behind the newest 25 messages
that no catch-up finds (`code_monitor.py:392`), the group that a timed-out creation made and nobody
counted (`automation.py:76`), a database error that is read as "nothing is leased"
(`runtime/store.py:632`), the slot that leaks when the status reply of a
download raises (`plugins/download.py:234`), and the plan that `edit_plan_menu_handler` remembers and opens
instead of the one whose button was pressed (`admin_handlers.py:216`).  The models do what the code
does in each case.

## 11. Proofs

All proofs are for arbitrary constants under the named assumptions of the modules:
finite or infinite sets of accounts, tools, users, codes, commands, notices, senders.

`RuntimeProofs!TypeCorrect`.  `TypeInv` is `TypeOK` with the fact that a busy tool
has an account.  One lemma per group of actions.

`LeaseProofs!AckedLeaseIsRespected` assumes that leases can be read
(`LeasesReadable`); every deadline, crash and lost write is allowed.
`AckedMeansStopped` is not inductive: an acknowledgement is written from a snapshot.
The strengthening `LeaseInv` says that the leased slots reconcile has been through
are gone (`LeasedSlotsGone`), that during a reconcile only leases of the snapshot are
acknowledged (`OnlySeenAcked`), and that nothing leased is planned (`LeasedNotDesired`).

`LeaseProofs!RunningFlagIsHonest` assumes `FlagReliable`: no cut-off stop, lost
write or crash.  Each of these makes the flag lie for a while, and reconcile
corrects it only for accounts it starts or stops.

`LeaseProofs!DeadSlotsAreUnwanted` assumes `MarksReliable`: the mark of an invalid
session arrives, and no tool of `account_explorer` marks one.  `DeadInv` follows the
session from the row the worker has read to the slot: a task that gives up by itself has
marked the session it was made with, so its account is barred until it comes back with a
newer one (`DetailsAreOld`, `DeadAreBarred`).  The run `dead_slot` (section 10) shows what
becomes of a slot when a tool overwrites the mark.

`ExclusiveProofs!SessionNeedsLease`, `NeverTwoSessions` and `SessionsAreExclusive` assume
`Orderly`: separate processes, every tool behind the per-account lock, and
neither the 20-second wait nor the lease runs out.  `SessionsAreExclusive` further
assumes that no stop is cut short (`NoCutShort`).  `ToolInv` adds that the lock
admits one tool per account (`OneToolPerAccount`), which is what makes a row without
an owner sufficient.  Every step of `Runtime` is shown to be an `Open`, `Close`,
`CloseAll` or a stutter of `ExclusiveSession`.

`BillingProofs!CodesRedeemedWhileValid`, `SubscribersKnown`, `CodesAreVouchers`.  The
invariant holds the shape of the rows and of the admins' batches (`BatchShape`: whatever is
issued has a plan and days); the essential step is `ClaimCode`, the only one that writes
codes, audit rows and subscription together.  The refinement maps the used, revoked and
unused codes to `Voucher`'s status.

`BillingProofs!BillingTypes`, `RedemptionAddsItsDays` and `NothingElseShortens` are about ends
of subscriptions, so about the greatest of a set of days.  That the set operator `Max` finds
one needs a bound on the rows and the well-foundedness of the numbers (`GreatestOf`);
`ExtensionAdds` then says that a row written `d` days after the latest end is `d` days
later.  A claim, a finished grant and a payment are the steps that write rows; the first two
write no earlier end than the latest unless an admin chose to replace (`ClaimWrites`,
`FinishWrites`), and a payment writes for the user who paid (`PaidWrites`).

`BillingProofs!ApprovedIsNotRefused` is `RefusedOnlyForAnEdit` for any number of invoices: an
invoice that the pre-checkout approved is valid until its plan is edited, and an edit is
noted with every invoice under way (`EditIsNoted`, `PaymentIsNoted`).

`CommandProofs!ConfirmedOnce` and `CancelledGiftsStay`.  That `sent` stays small is not
inductive.  `Inv` follows a request through its life: a command that has not
prepared anything is untouched (`Unheard`), what waits has not been sent and no
confirmation has it (`Waiting`), no two confirmations have the same request
(`OneEach`), a confirmation about to act has an unsent one (`Acting`), and what the
running broadcast has sent and has left is within its cap (`Spreading`).  Most
handlers never touch this and are dealt with by one lemma (`QuietKeepsInv`).
`ConfirmationsHold` maps each step to one of `Confirmation` or a stutter (`Mapped`).  It
needs one thing more: that a handler which has not got as far as a confirmation has taken
nothing (`Confirming`); otherwise a second one would forget the first request it took.
`StoppedJobsAreQuiet` is an action property from the same invariant.
`WorkersSuffice` counts the processes with the theorems on finite sets.
`CommandTypes` says that the queue and the handlers agree: a handler that waits for a call
stands in the queue once, and nobody else does (`QueueInv`; the call at the head leaves it,
and its handler enters again for the next one or is done), and a job in the pool has a
semaphore to give back, whatever became of its account's setting (`SlotInv`).

`ConversationProofs!TypeCorrect` and `SavedSessionsMatch` share an invariant, because a
row is only well typed if the login that saves it has a client, a number and an
owner.  `SessionsMatch` follows from what a login is about to save (`SavesFit`), and
that from `PhoneFits`: a client that Telegram trusts, because its code was accepted or
is being checked with its own number, stands in `user_data` beside that number.  The
two are read together and replaced together, a new client is trusted by nobody, and
`OwnClient` keeps other users' handlers away from it.  Any number of handlers may be in
flight.  Steps that touch none of this are dealt with by one lemma (`QuietStep`).
`NumbersMoveWithTheirOwners` needs that a login never takes a number over from another
list (`OwnersStay`), which `add_managed_account` refuses inside its transaction; what is left is
the move itself, whose transaction looks at the owner and at the recipient's room again.
`NumbersAreSavedForThePrompted` and `NoClientIsForgotten` are about one user whose handlers take
turns.  `CourseInv` says where the one handler in flight stands: from the prompt to the row
the owner in `user_data` is the one that was asked for (`AimFits`), and the client a handler works
on is the one in `user_data`, which it gives up only disconnected (`ClientFits`).  A turn finds its
slot in order and leaves it in order (`TurnKeepsCourse`); one lemma per block of the actions says
how.  Both theorems stop at the first overlap, which the code does not exclude
(`concurrent_updates`, `main.py:167`).

`AccessProofs!OwnersAppoint` and `LimitMissedByOne` share two invariants.  `RightsInv` says that
whoever is about to appoint someone has owned the account: the users whose name is being
looked up, the inserts under way and the commands that wait.  `CountInv` counts the admins
and the inserts under way together: each was begun with room for one, and there is one
process beside it.  `AskedInFull` rests on `DraftsInv` (every question that lies behind is
answered in the draft, if there is one) and `PasswordsInv` (while a confirmation is asked for, a
password that is typed is the last text that was read).

`AccessProofs!AnswersAreLimited` is about two sliding windows that begin at different times, that of
accepted commands and that of notices, so that counting answers alone is not inductive.  `GateInv` compares
the ages: for every `a` within the window, the answers of age at most `a` are no more than the accepted
commands of age at most `a`, and one more only if the last notice can have that age (`Limits`).  At
`a = Window - 1` this is the property.  A decision adds an answer and either a command or the
notice (`DecisionLimited`); a tick moves every age by one and prunes (`TickLimited`).  `_prune` is a
recursive function of a sequence.  That it keeps exactly the ages within the window, for
sequences of any length (`FreshCounts`), is proved by induction over a set of numbers: the
least number outside the set (`LeastNumber`, from the well-foundedness of the numbers) would follow one
inside (`Induction`).

`AccessProofs!AccessTypes` needs more than types.  A conversation waits for a text exactly while it has
a question (`WaitsInv`), which holds because the handlers that change the one change the other, and a start
link neither; a plan that an administrator edits exists (`PlansInv`), which holds because a draft
that is saved has every answer (`DraftsInv`) and no plan is ever deleted.  It assumes that there is
a name and a limit to type (`TypedAssumption`) and that no state of a conversation is called `None`
(`PromptAssumption`).

`BackgroundProofs!NoticesAreForwardedOnce`: `AlertInv` says that what was forwarded and is not past the
six hours is still marked, which pruning and a forgetful restart keep.  `NoneIsBlockedEarly`:
a row that is not blocked counts no more warnings than were given (`GuardInv`), also when a
row or a limit could not be read; so a block needs a limit-th message.  `GroupsAreSpaced`: the
schedule is earlier than the limit allows by no more than a variation (`OnTime`), unless it was set
anew or a group was not counted, and a creation begins only when it has come (`DistanceInv`).  Limits,
variations and backoffs are any: an interval may be shorter than its variation, a backoff longer than a day.
`TellsOnce`: the list ends as the history does, for as long as it remembers (`TellsInv`).

`BackgroundProofs!NoticesAreKnown`: `MonitorInv` says where a recent notice that is not marked may be: with another
plugin's listener, behind the messages the last catch-up read, or, while the monitor's task is catching up, among
what it still has to look at (`Excuses`).  The step that matters is the fetch, which divides the
recent notices into those it found and those behind them, and finds the handlers attached since before
it; what arrives after it meets a handler.  So the invariant says too that the
task is attached in both of these phases.  `TypeOK`, which
`BackgroundTypes` proves, says that no plugin is attached twice (`Distinct`) and none while the
account is not served; what `RemoveFirst` and `Append` do to such a sequence is proved for every
sequence (`WithoutRemoves`, `AppendAdds`).

Every safety property that a passing run checks is stated by a theorem.  What is model-checked only is
liveness, which needs fairness and ENABLED: `LeaseIsAnswered`, `UnlistedAccountsAreStopped`,
`ListedAccountsAreServed`, `StoppedDownloadsLetGo`, `EveryCallEnds` and
`ListenersFollowTheirSwitch`.

## 12. What is not modelled

- Wall-clock lengths.  A deadline passes or does not; the relative order of 20 and
  180 seconds is used in fairness only.  The gap of the limiter is a flag; windows and
  schedules count ticks.
- The database: every transaction is atomic and isolated, except `add_account_admin` and
  `redeem_activation_code`, whose reads another process can overtake.  Errors appear where
  the code handles them.
- What a child process does, the wording of messages, menus and listings; parsing of
  commands and of settings.
- Updates that Telegram drops or the bot discards at its start (`main.py:207`, `266`); wherever a
  user's message is not handled it simply does not arrive.
- Health probes, the cache of plugin settings; restarts of the bot during a payment.
- `tagall`, which shares the job slots with the broadcast; `autoreply`, `storage`, `locks` and
  `games`, which attach as the other listeners do and then answer one message with one.
- `run_group_creation_cycle` of `automation.py`, which no role schedules any more: the plugin
  task does its work.
- Proxy and device profile of a login, the proxies' own table, custom end dates of a grant.
- `migrate_sqlite`: one offline pass with nothing beside it.
- The components with status `not_modelled` in `PROJECT.json`; texts and media
  conversion have no state worth a model.

## 13. Plan

The core came first: sessions, because two processes meet there; subscriptions
and payments, because money does; the command queue, because everything an account
does goes through it; the conversations, because they overlap; then who may do what,
and what an account does by itself.  What is left, most valuable first:

1. A composition of `PluginTasks` with `Supervisor`, in place of the nondeterministic
   `Connects` and `Disconnects`, with the health probe that shares the queue of
   `AccountLimiter` (`runtime/supervisor.py:464`).
2. The cache of plugin settings and its signals between bot and worker
   (`runtime/signals.py`).
