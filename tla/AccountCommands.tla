-------------------------- MODULE AccountCommands --------------------------
(***************************************************************************)
(* The commands one running account answers (runtime/plugins.Dispatcher,   *)
(* plugins/): handlers run side by side in one event loop and meet in the  *)
(* account's call queue, in the slots and processes of long jobs, and in   *)
(* what was prepared and waits for a confirmation.  A step lasts from one  *)
(* await to the next.                                                      *)
(***************************************************************************)
EXTENDS AccountLimiter, WorkPool

CONSTANTS Traffic,      \* bound: the sequences of commands that arrive
          Times         \* bound: messages of a repeat, of a broadcast

\* The commands that arrive, in the order of the updates
Msg == Caller

ASSUME MsgAssumption == Job = Msg /\ Msg \subseteq Nat \ {0}
ASSUME TimesAssumption == Times \in Nat \ {0}

\* What waits for a confirmation: the commands that prepare it
Confirmable == {"broadcast", "gift", "transfer"}

AllKinds == {"video", "search", "dlstop", "convert", "repeat", "repeatstop",
             "broadcast", "broadcaststop", "confirmbroadcast",
             "gift", "giftcancel", "giftconfirm", "transfer", "cloudpass"}

ASSUME TrafficAssumption == Traffic \subseteq [Msg -> AllKinds]

VARIABLES
    kind, at,       \* what a message asks for, and where its handler is
    size,           \* the number of slots its handler read from the settings
    left,           \* messages a repeat or a broadcast has still to send
    pending,        \* Confirmable -> the command that prepared it, 0 for none
    subject,        \* the command whose request a confirmation carries out
    job, stop,      \* the broadcast that runs, 0 for none, and its event
    sent,           \* history: how often a prepared request was carried out
    discarded       \* history: the requests the account discarded while they waited

handlerVars == <<kind, at, size, left, pending, subject, job, stop, sent, discarded>>
vars == <<limiterVars, poolVars, handlerVars>>

\* Where a handler waits for a call of its own, and for the pool
CallLabels == {"reply", "status", "fetch", "noting", "upload", "clear", "tell", "send",
               "collect", "spread", "final", "sorry", "lookup", "unlink", "act"}
PoolLabels == {"account", "global", "process"}
Labels == CallLabels \cup PoolLabels \cup {"new", "pause", "done"}

TypeOK ==
    /\ LimiterTypeOK /\ PoolTypeOK
    /\ kind \in Traffic /\ at \in [Msg -> Labels]
    /\ size \in [Msg -> 1..2] /\ left \in [Msg -> 0..Times]
    /\ pending \in [Confirmable -> Msg \cup {0}]
    /\ subject \in [Msg -> Msg \cup {0}]
    /\ job \in Msg \cup {0} /\ stop \in BOOLEAN
    /\ sent \in [Msg -> Nat] /\ discarded \subseteq Msg
    /\ \A m \in Msg : Queued(m) <=> at[m] \in CallLabels

Init ==
    /\ LimiterInit /\ PoolInit
    /\ kind \in Traffic /\ at = [m \in Msg |-> "new"]
    /\ size = [m \in Msg |-> 1] /\ left = [m \in Msg |-> 0]
    /\ pending = [c \in Confirmable |-> 0] /\ subject = [m \in Msg |-> 0]
    /\ job = 0 /\ stop = FALSE
    /\ sent = [m \in Msg |-> 0] /\ discarded = {}
-----------------------------------------------------------------------------
(***************************************************************************)
(* Moving a handler.                                                       *)
(***************************************************************************)
\* The label lies inside the try block whose finally releases the slot.
InTry(k, label) ==
    \/ k = "video" /\ label \in PoolLabels \cup {"noting", "upload", "clear", "tell"}
    \/ k = "search" /\ label \in PoolLabels
    \/ k = "repeat" /\ label \in {"send", "pause"}

SlotOf(k) == IF k = "repeat" THEN "repeat" ELSE "download"

\* finish_job
Finish(m, label) == job' = IF job = m /\ label = "done" THEN 0 ELSE job

\* The handler of m goes on to label, through the finally blocks it leaves
Goes(m, label) ==
    /\ at' = [at EXCEPT ![m] = label]
    /\ held' = IF InTry(kind[m], at[m]) /\ ~InTry(kind[m], label)
               THEN Without(SlotOf(kind[m]), m) ELSE held
    /\ Finish(m, label)

\* limiter.run raises at once when the queue is full, and so would whatever the
\* handler tries next: it ends.
Reached(label) == IF label \in CallLabels /\ Full(queue) THEN "done" ELSE label

\* From a point outside the queue
GoesOn(m, label) ==
    /\ Goes(m, Reached(label))
    /\ IF Reached(label) \in CallLabels THEN Enters(m) ELSE UNCHANGED limiterVars

\* The call of m is over, and its handler goes on
Returns(m, ok, label) ==
    /\ CallEnds(m, ok, label \in CallLabels)
    /\ Goes(m, label)

\* m arrives, the next command in the order of the updates, and is dispatched
Arrives(m, k, label) ==
    /\ at[m] = "new" /\ \A n \in Msg : n < m => at[n] # "new"
    /\ kind[m] = k /\ UNCHANGED kind
    /\ at' = [at EXCEPT ![m] = Reached(label)]
    /\ IF Reached(label) \in CallLabels THEN Enters(m) ELSE UNCHANGED limiterVars
-----------------------------------------------------------------------------
(***************************************************************************)
(* Downloads, searches and conversions.                                    *)
(***************************************************************************)
Media == {"video", "search", "convert"}

\* download._download and _search up to the status message, convert.handle
MediaArrives(m) ==
    /\ \/ /\ Arrives(m, "convert", "status")
          /\ UNCHANGED <<held, size>>
       \/ \E k \in {"video", "search"}, n \in 1..2 :
             /\ size' = [size EXCEPT ![m] = n]
             /\ IF HasRoom("download", n)
                THEN Arrives(m, k, "status") /\ held' = With("download", m)
                ELSE Arrives(m, k, "reply") /\ UNCHANGED held
    /\ UNCHANGED <<cancelled, workVars, left, pending, subject, job, stop, sent, discarded>>

\* What follows a call: edit_status and clear_status swallow their errors
AfterMediaCall(m, ok) ==
    CASE at[m] = "status" -> IF ~ok THEN {"done"}
                             ELSE IF kind[m] = "convert" THEN {"fetch"} ELSE {"account"}
      [] at[m] = "fetch"  -> IF ok THEN {"account", "tell"} ELSE {"done"}
      [] at[m] = "noting" -> {"upload"}
      [] at[m] = "upload" -> IF ok THEN {"clear"} ELSE {"done"}
      [] at[m] \in {"clear", "tell"} -> {"done"}

MediaReturns(m) ==
    /\ kind[m] \in Media /\ at[m] \in {"status", "fetch", "noting", "upload", "clear", "tell"}
    /\ \E ok \in BOOLEAN : \E label \in AfterMediaCall(m, ok) :
          /\ Returns(m, ok, label)
          /\ IF label = "account" THEN AsksFor(m, size[m]) /\ UNCHANGED running
                                  ELSE UNCHANGED workVars
    /\ UNCHANGED <<cancelled, kind, size, left, pending, subject, stop, sent, discarded>>

\* run_named, under one semaphore and then the other
MediaWaits(m) ==
    /\ \/ at[m] = "account" /\ TakesAccount(m) /\ GoesOn(m, "global")
       \/ at[m] = "global" /\ TakesWorker(m) /\ GoesOn(m, "process")
    /\ UNCHANGED <<cancelled, kind, size, left, pending, subject, stop, sent, discarded>>

\* Mutant: the event does not end the wait for the global semaphore
WatchesAccountOnly(m) == at[m] = "account"

\* _acquire looks at the event between its attempts
Watches(m) == at[m] \in {"account", "global"}

\* _acquire sees the event and gives up: "cancelled"
MediaGivesUp(m) ==
    /\ Watches(m) /\ m \in cancelled
    /\ LeavesPool(m) /\ GoesOn(m, "tell")
    /\ UNCHANGED <<cancelled, kind, size, left, pending, subject, stop, sent, discarded>>

\* The process ends, by itself or terminated
ProcessEnds(m) ==
    /\ at[m] = "process"
    /\ LeavesPool(m)
    /\ \/ GoesOn(m, "tell")
       \/ kind[m] # "search" /\ GoesOn(m, "noting")
    /\ UNCHANGED <<cancelled, kind, size, left, pending, subject, stop, sent, discarded>>

-----------------------------------------------------------------------------
(***************************************************************************)
(* plugins/repeat.py and the commands that stop what holds a slot.         *)
(***************************************************************************)
RepeatArrives(m) ==
    /\ IF HasRoom("repeat", 1)
       THEN /\ Arrives(m, "repeat", "send")
            /\ held' = IF Full(queue) THEN held ELSE With("repeat", m)
            /\ \E n \in 1..Times : left' = [left EXCEPT ![m] = n]
       ELSE /\ Arrives(m, "repeat", "reply")
            /\ UNCHANGED <<held, left>>
    /\ UNCHANGED <<cancelled, workVars, size, pending, subject, job, stop, sent, discarded>>

RepeatReturns(m) ==
    /\ at[m] = "send"
    /\ left' = [left EXCEPT ![m] = @ - 1]
    /\ \E ok \in BOOLEAN :
          Returns(m, ok, IF ok /\ left[m] > 1 /\ m \notin cancelled THEN "pause" ELSE "done")
    /\ UNCHANGED <<cancelled, workVars, kind, size, pending, subject, stop, sent, discarded>>

\* Mutant: the event is not looked at again after the pause
Heedless(m) == FALSE

\* slot.cancel.is_set()
Stopped(m) == m \in cancelled

RepeatGoesOn(m) ==
    /\ at[m] = "pause"
    /\ GoesOn(m, IF Stopped(m) THEN "done" ELSE "send")
    /\ UNCHANGED <<cancelled, workVars, kind, size, left, pending, subject, stop, sent, discarded>>

StopArrives(m) ==
    /\ \/ Arrives(m, "dlstop", "reply") /\ CancelKind("download")
       \/ Arrives(m, "repeatstop", "reply") /\ CancelKind("repeat")
    /\ UNCHANGED <<held, workVars, size, left, pending, subject, job, stop, sent, discarded>>

ReplyReturns(m) ==
    /\ at[m] = "reply"
    /\ \E ok \in BOOLEAN : Returns(m, ok, "done")
    /\ UNCHANGED <<cancelled, workVars, kind, size, left, pending, subject, stop, sent, discarded>>
-----------------------------------------------------------------------------
(***************************************************************************)
(* plugins/broadcast.py, gifts.py and createchat.py: what is prepared      *)
(* first and done after a confirmation.                                    *)
(***************************************************************************)
\* _pending[ctx.account_id] = ...: a later command replaces what waits
Prepared(c, m) == pending' = [pending EXCEPT ![c] = m]

PrepareArrives(m) ==
    /\ \E c \in {"broadcast", "transfer"} : Arrives(m, c, "reply") /\ Prepared(c, m)
    /\ UNCHANGED <<poolVars, size, left, subject, job, stop, sent, discarded>>

\* Mutant: what waits is dropped when it has been carried out, not before
TakesLate(c, m) == /\ subject' = [subject EXCEPT ![m] = pending[c]]
                   /\ UNCHANGED pending

\* _pending.pop before the first await
Takes(c, m) == /\ subject' = [subject EXCEPT ![m] = pending[c]]
               /\ pending' = [pending EXCEPT ![c] = 0]

\* broadcast._run
ConfirmArrives(m) ==
    /\ \/ /\ pending["broadcast"] = 0 \/ job # 0
          /\ Arrives(m, "confirmbroadcast", "reply")
          /\ UNCHANGED <<pending, subject, job, stop>>
       \/ /\ pending["broadcast"] # 0 /\ job = 0
          /\ Arrives(m, "confirmbroadcast", "collect")
          /\ Takes("broadcast", m)
          /\ stop' = FALSE
          /\ job' = IF Full(queue) THEN 0 ELSE m
    /\ UNCHANGED <<poolVars, size, left, sent, discarded>>

\* broadcaststop stops the broadcast that runs, and leaves what waits alone
BroadcastStopArrives(m) ==
    /\ Arrives(m, "broadcaststop", "reply")
    /\ stop' = (stop \/ job # 0)
    /\ discarded' = IF job = 0 THEN discarded \cup ({pending["broadcast"]} \ {0}) ELSE discarded
    /\ UNCHANGED <<poolVars, size, left, pending, subject, job, sent>>

BroadcastReturns(m) ==
    /\ job = m /\ at[m] \in CallLabels
    /\ \E ok \in BOOLEAN :
          CASE at[m] = "collect" ->
                 /\ Returns(m, ok, IF ok THEN "status" ELSE "sorry")
                 /\ \E n \in IF ok THEN 0..Times ELSE {0} : left' = [left EXCEPT ![m] = n]
                 /\ UNCHANGED sent
            [] at[m] = "status" ->
                 /\ Returns(m, ok, IF ~ok THEN "sorry"
                                   ELSE IF stop \/ left[m] = 0 THEN "final" ELSE "spread")
                 /\ UNCHANGED <<left, sent>>
            [] at[m] = "spread" ->
                 /\ Returns(m, ok, IF stop \/ left[m] = 1 THEN "final" ELSE "spread")
                 /\ left' = [left EXCEPT ![m] = @ - 1]
                 /\ sent' = IF ok THEN [sent EXCEPT ![subject[m]] = @ + 1] ELSE sent
            [] at[m] = "final" ->
                 /\ Returns(m, ok, IF ok THEN "done" ELSE "sorry")
                 /\ UNCHANGED <<left, sent>>
            [] at[m] = "sorry" -> Returns(m, ok, "done") /\ UNCHANGED <<left, sent>>
    /\ UNCHANGED <<cancelled, workVars, kind, size, pending, subject, stop, discarded>>

\* gifts._prepare: the price is looked up first, and its errors are swallowed
GiftArrives(m) ==
    /\ Arrives(m, "gift", "lookup")
    /\ IF Full(queue) THEN Prepared("gift", m) ELSE UNCHANGED pending
    /\ UNCHANGED <<poolVars, size, left, subject, job, stop, sent, discarded>>

LookupReturns(m) ==
    /\ at[m] = "lookup"
    /\ \E ok \in BOOLEAN : /\ Returns(m, ok, "reply")
                           /\ \/ Prepared("gift", m)
                              \/ ok /\ UNCHANGED pending     \* sold out
    /\ UNCHANGED <<cancelled, workVars, kind, size, left, subject, stop, sent, discarded>>

\* Mutant: the pending gift is kept
KeptGift == UNCHANGED pending

DroppedGift == pending' = [pending EXCEPT !["gift"] = 0]

GiftCancelArrives(m) ==
    /\ Arrives(m, "giftcancel", "reply")
    /\ DroppedGift
    /\ discarded' = discarded \cup ({pending["gift"]} \ {0})
    /\ UNCHANGED <<poolVars, size, left, subject, job, stop, sent>>

GiftConfirmArrives(m) ==
    /\ IF pending["gift"] = 0
       THEN Arrives(m, "giftconfirm", "reply") /\ UNCHANGED <<pending, subject>>
       ELSE Arrives(m, "giftconfirm", "act") /\ Takes("gift", m)
    /\ UNCHANGED <<poolVars, size, left, job, stop, sent, discarded>>

\* createchat._password, after the password's message is deleted or not: it came in
\* the wrong chat, it is empty, nothing waits, or the transfer is made
PasswordArrives(m) ==
    /\ Arrives(m, "cloudpass", "unlink")
    /\ \/ UNCHANGED <<pending, subject>>
       \/ Full(queue) /\ pending["transfer"] # 0 /\ Takes("transfer", m)
    /\ UNCHANGED <<poolVars, size, left, job, stop, sent, discarded>>

PasswordRead(m) ==
    /\ at[m] = "unlink"
    /\ \E ok \in BOOLEAN :
          \/ Returns(m, ok, "reply") /\ UNCHANGED <<pending, subject>>
          \/ /\ pending["transfer"] # 0
             /\ Returns(m, ok, "act") /\ Takes("transfer", m)
    /\ UNCHANGED <<cancelled, workVars, kind, size, left, stop, sent, discarded>>

\* send_gift, transfer_chat_ownership
ActReturns(m) ==
    /\ at[m] = "act"
    /\ \E ok \in BOOLEAN :
          /\ Returns(m, ok, "reply")
          /\ sent' = IF ok THEN [sent EXCEPT ![subject[m]] = @ + 1] ELSE sent
    /\ UNCHANGED <<cancelled, workVars, kind, size, left, pending, subject, stop, discarded>>

\* _PENDING_SECONDS are over; the confirmation finds nothing then
PendingExpires(c) ==
    /\ c # "broadcast" /\ pending[c] # 0
    /\ pending' = [pending EXCEPT ![c] = 0]
    /\ UNCHANGED <<limiterVars, poolVars, kind, at, size, left, subject, job, stop, sent, discarded>>
-----------------------------------------------------------------------------
Arrival(m) ==
    \/ MediaArrives(m) \/ RepeatArrives(m) \/ StopArrives(m)
    \/ PrepareArrives(m) \/ ConfirmArrives(m) \/ BroadcastStopArrives(m)
    \/ GiftArrives(m) \/ GiftCancelArrives(m) \/ GiftConfirmArrives(m) \/ PasswordArrives(m)

HandlerReturns(m) ==
    \/ MediaReturns(m) \/ RepeatReturns(m) \/ ReplyReturns(m) \/ BroadcastReturns(m)
    \/ LookupReturns(m) \/ PasswordRead(m) \/ ActReturns(m)

Next ==
    \/ \E m \in Msg : \/ Arrival(m) \/ HandlerReturns(m) \/ RepeatGoesOn(m)
                      \/ MediaWaits(m) \/ MediaGivesUp(m) \/ ProcessEnds(m)
    \/ \E c \in Confirmable : PendingExpires(c)
    \/ LimiterStep /\ UNCHANGED <<poolVars, handlerVars>>

Spec == Init /\ [][Next]_vars

\* Telegram answers every call in the end, time passes, the event loop is fair, and
\* a process whose event is set is terminated.  Nothing is assumed of a process that
\* nobody stops.
Fairness ==
    /\ WF_vars(LimiterStep /\ UNCHANGED <<poolVars, handlerVars>>)
    /\ \A m \in Msg : /\ WF_vars(HandlerReturns(m))
                      /\ WF_vars(RepeatGoesOn(m))
                      /\ WF_vars(MediaGivesUp(m))
                      /\ WF_vars(m \in cancelled /\ ProcessEnds(m))

FairSpec == Spec /\ Fairness
-----------------------------------------------------------------------------
(***************************************************************************)
(* Properties.                                                             *)
(***************************************************************************)
\* What was prepared is carried out at most once: a second confirmation, or one
\* that runs beside it, finds nothing.
OncePerConfirmation ==
    \A m \in Msg : sent[m] <= IF kind[m] = "broadcast" THEN Times ELSE 1

\* The commands that have asked for a confirmation, or found nothing to ask for
Asked == {m \in Msg : kind[m] \in Confirmable /\ at[m] \notin {"new", "lookup"}}

\* The requests that confirmations have taken
Taken == {<<kind[p], p>> : p \in {subject[m] : m \in Msg} \ {0}}

\* How often a confirmed request is carried out
Most == [c \in Confirmable |-> IF c = "broadcast" THEN Times ELSE 1]

Confirmed == INSTANCE Confirmation WITH
    Request <- Msg, Kind <- Confirmable, None <- 0, Most <- Most,
    asked <- Asked, waiting <- pending, taken <- Taken, done <- sent

\* A confirmation carries out the request that waits when it comes, and no other:
\* not one that was replaced, expired or taken before, not a gift that was cancelled,
\* and not one that a slow handler prepares in between (broadcast.py:113, gifts.py:141,
\* createchat.py:133).  A broadcast waits until it is replaced or confirmed, for
\* broadcaststop does not drop it: see DiscardedBroadcastsAreNotSent.
TakesWhatWaits == Confirmed!Spec

\* "Gift cancelled. Nothing was sent." (gifts.py:75)
CancelledGiftsAreNotSent == \A m \in discarded : kind[m] = "gift" => sent[m] = 0

\* "Send .confirmbroadcast to start, or .broadcaststop to discard" (broadcast.py:95),
\* "Stop or discard a broadcast" (docs/commands.md:161): a broadcast that waited when
\* the account sent broadcaststop, with none running, is not sent.
DiscardedBroadcastsAreNotSent ==
    \A m \in discarded : kind[m] = "broadcast" => sent[m] = 0

\* "At most media_workers jobs run at once" (work_pool.py:3), although a change of an
\* account's setting lets jobs of the old size and of the new one run together
ProcessesWithinWorkers == Cardinality(running) <= Workers

\* A job that has been stopped hands no further message to the queue
\* (repeat.py:122, broadcast.py:139).
StoppedJobsSendNoMore ==
    [][\A m \in Msg :
          /\ at[m] = "pause" /\ at'[m] = "send" => m \notin cancelled
          /\ at'[m] = "spread" /\ (at[m] = "status" \/ left'[m] < left[m]) => ~stop]_vars

\* A stopped download gives its slot back, even when its process or one before it
\* hangs (download.py:283).
StoppedDownloadsLetGo ==
    \A m \in Msg : (InTry(kind[m], at[m]) /\ m \in cancelled) ~> m \notin held["download"]

\* "A download is already running" (download.py:162) is answered only while one is.
BusyMeansRunning ==
    \A m \in held["download"] : InTry(kind[m], at[m]) \/ at[m] = "status"

\* Every call gets its turn: neither the gap, a FloodWait nor an error holds up the
\* queue for good (flood.py:70).
EveryCallEnds == \A m \in Msg : Queued(m) ~> ~Queued(m)
=============================================================================
