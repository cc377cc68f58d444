---------------------------- MODULE CommandProofs ----------------------------
(***************************************************************************)
(* What waits for a confirmation is carried out at most once, and not at   *)
(* all when it has been cancelled; a stopped job sends no more; and the    *)
(* queue holds who waits for it: for any commands in any order.            *)
(***************************************************************************)
EXTENDS AccountCommands, TLAPS, FiniteSetTheorems, SequenceTheorems

\* The handlers' variables hold what TypeOK says of them.
HandlerTypes ==
    /\ kind \in [Msg -> AllKinds] /\ at \in [Msg -> Labels]
    /\ left \in [Msg -> 0..Times]
    /\ pending \in [Confirmable -> Msg \cup {0}]
    /\ subject \in [Msg -> Msg \cup {0}]
    /\ job \in Msg \cup {0}
    /\ sent \in [Msg -> Nat] /\ discarded \subseteq Msg

\* No confirmation has taken the request of p.
Fresh(p) == sent[p] = 0 /\ \A n \in Msg : subject[n] # p

\* A command that has prepared nothing yet
Unprepared == {"new", "lookup"}

Unheard == \A m \in Msg : at[m] \in Unprepared =>
              /\ Fresh(m) /\ m \notin discarded
              /\ at[m] = "lookup" => kind[m] = "gift"

Waiting == \A c \in Confirmable : pending[c] # 0 =>
              /\ kind[pending[c]] = c
              /\ at[pending[c]] \notin Unprepared
              /\ Fresh(pending[c])

Dropped == \A p \in discarded : kind[p] = "gift" => Fresh(p) /\ pending["gift"] # p

\* Two confirmations never carry out the same request.
OneEach == \A m, n \in Msg : subject[m] = subject[n] /\ subject[m] # 0 => m = n

Counting == \A m \in Msg : at[m] \in {"send", "pause", "spread"} => left[m] >= 1

Acting == \A m \in Msg : at[m] = "act" =>
              /\ subject[m] # 0 /\ kind[subject[m]] # "broadcast"
              /\ sent[subject[m]] = 0

JobLabels == {"collect", "status", "spread", "final", "sorry"}

Spreading == job # 0 =>
              /\ at[job] \in JobLabels /\ kind[job] = "confirmbroadcast"
              /\ subject[job] # 0 /\ kind[subject[job]] = "broadcast"
              /\ at[job] = "collect" => sent[subject[job]] = 0
              /\ at[job] \in {"status", "spread"} => sent[subject[job]] + left[job] <= Times

\* The inductive invariant
Inv == /\ HandlerTypes /\ Unheard /\ Waiting /\ Dropped /\ OneEach
       /\ Counting /\ Acting /\ Spreading /\ OncePerConfirmation

\* A step of a handler that leaves alone what waits and what has been confirmed
Quiet(m, label, n) ==
    /\ at' = [at EXCEPT ![m] = label]
    /\ left' = [left EXCEPT ![m] = n]
    /\ job' = job
    /\ UNCHANGED <<kind, pending, subject, sent, discarded>>

\* The invariant holds before the first command.
LEMMA InvInitially == ASSUME Init PROVE Inv
  BY MsgAssumption, TimesAssumption, TrafficAssumption
  DEF Init, Inv, HandlerTypes, Labels, Unheard, Unprepared, Fresh, Waiting, Dropped, OneEach,
      Counting, Acting, Spreading, OncePerConfirmation, Confirmable

\* A quiet step keeps the invariant.
LEMMA QuietKeepsInv ==
    ASSUME Inv, NEW m \in Msg, NEW label \in Labels \ (Unprepared \cup {"act"}),
           NEW n \in 0..Times, Quiet(m, label, n), m # job,
           label \in {"send", "pause", "spread"} => n >= 1
    PROVE  Inv'
<1>1. at'[m] = label /\ left'[m] = n
      /\ \A k \in Msg \ {m} : at'[k] = at[k] /\ left'[k] = left[k]
  BY DEF Inv, HandlerTypes, Quiet
<1>2. /\ kind' = kind /\ pending' = pending /\ subject' = subject
      /\ sent' = sent /\ discarded' = discarded /\ job' = job
  BY DEF Quiet
<1>3. HandlerTypes'
  BY <1>2 DEF Inv, HandlerTypes, Quiet
<1>4. \A p \in Msg : Fresh(p)' <=> Fresh(p)
  BY <1>2 DEF Fresh
<1>5. Unheard'
  BY <1>1, <1>2, <1>4 DEF Inv, Unheard, Unprepared
<1>6. Waiting'
  BY <1>1, <1>2, <1>4 DEF Inv, HandlerTypes, Waiting, Unprepared
<1>7. Dropped' /\ OneEach' /\ OncePerConfirmation'
  BY <1>2, <1>4 DEF Inv, HandlerTypes, Dropped, OneEach, OncePerConfirmation
<1>8. Counting'
  BY <1>1 DEF Inv, Counting
<1>9. Acting'
  BY <1>1, <1>2 DEF Inv, Acting
<1>10. Spreading'
  BY <1>1, <1>2 DEF Inv, HandlerTypes, Spreading
<1> QED BY <1>3, <1>5, <1>6, <1>7, <1>8, <1>9, <1>10 DEF Inv

\* The label a handler reaches is the one it went to, or it ends.
LEMMA ReachedLabel == ASSUME NEW label PROVE Reached(label) \in {label, "done"}
  BY DEF Reached

\* The command that arrives is neither the broadcast that runs nor one that has
\* prepared anything.
LEMMA NewIsUnheard ==
    ASSUME Inv, NEW m \in Msg, at[m] = "new"
    PROVE  m # job /\ Fresh(m) /\ m \notin discarded
  BY MsgAssumption DEF Inv, Unheard, Unprepared, Spreading, JobLabels

\* A handler outside the broadcast's labels is not the broadcast that runs.
LEMMA NotTheJob ==
    ASSUME Inv, NEW m \in Msg, at[m] \notin JobLabels \/ kind[m] # "confirmbroadcast"
    PROVE  m # job
  BY MsgAssumption DEF Inv, Spreading

\* An arrival that prepares and confirms nothing is quiet.
LEMMA QuietArrival ==
    ASSUME Inv, NEW m \in Msg, NEW k, NEW label \in Labels \ (Unprepared \cup {"act"}),
           NEW n \in 0..Times, Arrives(m, k, label), left' = [left EXCEPT ![m] = n],
           UNCHANGED <<pending, subject, job, sent, discarded>>,
           label \in {"send", "pause", "spread"} => n >= 1
    PROVE  Inv'
<1>1. Quiet(m, Reached(label), n)
  BY DEF Arrives, Quiet
<1>2. Reached(label) \in Labels \ (Unprepared \cup {"act"})
      /\ (Reached(label) \in {"send", "pause", "spread"} => n >= 1)
  BY ReachedLabel DEF Labels, Unprepared
<1>3. m # job
  BY NewIsUnheard DEF Arrives
<1> QED BY <1>1, <1>2, <1>3, QuietKeepsInv

\* A handler that moves within its own labels is quiet, unless it is the broadcast.
LEMMA QuietMove ==
    ASSUME Inv, NEW m \in Msg, m # job, NEW label \in Labels \ (Unprepared \cup {"act"}),
           Goes(m, label), NEW n \in 0..Times, left' = [left EXCEPT ![m] = n],
           UNCHANGED <<kind, pending, subject, sent, discarded>>,
           label \in {"send", "pause", "spread"} => n >= 1
    PROVE  Inv'
<1>1. Quiet(m, label, n)
  BY DEF Goes, Finish, Quiet
<1> QED BY <1>1, QuietKeepsInv

\* A count that does not change
LEMMA SameLeft ==
    ASSUME Inv, NEW m \in Msg, left' = left
    PROVE  left[m] \in 0..Times /\ left' = [left EXCEPT ![m] = left[m]]
  BY DEF Inv, HandlerTypes
-----------------------------------------------------------------------------
\* Downloads, searches and conversions keep the invariant.
LEMMA MediaKeepsInv ==
    ASSUME Inv, NEW m \in Msg,
           MediaArrives(m) \/ MediaReturns(m) \/ MediaWaits(m) \/ MediaGivesUp(m) \/ ProcessEnds(m)
    PROVE  Inv'
<1>0. left[m] \in 0..Times /\ left' = [left EXCEPT ![m] = left[m]]
  BY SameLeft DEF MediaArrives, MediaReturns, MediaWaits, MediaGivesUp, ProcessEnds
<1>1. CASE MediaArrives(m)
  <2>1. PICK k \in AllKinds, label \in {"status", "reply"} : Arrives(m, k, label)
    BY <1>1 DEF MediaArrives, AllKinds
  <2>2. label \in Labels \ (Unprepared \cup {"act"}) /\ label \notin {"send", "pause", "spread"}
    BY DEF Labels, CallLabels, Unprepared
  <2>3. UNCHANGED <<pending, subject, job, sent, discarded>>
    BY <1>1 DEF MediaArrives
  <2> QED BY <1>0, <2>1, <2>2, <2>3, QuietArrival
<1>2. CASE MediaReturns(m)
  <2>1. m # job
    BY <1>2, NotTheJob DEF MediaReturns, Media
  <2>2. PICK ok \in BOOLEAN : \E label \in AfterMediaCall(m, ok) : Returns(m, ok, label)
    BY <1>2 DEF MediaReturns
  <2>3. PICK label \in AfterMediaCall(m, ok) : Returns(m, ok, label)
    BY <2>2
  <2>4. at[m] \in {"status", "fetch", "noting", "upload", "clear", "tell"}
    BY <1>2 DEF MediaReturns
  <2>5. label \in {"done", "fetch", "account", "tell", "upload", "clear"}
    BY <2>3, <2>4 DEF AfterMediaCall
  <2>6. label \in Labels \ (Unprepared \cup {"act"}) /\ label \notin {"send", "pause", "spread"}
    BY <2>5 DEF Labels, CallLabels, PoolLabels, Unprepared
  <2>7. Goes(m, label) /\ UNCHANGED <<kind, pending, subject, sent, discarded>>
    BY <1>2, <2>3 DEF MediaReturns, Returns
  <2> QED BY <1>0, <2>1, <2>6, <2>7, QuietMove
<1>3. CASE MediaWaits(m) \/ MediaGivesUp(m) \/ ProcessEnds(m)
  <2>1. m # job
    BY <1>3, NotTheJob DEF MediaWaits, MediaGivesUp, Watches, ProcessEnds, JobLabels
  <2>2. PICK goal \in {"global", "process", "tell", "noting"} : GoesOn(m, goal)
    BY <1>3 DEF MediaWaits, MediaGivesUp, ProcessEnds
  <2>3. Goes(m, Reached(goal)) /\ Reached(goal) \in {goal, "done"}
    BY <2>2, ReachedLabel DEF GoesOn
  <2>4. Reached(goal) \in Labels \ (Unprepared \cup {"act"})
        /\ Reached(goal) \notin {"send", "pause", "spread"}
    BY <2>3 DEF Labels, CallLabels, PoolLabels, Unprepared
  <2>5. UNCHANGED <<kind, pending, subject, sent, discarded>>
    BY <1>3 DEF MediaWaits, MediaGivesUp, ProcessEnds
  <2> QED BY <1>0, <2>1, <2>3, <2>4, <2>5, QuietMove
<1> QED BY <1>1, <1>2, <1>3

\* Repeats, the stop commands and the replies keep the invariant.
LEMMA RepeatKeepsInv ==
    ASSUME Inv, NEW m \in Msg,
           \/ RepeatArrives(m) \/ RepeatReturns(m) \/ RepeatGoesOn(m)
           \/ StopArrives(m) \/ ReplyReturns(m)
    PROVE  Inv'
<1>1. CASE RepeatArrives(m)
  <2>1. UNCHANGED <<pending, subject, job, sent, discarded>>
    BY <1>1 DEF RepeatArrives
  <2>2. CASE HasRoom("repeat", 1)
    <3>1. PICK n \in 1..Times : left' = [left EXCEPT ![m] = n]
      BY <1>1, <2>2 DEF RepeatArrives
    <3>2. Arrives(m, "repeat", "send")
      BY <1>1, <2>2 DEF RepeatArrives
    <3>3. n \in 0..Times /\ n >= 1 /\ "send" \in Labels \ (Unprepared \cup {"act"})
      BY TimesAssumption DEF Labels, CallLabels, Unprepared
    <3> QED BY <2>1, <3>1, <3>2, <3>3, QuietArrival
  <2>3. CASE ~HasRoom("repeat", 1)
    <3>1. Arrives(m, "repeat", "reply") /\ left' = left
      BY <1>1, <2>3 DEF RepeatArrives
    <3>2. "reply" \in Labels \ (Unprepared \cup {"act"})
      BY DEF Labels, CallLabels, Unprepared
    <3> QED BY <2>1, <3>1, <3>2, SameLeft, QuietArrival
  <2> QED BY <2>2, <2>3
<1>2. CASE RepeatReturns(m)
  <2>1. m # job /\ left[m] \in 1..Times
    BY <1>2, NotTheJob DEF RepeatReturns, JobLabels, Inv, Counting, HandlerTypes
  <2>2. PICK ok \in BOOLEAN :
          Returns(m, ok, IF ok /\ left[m] > 1 /\ m \notin cancelled THEN "pause" ELSE "done")
    BY <1>2 DEF RepeatReturns
  <2>3. PICK label \in {"pause", "done"} : Goes(m, label) /\ (label = "pause" => left[m] > 1)
    BY <2>2 DEF Returns
  <2>4. left[m] - 1 \in 0..Times /\ left' = [left EXCEPT ![m] = left[m] - 1]
        /\ (label = "pause" => left[m] - 1 >= 1)
    BY <1>2, <2>1, <2>3, TimesAssumption DEF RepeatReturns
  <2>5. label \in Labels \ (Unprepared \cup {"act"})
    BY DEF Labels, CallLabels, Unprepared
  <2>6. UNCHANGED <<kind, pending, subject, sent, discarded>>
    BY <1>2 DEF RepeatReturns
  <2> QED BY <2>1, <2>3, <2>4, <2>5, <2>6, QuietMove
<1>3. CASE RepeatGoesOn(m)
  <2>1. m # job /\ left[m] >= 1
    BY <1>3, NotTheJob DEF RepeatGoesOn, JobLabels, Inv, Counting
  <2>2. PICK label \in {"send", "done"} : GoesOn(m, label)
    BY <1>3 DEF RepeatGoesOn
  <2>3. Goes(m, Reached(label)) /\ Reached(label) \in {"send", "done"}
    BY <2>2, ReachedLabel DEF GoesOn
  <2>4. Reached(label) \in Labels \ (Unprepared \cup {"act"})
    BY <2>3 DEF Labels, CallLabels, Unprepared
  <2>5. UNCHANGED <<kind, left, pending, subject, sent, discarded>>
    BY <1>3 DEF RepeatGoesOn
  <2> QED BY <2>1, <2>3, <2>4, <2>5, SameLeft, QuietMove
<1>4. CASE StopArrives(m)
  <2>1. PICK k : Arrives(m, k, "reply")
    BY <1>4 DEF StopArrives
  <2>2. UNCHANGED <<left, pending, subject, job, sent, discarded>>
    BY <1>4 DEF StopArrives
  <2>3. "reply" \in Labels \ (Unprepared \cup {"act"})
    BY DEF Labels, CallLabels, Unprepared
  <2> QED BY <2>1, <2>2, <2>3, SameLeft, QuietArrival
<1>5. CASE ReplyReturns(m)
  <2>1. m # job
    BY <1>5, NotTheJob DEF ReplyReturns, JobLabels
  <2>2. Goes(m, "done") /\ UNCHANGED <<kind, left, pending, subject, sent, discarded>>
    BY <1>5 DEF ReplyReturns, Returns
  <2>3. "done" \in Labels \ (Unprepared \cup {"act"})
    BY DEF Labels, CallLabels, Unprepared
  <2> QED BY <2>1, <2>2, <2>3, SameLeft, QuietMove
<1> QED BY <1>1, <1>2, <1>3, <1>4, <1>5
-----------------------------------------------------------------------------
\* Preparing a request keeps the invariant.
LEMMA PreparingKeepsInv ==
    ASSUME Inv, NEW m \in Msg, m # job, NEW c \in Confirmable, kind[m] = c,
           at[m] \in Unprepared,
           NEW label \in {"reply", "done"}, at' = [at EXCEPT ![m] = label],
           Prepared(c, m), job' = job, UNCHANGED <<kind, left, subject, sent, discarded>>
    PROVE  Inv'
<1>1. at'[m] = label /\ \A k \in Msg \ {m} : at'[k] = at[k]
  BY DEF Inv, HandlerTypes
<1>2. pending'[c] = m /\ \A d \in Confirmable \ {c} : pending'[d] = pending[d]
  BY DEF Prepared, Inv, HandlerTypes
<1>3. HandlerTypes'
  BY DEF Inv, HandlerTypes, Prepared, Labels, CallLabels
<1>4. Fresh(m) /\ m \notin discarded /\ \A p \in Msg : Fresh(p)' <=> Fresh(p)
  BY DEF Inv, Unheard, Fresh
<1>5. Unheard'
  BY <1>1, <1>4 DEF Inv, Unheard, Unprepared
<1>6. Waiting'
  BY <1>1, <1>2, <1>4 DEF Inv, HandlerTypes, Waiting, Unprepared
<1>7. Dropped'
  BY <1>2, <1>4 DEF Inv, HandlerTypes, Dropped, Confirmable
<1>8. OneEach' /\ OncePerConfirmation'
  BY DEF Inv, OneEach, OncePerConfirmation
<1>9. Counting' /\ Acting' /\ Spreading'
  BY <1>1 DEF Inv, HandlerTypes, Counting, Acting, Spreading
<1> QED BY <1>3, <1>5, <1>6, <1>7, <1>8, <1>9 DEF Inv

\* Taking what waits keeps the invariant: from now on only m may carry it out.
LEMMA TakingKeepsInv ==
    ASSUME Inv, NEW m \in Msg, m # job, NEW c \in Confirmable, pending[c] # 0,
           NEW label \in {"act", "collect", "done"}, at' = [at EXCEPT ![m] = label],
           label = "act" => c # "broadcast",
           \/ job' = job
           \/ job' = m /\ label = "collect" /\ c = "broadcast" /\ kind[m] = "confirmbroadcast",
           Takes(c, m), UNCHANGED <<kind, left, sent, discarded>>
    PROVE  Inv'
<1> DEFINE p == pending[c]
<1>1. at'[m] = label /\ \A k \in Msg \ {m} : at'[k] = at[k]
  BY DEF Inv, HandlerTypes
<1>2. pending'[c] = 0 /\ \A d \in Confirmable \ {c} : pending'[d] = pending[d]
  BY DEF Takes, Inv, HandlerTypes
<1>3. subject'[m] = p /\ \A k \in Msg \ {m} : subject'[k] = subject[k]
  BY DEF Takes, Inv, HandlerTypes
<1>4. p \in Msg /\ kind[p] = c /\ at[p] \notin Unprepared /\ Fresh(p)
  BY DEF Inv, HandlerTypes, Waiting
<1>5. HandlerTypes'
  BY <1>4, MsgAssumption DEF Inv, HandlerTypes, Takes, Labels, CallLabels
<1>6. \A q \in Msg \ {p} : Fresh(q) => Fresh(q)'
  BY <1>3 DEF Fresh
<1>7. Unheard'
  BY <1>1, <1>4, <1>6 DEF Inv, Unheard, Unprepared
<1>8. Waiting'
  <2> SUFFICES ASSUME NEW d \in Confirmable, pending'[d] # 0
               PROVE  (/\ kind[pending[d]] = d /\ at[pending[d]] \notin Unprepared
                       /\ Fresh(pending[d]))'
    BY DEF Waiting
  <2>1. d # c /\ pending'[d] = pending[d] /\ pending[d] \in Msg
    BY <1>2 DEF Inv, HandlerTypes
  <2>2. kind[pending[d]] = d /\ at[pending[d]] \notin Unprepared /\ Fresh(pending[d])
    BY <2>1 DEF Inv, Waiting
  <2>3. pending[d] # p
    BY <2>1, <2>2, <1>4
  <2>4. (Fresh(pending[d]))'
    BY <2>1, <2>2, <2>3, <1>3 DEF Fresh
  <2>5. at'[pending[d]] \notin Unprepared
    BY <1>1, <2>1, <2>2 DEF Unprepared
  <2> QED BY <2>1, <2>2, <2>4, <2>5
<1>9. Dropped'
  <2> SUFFICES ASSUME NEW q \in discarded, kind[q] = "gift"
               PROVE  Fresh(q)' /\ pending'["gift"] # q
    BY DEF Dropped
  <2>1. q \in Msg /\ Fresh(q) /\ pending["gift"] # q
    BY DEF Inv, HandlerTypes, Dropped
  <2>2. q # p
    BY <1>4, <2>1 DEF Confirmable
  <2>3. pending'["gift"] # q
    BY <1>2, <2>1, MsgAssumption DEF Confirmable
  <2> QED BY <2>1, <2>2, <2>3, <1>3 DEF Fresh
<1>10. OneEach'
  BY <1>3, <1>4 DEF Inv, OneEach, Fresh
<1>11. OncePerConfirmation' /\ Counting'
  BY <1>1 DEF Inv, OncePerConfirmation, Counting
<1>12. Acting'
  BY <1>1, <1>3, <1>4, MsgAssumption DEF Inv, Acting, Fresh
<1>13. Spreading'
  <2>1. CASE job' = job
    BY <2>1, <1>1, <1>3 DEF Inv, HandlerTypes, Spreading
  <2>2. CASE job' = m /\ label = "collect" /\ c = "broadcast" /\ kind[m] = "confirmbroadcast"
    BY <2>2, <1>1, <1>3, <1>4, MsgAssumption DEF Spreading, JobLabels, Fresh
  <2> QED BY <2>1, <2>2
<1> QED BY <1>5, <1>7, <1>8, <1>9, <1>10, <1>11, <1>12, <1>13 DEF Inv

\* Forgetting what waits keeps the invariant.
LEMMA ForgettingKeepsInv ==
    ASSUME Inv, NEW c \in Confirmable, pending' = [pending EXCEPT ![c] = 0],
           UNCHANGED <<kind, at, left, subject, job, sent, discarded>>
    PROVE  Inv'
<1>1. pending'[c] = 0 /\ \A d \in Confirmable \ {c} : pending'[d] = pending[d]
  BY DEF Inv, HandlerTypes
<1>2. \A q \in Msg : Fresh(q)' <=> Fresh(q)
  BY DEF Fresh
<1>3. HandlerTypes'
  BY DEF Inv, HandlerTypes
<1>4. Unheard'
  BY <1>2 DEF Inv, Unheard
<1>5. Waiting'
  BY <1>1, <1>2 DEF Inv, HandlerTypes, Waiting
<1>6. Dropped'
  BY <1>1, <1>2, MsgAssumption DEF Inv, HandlerTypes, Dropped, Confirmable
<1>7. OneEach' /\ OncePerConfirmation' /\ Counting' /\ Acting' /\ Spreading'
  BY DEF Inv, OneEach, OncePerConfirmation, Counting, Acting, Spreading
<1> QED BY <1>3, <1>4, <1>5, <1>6, <1>7 DEF Inv

\* Carrying out a request that was taken disturbs none that waits or was discarded.
LEMMA SendingKeepsFresh ==
    ASSUME Inv, NEW m \in Msg, subject[m] # 0,
           sent' = [sent EXCEPT ![subject[m]] = @ + 1],
           NEW label \in Labels \ Unprepared, at' = [at EXCEPT ![m] = label],
           UNCHANGED <<kind, pending, subject, discarded>>
    PROVE  /\ sent' \in [Msg -> Nat] /\ at' \in [Msg -> Labels]
           /\ sent'[subject[m]] = sent[subject[m]] + 1
           /\ \A q \in Msg \ {subject[m]} : sent'[q] = sent[q]
           /\ Unheard' /\ Waiting' /\ Dropped' /\ OneEach'
<1>1. /\ sent' \in [Msg -> Nat] /\ at' \in [Msg -> Labels]
      /\ sent'[subject[m]] = sent[subject[m]] + 1
      /\ \A q \in Msg \ {subject[m]} : sent'[q] = sent[q]
  BY DEF Inv, HandlerTypes
<1>2. at'[m] = label /\ \A k \in Msg \ {m} : at'[k] = at[k]
  BY DEF Inv, HandlerTypes
<1>3. \A q \in Msg : Fresh(q) => Fresh(q)'
  BY <1>1 DEF Fresh
<1>4. Unheard'
  BY <1>2, <1>3 DEF Inv, Unheard
<1>5. Waiting'
  BY <1>2, <1>3 DEF Inv, HandlerTypes, Waiting
<1>6. Dropped' /\ OneEach'
  BY <1>3 DEF Inv, HandlerTypes, Dropped, OneEach
<1> QED BY <1>1, <1>4, <1>5, <1>6

\* The gift is sent, the chat handed over, or the attempt fails.
LEMMA ActKeepsInv == ASSUME Inv, NEW m \in Msg, ActReturns(m) PROVE Inv'
<1>0. m # job /\ at[m] = "act" /\ left[m] \in 0..Times
  BY NotTheJob DEF ActReturns, JobLabels, Inv, HandlerTypes
<1>1. PICK ok \in BOOLEAN :
         /\ Returns(m, ok, "reply")
         /\ sent' = IF ok THEN [sent EXCEPT ![subject[m]] = @ + 1] ELSE sent
  BY DEF ActReturns
<1>2. Goes(m, "reply") /\ "reply" \in Labels \ (Unprepared \cup {"act"})
      /\ UNCHANGED <<kind, left, pending, subject, discarded>>
  BY <1>1 DEF ActReturns, Returns, Labels, CallLabels, Unprepared
<1>3. CASE ~ok
  BY <1>0, <1>1, <1>2, <1>3, SameLeft, QuietMove
<1>4. CASE ok
  <2>1. sent' = [sent EXCEPT ![subject[m]] = @ + 1]
    BY <1>1, <1>4
  <2>2. at' = [at EXCEPT ![m] = "reply"] /\ job' = job
    BY <1>2 DEF Goes, Finish
  <2>3. at'[m] = "reply" /\ \A k \in Msg \ {m} : at'[k] = at[k]
    BY <2>2 DEF Inv, HandlerTypes
  <2>4. subject[m] \in Msg /\ subject[m] # 0 /\ kind[subject[m]] # "broadcast"
        /\ sent[subject[m]] = 0
    BY <1>0 DEF Inv, HandlerTypes, Acting
  <2>5. /\ sent' \in [Msg -> Nat] /\ at' \in [Msg -> Labels]
        /\ sent'[subject[m]] = sent[subject[m]] + 1
        /\ \A q \in Msg \ {subject[m]} : sent'[q] = sent[q]
        /\ Unheard' /\ Waiting' /\ Dropped' /\ OneEach'
    BY <1>2, <2>1, <2>2, <2>4, SendingKeepsFresh
  <2>6. HandlerTypes'
    BY <1>2, <2>2, <2>5 DEF Inv, HandlerTypes
  <2>7. Counting'
    BY <1>2, <2>3 DEF Inv, Counting
  <2>8. Acting'
    BY <1>2, <2>3, <2>5 DEF Inv, HandlerTypes, Acting, OneEach
  <2>9. Spreading'
    BY <1>0, <1>2, <2>2, <2>3, <2>4, <2>5 DEF Inv, HandlerTypes, Spreading
  <2>10. OncePerConfirmation'
    BY <1>2, <2>4, <2>5 DEF Inv, OncePerConfirmation
  <2> QED BY <2>5, <2>6, <2>7, <2>8, <2>9, <2>10 DEF Inv
<1> QED BY <1>3, <1>4

\* A step of the running broadcast that sends nothing keeps the invariant.
LEMMA BroadcastMoves ==
    ASSUME Inv, NEW m \in Msg, job = m, NEW label \in JobLabels \cup {"done"}, NEW n \in 0..Times,
           at' = [at EXCEPT ![m] = label], left' = [left EXCEPT ![m] = n], Finish(m, label),
           label = "spread" => n >= 1,
           label = "collect" => sent[subject[m]] = 0,
           label \in {"status", "spread"} => sent[subject[m]] + n <= Times,
           UNCHANGED <<kind, pending, subject, sent, discarded>>
    PROVE  Inv'
<1>1. at'[m] = label /\ left'[m] = n
      /\ \A k \in Msg \ {m} : at'[k] = at[k] /\ left'[k] = left[k]
  BY DEF Inv, HandlerTypes
<1>2. label \in Labels \ Unprepared /\ label # "act" /\ label \notin {"send", "pause"}
  BY DEF JobLabels, Labels, CallLabels, Unprepared
<1>3. job' = (IF label = "done" THEN 0 ELSE m)
  BY DEF Finish
<1>4. HandlerTypes'
  BY <1>2, <1>3 DEF Inv, HandlerTypes
<1>5. \A p \in Msg : Fresh(p)' <=> Fresh(p)
  BY DEF Fresh
<1>6. Unheard' /\ Waiting'
  BY <1>1, <1>2, <1>5 DEF Inv, HandlerTypes, Unheard, Waiting
<1>7. Dropped' /\ OneEach' /\ OncePerConfirmation'
  BY <1>5 DEF Inv, HandlerTypes, Dropped, OneEach, OncePerConfirmation
<1>8. Counting' /\ Acting'
  BY <1>1, <1>2 DEF Inv, Counting, Acting
<1>9. Spreading'
  BY <1>1, <1>3 DEF Inv, Spreading, JobLabels
<1> QED BY <1>4, <1>6, <1>7, <1>8, <1>9 DEF Inv

\* Every step of the running broadcast keeps the invariant.
LEMMA BroadcastKeepsInv == ASSUME Inv, NEW m \in Msg, BroadcastReturns(m) PROVE Inv'
<1>0. job = m /\ m # 0 /\ at[m] \in JobLabels /\ left[m] \in 0..Times
      /\ subject[m] \in Msg /\ subject[m] # 0 /\ kind[subject[m]] = "broadcast"
      /\ UNCHANGED <<kind, pending, subject, discarded>>
  BY MsgAssumption DEF BroadcastReturns, Inv, HandlerTypes, Spreading
<1>1. CASE at[m] = "collect"
  <2>1. PICK ok \in BOOLEAN :
          /\ Returns(m, ok, IF ok THEN "status" ELSE "sorry")
          /\ \E n \in IF ok THEN 0..Times ELSE {0} : left' = [left EXCEPT ![m] = n]
          /\ UNCHANGED sent
    BY <1>1 DEF BroadcastReturns
  <2>2. (IF ok THEN 0..Times ELSE {0}) \subseteq 0..Times
    BY TimesAssumption
  <2>3. PICK n \in 0..Times : left' = [left EXCEPT ![m] = n]
    BY <2>1, <2>2
  <2>4. PICK label \in {"status", "sorry"} : Goes(m, label)
    BY <2>1 DEF Returns
  <2>5. sent[subject[m]] = 0 /\ sent[subject[m]] + n <= Times
    BY <1>0, <1>1, TimesAssumption DEF Inv, Spreading
  <2>6. at' = [at EXCEPT ![m] = label] /\ Finish(m, label) /\ sent' = sent
    BY <2>1, <2>4 DEF Goes
  <2>7. label \in JobLabels \cup {"done"} /\ label # "spread"
    BY DEF JobLabels
  <2> QED BY <1>0, <2>3, <2>5, <2>6, <2>7, BroadcastMoves
<1>2. CASE at[m] = "status"
  <2>1. PICK ok \in BOOLEAN :
          /\ Returns(m, ok, IF ~ok THEN "sorry"
                            ELSE IF stop \/ left[m] = 0 THEN "final" ELSE "spread")
          /\ UNCHANGED <<left, sent>>
    BY <1>2 DEF BroadcastReturns
  <2>2. PICK label \in {"sorry", "final", "spread"} :
          Goes(m, label) /\ (label = "spread" => left[m] # 0)
    BY <2>1 DEF Returns
  <2>3. sent[subject[m]] + left[m] <= Times
    BY <1>0, <1>2 DEF Inv, Spreading
  <2>4. label = "spread" => left[m] >= 1
    BY <1>0, <2>2
  <2> QED BY <1>0, <2>1, <2>2, <2>3, <2>4, SameLeft, BroadcastMoves DEF Goes, JobLabels
<1>3. CASE at[m] = "spread"
  <2>1. PICK ok \in BOOLEAN :
          /\ Returns(m, ok, IF stop \/ left[m] = 1 THEN "final" ELSE "spread")
          /\ left' = [left EXCEPT ![m] = @ - 1]
          /\ sent' = IF ok THEN [sent EXCEPT ![subject[m]] = @ + 1] ELSE sent
    BY <1>3 DEF BroadcastReturns
  <2>2. PICK label \in {"final", "spread"} :
          Goes(m, label) /\ (label = "spread" => left[m] # 1)
    BY <2>1 DEF Returns
  <2>3. sent[subject[m]] + left[m] <= Times /\ left[m] >= 1 /\ sent[subject[m]] \in Nat
    BY <1>0, <1>3 DEF Inv, Spreading, Counting, HandlerTypes
  <2>4. left[m] - 1 \in 0..Times /\ left' = [left EXCEPT ![m] = left[m] - 1]
        /\ (label = "spread" => left[m] - 1 >= 1)
    BY <1>0, <2>1, <2>2, <2>3, TimesAssumption
  <2>5. CASE ~ok
    <3>1. sent' = sent /\ sent[subject[m]] + (left[m] - 1) <= Times
      BY <1>0, <2>1, <2>3, <2>5, TimesAssumption
    <3> QED BY <1>0, <2>2, <2>4, <3>1, BroadcastMoves DEF Goes, JobLabels
  <2>6. CASE ok
    <3>1. sent' = [sent EXCEPT ![subject[m]] = @ + 1]
      BY <2>1, <2>6
    <3>2. at' = [at EXCEPT ![m] = label] /\ job' = job
          /\ label \in Labels \ Unprepared /\ label # "done"
      BY <1>0, <2>2 DEF Goes, Finish, Labels, CallLabels, Unprepared
    <3>3. at'[m] = label /\ left'[m] = left[m] - 1
          /\ \A k \in Msg \ {m} : at'[k] = at[k] /\ left'[k] = left[k]
      BY <2>4, <3>2 DEF Inv, HandlerTypes
    <3>4. /\ sent' \in [Msg -> Nat] /\ at' \in [Msg -> Labels]
          /\ sent'[subject[m]] = sent[subject[m]] + 1
          /\ \A q \in Msg \ {subject[m]} : sent'[q] = sent[q]
          /\ Unheard' /\ Waiting' /\ Dropped' /\ OneEach'
      BY <1>0, <3>1, <3>2, SendingKeepsFresh
    <3>5. HandlerTypes'
      BY <1>0, <2>4, <3>2, <3>4 DEF Inv, HandlerTypes
    <3>6. Counting'
      BY <2>4, <3>3 DEF Inv, Counting
    <3>7. Acting'
      BY <1>0, <3>3, <3>4 DEF Inv, HandlerTypes, Acting
    <3>8. sent'[subject[m]] + left'[m] <= Times
      BY <1>0, <2>3, <3>3, <3>4, TimesAssumption
    <3>9. Spreading'
      BY <1>0, <3>2, <3>3, <3>8 DEF Inv, Spreading, JobLabels
    <3>10. OncePerConfirmation'
      BY <1>0, <2>3, <3>4, TimesAssumption DEF Inv, OncePerConfirmation
    <3> QED BY <3>4, <3>5, <3>6, <3>7, <3>9, <3>10 DEF Inv
  <2> QED BY <2>5, <2>6
<1>4. CASE at[m] \in {"final", "sorry"}
  <2>1. PICK label \in {"done", "sorry"} : Goes(m, label) /\ UNCHANGED <<left, sent>>
    BY <1>4 DEF BroadcastReturns, Returns
  <2> QED BY <1>0, <2>1, SameLeft, BroadcastMoves DEF Goes, JobLabels
<1> QED BY <1>0, <1>1, <1>2, <1>3, <1>4 DEF JobLabels
-----------------------------------------------------------------------------
\* The broadcast commands and the preparation of a transfer keep the invariant.
LEMMA BroadcastCommandsKeepInv ==
    ASSUME Inv, NEW m \in Msg,
           PrepareArrives(m) \/ ConfirmArrives(m) \/ BroadcastStopArrives(m)
    PROVE  Inv'
<1>0. at[m] = "new" /\ m # job /\ Fresh(m) /\ m \notin discarded
      /\ UNCHANGED <<kind, left, sent>>
      /\ "reply" \in Labels \ (Unprepared \cup {"act"})
  BY NewIsUnheard DEF PrepareArrives, ConfirmArrives, BroadcastStopArrives, Arrives,
                      Labels, CallLabels, Unprepared
<1>1. CASE PrepareArrives(m)
  <2>1. PICK c \in Confirmable : Arrives(m, c, "reply") /\ Prepared(c, m)
    BY <1>1 DEF PrepareArrives, Confirmable
  <2>2. PICK label \in {"reply", "done"} : at' = [at EXCEPT ![m] = label] /\ kind[m] = c
    BY <2>1, ReachedLabel DEF Arrives
  <2>3. UNCHANGED <<subject, job, discarded>> /\ at[m] \in Unprepared
    BY <1>0, <1>1 DEF PrepareArrives, Unprepared
  <2> QED BY <1>0, <2>1, <2>2, <2>3, PreparingKeepsInv
<1>2. CASE ConfirmArrives(m)
  <2>1. CASE /\ Arrives(m, "confirmbroadcast", "reply")
             /\ UNCHANGED <<pending, subject, job, stop>>
    BY <1>0, <1>2, <2>1, SameLeft, QuietArrival DEF ConfirmArrives
  <2>2. CASE /\ pending["broadcast"] # 0 /\ job = 0
             /\ Arrives(m, "confirmbroadcast", "collect") /\ Takes("broadcast", m)
             /\ job' = IF Full(queue) THEN 0 ELSE m
    <3>1. /\ "broadcast" \in Confirmable /\ kind[m] = "confirmbroadcast"
          /\ discarded' = discarded
      BY <1>2, <2>2 DEF Confirmable, Arrives, ConfirmArrives
    <3>2. CASE Full(queue)
      <4>1. at' = [at EXCEPT ![m] = "done"] /\ job' = job
        BY <2>2, <3>2 DEF Arrives, Reached, CallLabels
      <4> QED BY <1>0, <2>2, <3>1, <4>1, TakingKeepsInv
    <3>3. CASE ~Full(queue)
      <4>1. at' = [at EXCEPT ![m] = "collect"] /\ job' = m
        BY <2>2, <3>3 DEF Arrives, Reached
      <4> QED BY <1>0, <2>2, <3>1, <4>1, TakingKeepsInv
    <3> QED BY <3>2, <3>3
  <2> QED BY <1>2, <2>1, <2>2 DEF ConfirmArrives
<1>3. CASE BroadcastStopArrives(m)
  <2>1. PICK label \in {"reply", "done"} : at' = [at EXCEPT ![m] = label]
    BY <1>3, ReachedLabel DEF BroadcastStopArrives, Arrives
  <2>2. at'[m] = label /\ \A k \in Msg \ {m} : at'[k] = at[k]
    BY <2>1 DEF Inv, HandlerTypes
  <2>3. UNCHANGED <<pending, subject, job>> /\ label \in Labels \ (Unprepared \cup {"act"})
        /\ label \notin {"send", "pause", "spread"}
    BY <1>3 DEF BroadcastStopArrives, Labels, CallLabels, Unprepared
  <2>4. \A q \in discarded' : q \in discarded \/ (q # 0 /\ q = pending["broadcast"])
    BY <1>3 DEF BroadcastStopArrives
  <2>5. \A q \in Msg : Fresh(q)' <=> Fresh(q)
    BY <1>0, <2>3 DEF Fresh
  <2>6. \A q \in discarded' : q \in Msg /\ at[q] \notin Unprepared
                              /\ (kind[q] = "gift" => q \in discarded)
    <3> TAKE q \in discarded'
    <3>1. CASE q \in discarded
      BY <3>1 DEF Inv, HandlerTypes, Unheard
    <3>2. CASE q # 0 /\ q = pending["broadcast"]
      BY <3>2 DEF Inv, HandlerTypes, Waiting, Confirmable
    <3> QED BY <2>4, <3>1, <3>2
  <2>7. HandlerTypes'
    BY <1>0, <2>1, <2>3, <2>6 DEF Inv, HandlerTypes
  <2>8. Unheard'
    BY <1>0, <2>2, <2>3, <2>5, <2>6 DEF Inv, Unheard
  <2>9. Waiting'
    BY <1>0, <2>2, <2>3, <2>5 DEF Inv, HandlerTypes, Waiting
  <2>10. Dropped'
    BY <1>0, <2>3, <2>5, <2>6 DEF Inv, Dropped
  <2>11. OneEach' /\ OncePerConfirmation'
    BY <1>0, <2>3 DEF Inv, OneEach, OncePerConfirmation
  <2>12. Counting' /\ Acting' /\ Spreading'
    BY <1>0, <2>2, <2>3 DEF Inv, HandlerTypes, Counting, Acting, Spreading
  <2> QED BY <2>7, <2>8, <2>9, <2>10, <2>11, <2>12 DEF Inv
<1> QED BY <1>1, <1>2, <1>3

\* The price of a gift is looked up: the gift only waits afterwards.
LEMMA LookupBegins ==
    ASSUME Inv, NEW m \in Msg, at[m] = "new", kind[m] = "gift",
           at' = [at EXCEPT ![m] = "lookup"],
           UNCHANGED <<kind, left, pending, subject, job, sent, discarded>>
    PROVE  Inv'
<1>1. at'[m] = "lookup" /\ \A k \in Msg \ {m} : at'[k] = at[k]
  BY DEF Inv, HandlerTypes
<1>2. \A q \in Msg : Fresh(q)' <=> Fresh(q)
  BY DEF Fresh
<1>3. HandlerTypes'
  BY DEF Inv, HandlerTypes, Labels, CallLabels
<1>4. Unheard'
  BY <1>1, <1>2 DEF Inv, Unheard, Unprepared
<1>5. Waiting'
  BY <1>1, <1>2 DEF Inv, HandlerTypes, Waiting, Unprepared
<1>6. Dropped' /\ OneEach' /\ OncePerConfirmation'
  BY <1>2 DEF Inv, HandlerTypes, Dropped, OneEach, OncePerConfirmation
<1>7. Counting' /\ Acting' /\ Spreading'
  BY <1>1, NewIsUnheard DEF Inv, HandlerTypes, Counting, Acting, Spreading
<1> QED BY <1>3, <1>4, <1>5, <1>6, <1>7 DEF Inv

\* A handler that replies and forgets what waits keeps the invariant.
LEMMA CancellingKeepsInv ==
    ASSUME Inv, NEW m \in Msg, GiftCancelArrives(m)
    PROVE  Inv'
<1>0. m # job /\ Fresh(m) /\ m \notin discarded
  BY NewIsUnheard DEF GiftCancelArrives, Arrives
<1>1. PICK label \in {"reply", "done"} : at' = [at EXCEPT ![m] = label]
  BY ReachedLabel DEF GiftCancelArrives, Arrives
<1>2. at'[m] = label /\ \A k \in Msg \ {m} : at'[k] = at[k]
  BY <1>1 DEF Inv, HandlerTypes
<1>3. UNCHANGED <<kind, left, subject, job, sent>> /\ label \in Labels \ (Unprepared \cup {"act"})
      /\ label \notin {"send", "pause", "spread"}
  BY DEF GiftCancelArrives, Arrives, Labels, CallLabels, Unprepared
<1>4. pending'["gift"] = 0 /\ \A d \in Confirmable \ {"gift"} : pending'[d] = pending[d]
  BY DEF GiftCancelArrives, DroppedGift, Inv, HandlerTypes, Confirmable
<1>5. \A q \in Msg : Fresh(q)' <=> Fresh(q)
  BY <1>3 DEF Fresh
<1>6. \A q \in discarded' : q \in Msg /\ at[q] \notin Unprepared
                            /\ (kind[q] = "gift" => Fresh(q))
  <2> TAKE q \in discarded'
  <2>1. CASE q \in discarded
    BY <2>1 DEF Inv, HandlerTypes, Unheard, Dropped
  <2>2. CASE q \notin discarded
    <3>1. q # 0 /\ q = pending["gift"]
      BY <2>2 DEF GiftCancelArrives
    <3> QED BY <3>1 DEF Inv, HandlerTypes, Waiting, Confirmable
  <2> QED BY <2>1, <2>2
<1>7. HandlerTypes'
  BY <1>1, <1>3, <1>6 DEF Inv, HandlerTypes, GiftCancelArrives, DroppedGift
<1>8. Unheard'
  BY <1>2, <1>3, <1>5, <1>6 DEF Inv, Unheard
<1>9. Waiting'
  BY <1>2, <1>3, <1>4, <1>5 DEF Inv, HandlerTypes, Waiting
<1>10. Dropped'
  BY <1>3, <1>4, <1>5, <1>6, MsgAssumption DEF Dropped
<1>11. OneEach' /\ OncePerConfirmation'
  BY <1>3 DEF Inv, OneEach, OncePerConfirmation
<1>12. Counting' /\ Acting' /\ Spreading'
  BY <1>0, <1>2, <1>3 DEF Inv, HandlerTypes, Counting, Acting, Spreading
<1> QED BY <1>7, <1>8, <1>9, <1>10, <1>11, <1>12 DEF Inv

\* The other gift commands and the cloud password keep the invariant.
LEMMA GiftKeepsInv ==
    ASSUME Inv, NEW m \in Msg,
           GiftArrives(m) \/ LookupReturns(m) \/ GiftConfirmArrives(m)
           \/ PasswordArrives(m) \/ PasswordRead(m)
    PROVE  Inv'
<1>0. /\ UNCHANGED <<kind, left, sent, discarded>>
      /\ {"reply", "unlink"} \subseteq Labels \ (Unprepared \cup {"act", "send", "pause", "spread"})
      /\ {"gift", "transfer"} \subseteq Confirmable
  BY DEF GiftArrives, LookupReturns, GiftConfirmArrives, PasswordArrives, PasswordRead,
         Arrives, Returns, Labels, CallLabels, Unprepared, Confirmable
<1>1. CASE GiftArrives(m)
  <2>1. at[m] = "new" /\ kind[m] = "gift" /\ m # job /\ at[m] \in Unprepared
        /\ UNCHANGED <<subject, job>>
    BY <1>1, NewIsUnheard DEF GiftArrives, Arrives, Unprepared
  <2>2. CASE Full(queue)
    <3>1. at' = [at EXCEPT ![m] = "done"] /\ Prepared("gift", m)
      BY <1>1, <2>2 DEF GiftArrives, Arrives, Reached, CallLabels
    <3> QED BY <1>0, <2>1, <3>1, PreparingKeepsInv
  <2>3. CASE ~Full(queue)
    <3>1. at' = [at EXCEPT ![m] = "lookup"] /\ pending' = pending
      BY <1>1, <2>3 DEF GiftArrives, Arrives, Reached
    <3> QED BY <1>0, <2>1, <3>1, LookupBegins
  <2> QED BY <2>2, <2>3
<1>2. CASE LookupReturns(m)
  <2>1. at[m] = "lookup" /\ kind[m] = "gift" /\ m # job /\ at[m] \in Unprepared
    BY <1>2, NotTheJob DEF LookupReturns, Unprepared, Inv, Unheard
  <2>2. Goes(m, "reply") /\ subject' = subject
    BY <1>2 DEF LookupReturns, Returns
  <2>3. at' = [at EXCEPT ![m] = "reply"] /\ job' = job
    BY <2>2 DEF Goes, Finish
  <2>4. CASE Prepared("gift", m)
    BY <1>0, <2>1, <2>2, <2>3, <2>4, PreparingKeepsInv
  <2>5. CASE pending' = pending
    BY <1>0, <2>1, <2>2, <2>5, SameLeft, QuietMove
  <2> QED BY <1>2, <2>4, <2>5 DEF LookupReturns
<1>3. CASE GiftConfirmArrives(m)
  <2>1. m # job /\ job' = job
    BY <1>3, NewIsUnheard DEF GiftConfirmArrives, Arrives
  <2>2. CASE pending["gift"] = 0
    BY <1>0, <1>3, <2>1, <2>2, SameLeft, QuietArrival DEF GiftConfirmArrives
  <2>3. CASE pending["gift"] # 0
    <3>1. Arrives(m, "giftconfirm", "act") /\ Takes("gift", m)
      BY <1>3, <2>3 DEF GiftConfirmArrives
    <3>2. PICK label \in {"act", "done"} : at' = [at EXCEPT ![m] = label]
      BY <3>1, ReachedLabel DEF Arrives
    <3> QED BY <1>0, <2>1, <2>3, <3>1, <3>2, TakingKeepsInv
  <2> QED BY <2>2, <2>3
<1>4. CASE PasswordArrives(m)
  <2>1. m # job /\ job' = job /\ Arrives(m, "cloudpass", "unlink")
    BY <1>4, NewIsUnheard DEF PasswordArrives, Arrives
  <2>2. CASE UNCHANGED <<pending, subject>>
    BY <1>0, <2>1, <2>2, SameLeft, QuietArrival
  <2>3. CASE Full(queue) /\ pending["transfer"] # 0 /\ Takes("transfer", m)
    <3>1. at' = [at EXCEPT ![m] = "done"]
      BY <2>1, <2>3 DEF Arrives, Reached, CallLabels
    <3> QED BY <1>0, <2>1, <2>3, <3>1, TakingKeepsInv
  <2> QED BY <1>4, <2>2, <2>3 DEF PasswordArrives
<1>5. CASE PasswordRead(m)
  <2>1. m # job
    BY <1>5, NotTheJob DEF PasswordRead, JobLabels
  <2>2. CASE Goes(m, "reply") /\ UNCHANGED <<pending, subject>>
    BY <1>0, <2>1, <2>2, SameLeft, QuietMove
  <2>3. CASE pending["transfer"] # 0 /\ Goes(m, "act") /\ Takes("transfer", m)
    <3>1. at' = [at EXCEPT ![m] = "act"] /\ job' = job
      BY <2>3 DEF Goes, Finish
    <3> QED BY <1>0, <2>1, <2>3, <3>1, TakingKeepsInv DEF Confirmable
  <2> QED BY <1>5, <2>2, <2>3 DEF PasswordRead, Returns
<1> QED BY <1>1, <1>2, <1>3, <1>4, <1>5

\* A step that changes nothing the invariant speaks of keeps it.
LEMMA StutterKeepsInv ==
    ASSUME Inv, UNCHANGED handlerVars PROVE Inv'
  BY DEF handlerVars, Inv, HandlerTypes, Unheard, Fresh, Waiting, Dropped, OneEach,
         Counting, Acting, Spreading, OncePerConfirmation

\* What has waited too long is forgotten.
LEMMA ExpiryKeepsInv ==
    ASSUME Inv, NEW c \in Confirmable, PendingExpires(c) PROVE Inv'
  BY ForgettingKeepsInv DEF PendingExpires

\* Every step keeps the invariant.
LEMMA NextKeepsInv == ASSUME Inv, [Next]_vars PROVE Inv'
<1>1. CASE \E m \in Msg : Arrival(m)
  BY <1>1, MediaKeepsInv, RepeatKeepsInv, BroadcastCommandsKeepInv, CancellingKeepsInv, GiftKeepsInv
  DEF Arrival
<1>2. CASE \E m \in Msg : HandlerReturns(m)
  BY <1>2, MediaKeepsInv, RepeatKeepsInv, BroadcastKeepsInv, ActKeepsInv, GiftKeepsInv
  DEF HandlerReturns
<1>3. CASE \E m \in Msg : RepeatGoesOn(m) \/ MediaWaits(m) \/ MediaGivesUp(m) \/ ProcessEnds(m)
  BY <1>3, MediaKeepsInv, RepeatKeepsInv
<1>4. CASE \E c \in Confirmable : PendingExpires(c)
  BY <1>4, ExpiryKeepsInv
<1>5. CASE LimiterStep /\ UNCHANGED <<poolVars, handlerVars>>
  BY <1>5, StutterKeepsInv
<1>6. CASE UNCHANGED vars
  BY <1>6, StutterKeepsInv DEF vars
<1> QED BY <1>1, <1>2, <1>3, <1>4, <1>5, <1>6 DEF Next

\* What was prepared is carried out at most once, however many confirmations arrive
\* and whichever broadcast they overtake (broadcast.py:113, gifts.py:179).
THEOREM ConfirmedOnce == Spec => []OncePerConfirmation
<1>1. Inv => OncePerConfirmation
  BY DEF Inv
<1> QED BY <1>1, InvInitially, NextKeepsInv, PTL DEF Spec

\* A gift that was cancelled while it waited is never sent (gifts.py:72).
THEOREM CancelledGiftsStay == Spec => []CancelledGiftsAreNotSent
<1>1. Inv => CancelledGiftsAreNotSent
  BY DEF Inv, Dropped, Fresh, CancelledGiftsAreNotSent
<1> QED BY <1>1, InvInitially, NextKeepsInv, PTL DEF Spec
-----------------------------------------------------------------------------
(***************************************************************************)
(* The confirmed actions as Confirmation.                                  *)
(***************************************************************************)
\* A handler that has not got as far as a confirmation
Early == {"new", "lookup", "unlink"}

\* A handler takes one request at most, and what is taken needed a confirmation.
Confirming == \A m \in Msg : /\ at[m] \in Early => subject[m] = 0
                             /\ subject[m] # 0 => kind[subject[m]] \in Confirmable

\* A step is one of Confirmation's, or it changes nothing there.
Mapped == \/ Confirmed!Next
          \/ UNCHANGED <<Asked, pending, Taken, sent>>

\* Nobody has asked or stops having asked when a handler moves without preparing.
LEMMA AskedStays ==
    ASSUME Inv, NEW m \in Msg, NEW label, at' = [at EXCEPT ![m] = label], kind' = kind,
           \/ kind[m] \notin Confirmable
           \/ at[m] \in Unprepared <=> label \in Unprepared
    PROVE  Asked' = Asked
<1>1. at'[m] = label /\ \A k \in Msg \ {m} : at'[k] = at[k]
  BY DEF Inv, HandlerTypes
<1> QED BY <1>1 DEF Asked, Unprepared

\* A handler that moves and takes nothing leaves the confirmations alone.
LEMMA ConfirmingStays ==
    ASSUME Inv, Confirming, NEW m \in Msg, NEW label, at' = [at EXCEPT ![m] = label],
           label \in Early => at[m] \in Early, UNCHANGED <<kind, subject>>
    PROVE  Confirming' /\ Taken' = Taken
<1>1. at'[m] = label /\ \A k \in Msg \ {m} : at'[k] = at[k]
  BY DEF Inv, HandlerTypes
<1> QED BY <1>1 DEF Confirming, Taken

\* A move that prepares, takes and carries out nothing is a stutter.
LEMMA MoveStutters ==
    ASSUME Inv, Confirming, NEW m \in Msg, NEW label, at' = [at EXCEPT ![m] = label],
           \/ kind[m] \notin Confirmable
           \/ at[m] \in Unprepared <=> label \in Unprepared,
           label \in Early => at[m] \in Early,
           UNCHANGED <<kind, pending, subject, sent>>
    PROVE  Mapped /\ Confirming'
  BY AskedStays, ConfirmingStays DEF Mapped

\* A command that prepares a request asks, whether the request waits or not.
LEMMA PreparingAsks ==
    ASSUME Inv, Confirming, NEW m \in Msg, NEW c \in Confirmable, kind[m] = c,
           at[m] \in Unprepared, NEW label \in {"reply", "done"},
           at' = [at EXCEPT ![m] = label],
           Prepared(c, m) \/ pending' = pending, UNCHANGED <<kind, subject, sent>>
    PROVE  Mapped /\ Confirming'
<1>1. at'[m] = label /\ \A k \in Msg \ {m} : at'[k] = at[k]
  BY DEF Inv, HandlerTypes
<1>2. m \notin Asked /\ Asked' = Asked \cup {m}
  BY <1>1 DEF Asked, Unprepared
<1>3. Confirming' /\ Taken' = Taken
  BY ConfirmingStays DEF Early
<1>4. Confirmed!Ask(c, m)
  BY <1>2, <1>3 DEF Confirmed!Ask, Prepared
<1> QED BY <1>3, <1>4 DEF Mapped, Confirmed!Next

\* What is forgotten is dropped, and nothing is dropped where nothing waits.
LEMMA ForgettingDrops ==
    ASSUME Inv, NEW c \in Confirmable, pending' = [pending EXCEPT ![c] = 0],
           Asked' = Asked, Taken' = Taken, sent' = sent
    PROVE  Mapped
<1>1. CASE pending[c] # 0
  BY <1>1 DEF Mapped, Confirmed!Next, Confirmed!Drop
<1>2. CASE pending[c] = 0
  <2>1. pending' = pending
    BY <1>2 DEF Inv, HandlerTypes
  <2> QED BY <2>1 DEF Mapped
<1> QED BY <1>1, <1>2

\* A handler that takes the request that waits confirms it.
LEMMA TakingConfirms ==
    ASSUME Inv, Confirming, NEW m \in Msg, NEW c \in Confirmable, pending[c] # 0,
           at[m] \in Early, NEW label, label \notin Early, at' = [at EXCEPT ![m] = label],
           kind[m] \notin Confirmable \/ at[m] \notin Unprepared,
           Takes(c, m), UNCHANGED <<kind, sent>>
    PROVE  Mapped /\ Confirming'
<1> DEFINE p == pending[c]
<1>1. at'[m] = label /\ \A k \in Msg \ {m} : at'[k] = at[k]
  BY DEF Inv, HandlerTypes
<1>2. p \in Msg /\ p # 0 /\ kind[p] = c
  BY DEF Inv, HandlerTypes, Waiting
<1>3. /\ subject[m] = 0 /\ subject'[m] = p
      /\ \A k \in Msg \ {m} : subject'[k] = subject[k]
  BY DEF Confirming, Takes, Inv, HandlerTypes
<1>4. Asked' = Asked
  BY AskedStays DEF Early, Unprepared
<1>5. {subject'[k] : k \in Msg} \ {0} = ({subject[k] : k \in Msg} \ {0}) \cup {p}
  BY <1>2, <1>3
<1>6. Taken' = Taken \cup {<<c, p>>}
  BY <1>2, <1>5 DEF Taken
<1>7. Confirmed!Confirm(c)
  BY <1>4, <1>6 DEF Confirmed!Confirm, Takes
<1>8. Confirming'
  BY <1>1, <1>2, <1>3 DEF Confirming
<1> QED BY <1>7, <1>8 DEF Mapped, Confirmed!Next

\* A request is carried out after its confirmation, as often as its kind allows.
LEMMA SendingCarriesOut ==
    ASSUME Inv, Confirming, NEW m \in Msg, subject[m] # 0, NEW label, label \notin Early,
           at[m] \notin Unprepared, at' = [at EXCEPT ![m] = label],
           sent' = [sent EXCEPT ![subject[m]] = @ + 1],
           sent[subject[m]] < Most[kind[subject[m]]],
           UNCHANGED <<kind, pending, subject>>
    PROVE  Mapped /\ Confirming'
<1> DEFINE p == subject[m]
           c == kind[p]
<1>1. p \in Msg /\ c \in Confirmable
  BY DEF Inv, HandlerTypes, Confirming
<1>2. Asked' = Asked /\ Taken' = Taken /\ Confirming'
  BY AskedStays, ConfirmingStays DEF Early, Unprepared
<1>3. <<c, p>> \in Taken
  BY DEF Taken
<1>4. Confirmed!CarryOut(c, p)
  BY <1>2, <1>3 DEF Confirmed!CarryOut
<1> QED BY <1>1, <1>2, <1>4 DEF Mapped, Confirmed!Next
\* The media commands, the repeats, the stop commands and the replies stutter.
LEMMA OthersStutter ==
    ASSUME Inv, Confirming, NEW m \in Msg,
           \/ MediaArrives(m) \/ MediaReturns(m) \/ MediaWaits(m) \/ MediaGivesUp(m)
           \/ ProcessEnds(m) \/ RepeatArrives(m) \/ RepeatReturns(m) \/ RepeatGoesOn(m)
           \/ StopArrives(m) \/ ReplyReturns(m)
    PROVE  Mapped /\ Confirming'
<1>0. UNCHANGED <<kind, pending, subject, sent>>
  BY DEF MediaArrives, MediaReturns, MediaWaits, MediaGivesUp, ProcessEnds, RepeatArrives,
         RepeatReturns, RepeatGoesOn, StopArrives, ReplyReturns, Arrives
<1>1. CASE MediaArrives(m) \/ RepeatArrives(m) \/ StopArrives(m)
  <2>1. PICK k \in AllKinds \ Confirmable, label \in {"status", "reply", "send"} :
          Arrives(m, k, label)
    BY <1>1 DEF MediaArrives, RepeatArrives, StopArrives, AllKinds, Confirmable
  <2>2. kind[m] \notin Confirmable /\ at' = [at EXCEPT ![m] = Reached(label)]
        /\ Reached(label) \notin Early
    BY <2>1, ReachedLabel DEF Arrives, Early
  <2> QED BY <1>0, <2>2, MoveStutters
<1>2. CASE MediaReturns(m)
  <2>1. PICK ok \in BOOLEAN : \E label \in AfterMediaCall(m, ok) : Returns(m, ok, label)
    BY <1>2 DEF MediaReturns
  <2>2. PICK label \in AfterMediaCall(m, ok) : Goes(m, label)
    BY <2>1 DEF Returns
  <2>3. at[m] \in {"status", "fetch", "noting", "upload", "clear", "tell"}
    BY <1>2 DEF MediaReturns
  <2>4. label \in {"done", "fetch", "account", "tell", "upload", "clear"}
    BY <2>2, <2>3 DEF AfterMediaCall
  <2>5. at[m] \notin Unprepared /\ label \notin Unprepared /\ label \notin Early
        /\ at' = [at EXCEPT ![m] = label]
    BY <2>2, <2>3, <2>4 DEF Unprepared, Early, Goes
  <2> QED BY <1>0, <2>5, MoveStutters
<1>3. CASE \/ MediaWaits(m) \/ MediaGivesUp(m) \/ ProcessEnds(m)
           \/ RepeatReturns(m) \/ RepeatGoesOn(m) \/ ReplyReturns(m)
  <2>1. PICK label \in {"global", "process", "tell", "noting", "pause", "done", "send"} :
          Goes(m, label)
    <3>1. CASE RepeatReturns(m) \/ ReplyReturns(m)
      BY <3>1 DEF RepeatReturns, ReplyReturns, Returns
    <3>2. CASE \/ MediaWaits(m) \/ MediaGivesUp(m) \/ ProcessEnds(m) \/ RepeatGoesOn(m)
      <4>1. PICK goal \in {"global", "process", "tell", "noting", "done", "send"} :
              GoesOn(m, goal)
        BY <3>2 DEF MediaWaits, MediaGivesUp, ProcessEnds, RepeatGoesOn
      <4> QED BY <4>1, ReachedLabel DEF GoesOn
    <3> QED BY <1>3, <3>1, <3>2
  <2>2. at[m] \notin Unprepared
    BY <1>3 DEF MediaWaits, MediaGivesUp, Watches, ProcessEnds, RepeatReturns, RepeatGoesOn,
       ReplyReturns, Unprepared
  <2>3. label \notin Unprepared /\ label \notin Early /\ at' = [at EXCEPT ![m] = label]
    BY <2>1 DEF Unprepared, Early, Goes
  <2> QED BY <1>0, <2>2, <2>3, MoveStutters
<1> QED BY <1>1, <1>2, <1>3

\* The broadcast is prepared, confirmed, stopped and sent as Confirmation says; so
\* is a transfer prepared.
LEMMA BroadcastMapped ==
    ASSUME Inv, Confirming, NEW m \in Msg,
           PrepareArrives(m) \/ ConfirmArrives(m) \/ BroadcastStopArrives(m)
    PROVE  Mapped /\ Confirming'
<1>0. at[m] = "new" /\ at[m] \in Early /\ at[m] \in Unprepared /\ UNCHANGED <<kind, sent>>
  BY DEF PrepareArrives, ConfirmArrives, BroadcastStopArrives, Arrives, Early, Unprepared
<1>1. CASE PrepareArrives(m)
  <2>1. PICK c \in Confirmable : Arrives(m, c, "reply") /\ Prepared(c, m)
    BY <1>1 DEF PrepareArrives, Confirmable
  <2>2. PICK label \in {"reply", "done"} : at' = [at EXCEPT ![m] = label] /\ kind[m] = c
    BY <2>1, ReachedLabel DEF Arrives
  <2>3. subject' = subject
    BY <1>1 DEF PrepareArrives
  <2> QED BY <1>0, <2>1, <2>2, <2>3, PreparingAsks
<1>2. CASE \/ BroadcastStopArrives(m)
           \/ ConfirmArrives(m) /\ UNCHANGED <<pending, subject>>
  <2>1. PICK label \in {"reply", "collect"} :
          at' = [at EXCEPT ![m] = Reached(label)] /\ kind[m] \notin Confirmable
    BY <1>2 DEF BroadcastStopArrives, ConfirmArrives, Arrives, Confirmable
  <2>2. UNCHANGED <<pending, subject>>
    BY <1>2 DEF BroadcastStopArrives
  <2>3. Reached(label) \notin Early
    BY <2>1, ReachedLabel DEF Early
  <2> QED BY <1>0, <2>1, <2>2, <2>3, MoveStutters
<1>3. CASE /\ pending["broadcast"] # 0
           /\ Arrives(m, "confirmbroadcast", "collect") /\ Takes("broadcast", m)
  <2>1. /\ at' = [at EXCEPT ![m] = Reached("collect")] /\ kind[m] \notin Confirmable
        /\ "broadcast" \in Confirmable
    BY <1>3 DEF Arrives, Confirmable
  <2>2. Reached("collect") \notin Early
    BY ReachedLabel DEF Early
  <2> QED BY <1>0, <1>3, <2>1, <2>2, TakingConfirms
<1> QED BY <1>1, <1>2, <1>3 DEF ConfirmArrives

\* The running broadcast sends no more than Confirmation allows.
LEMMA BroadcastCarriesOut ==
    ASSUME Inv, Confirming, NEW m \in Msg, BroadcastReturns(m) PROVE Mapped /\ Confirming'
<1>0. /\ job = m /\ at[m] \in JobLabels /\ at[m] \notin Unprepared
      /\ subject[m] \in Msg /\ subject[m] # 0 /\ kind[subject[m]] = "broadcast"
      /\ UNCHANGED <<kind, pending, subject>>
  BY MsgAssumption DEF BroadcastReturns, Inv, HandlerTypes, Spreading, JobLabels, Unprepared
<1>1. PICK ok \in BOOLEAN, label \in JobLabels \cup {"done"} : Returns(m, ok, label)
  BY <1>0 DEF BroadcastReturns, JobLabels
<1>2. at' = [at EXCEPT ![m] = label] /\ label \notin Early /\ label \notin Unprepared
  BY <1>1 DEF Returns, Goes, JobLabels, Early, Unprepared
<1>3. CASE sent' = sent
  BY <1>0, <1>2, <1>3, MoveStutters
<1>4. CASE sent' # sent
  <2>1. at[m] = "spread" /\ sent' = [sent EXCEPT ![subject[m]] = @ + 1]
    BY <1>0, <1>4 DEF BroadcastReturns, JobLabels
  <2>2. sent[subject[m]] + left[m] <= Times /\ left[m] >= 1 /\ sent[subject[m]] \in Nat
    <3>1. left[m] >= 1 /\ sent[subject[m]] \in Nat
      BY <1>0, <2>1 DEF Inv, Counting, HandlerTypes
    <3>2. job # 0
      BY <1>0, MsgAssumption
    <3>3. sent[subject[m]] + left[m] <= Times
      BY <1>0, <2>1, <3>2 DEF Inv, Spreading
    <3> QED BY <3>1, <3>3
  <2>3. sent[subject[m]] < Times
    <3>1. left[m] \in Int
      BY TimesAssumption DEF Inv, HandlerTypes
    <3> QED BY <2>2, <3>1, TimesAssumption
  <2>4. Most["broadcast"] = Times
    BY DEF Most, Confirmable
  <2> QED BY <1>0, <1>2, <2>1, <2>3, <2>4, SendingCarriesOut
<1> QED BY <1>3, <1>4

\* The gifts and the transfers are prepared, cancelled, confirmed and carried out as
\* Confirmation says.
LEMMA GiftMapped ==
    ASSUME Inv, Confirming, NEW m \in Msg,
           \/ GiftArrives(m) \/ LookupReturns(m) \/ GiftCancelArrives(m)
           \/ GiftConfirmArrives(m) \/ PasswordArrives(m) \/ PasswordRead(m) \/ ActReturns(m)
    PROVE  Mapped /\ Confirming'
<1>0. kind' = kind /\ {"gift", "transfer"} \subseteq Confirmable
  BY DEF GiftArrives, LookupReturns, GiftCancelArrives, GiftConfirmArrives, PasswordArrives,
         PasswordRead, ActReturns, Arrives, Confirmable
<1>1. CASE GiftArrives(m)
  <2>1. /\ at[m] = "new" /\ at[m] \in Early /\ at[m] \in Unprepared /\ kind[m] = "gift"
        /\ UNCHANGED <<subject, sent>>
    BY <1>1 DEF GiftArrives, Arrives, Early, Unprepared
  <2>2. CASE Full(queue)
    <3>1. at' = [at EXCEPT ![m] = "done"] /\ Prepared("gift", m)
      BY <1>1, <2>2 DEF GiftArrives, Arrives, Reached, CallLabels
    <3> QED BY <1>0, <2>1, <3>1, PreparingAsks
  <2>3. CASE ~Full(queue)
    <3>1. at' = [at EXCEPT ![m] = "lookup"] /\ pending' = pending /\ "lookup" \in Unprepared
      BY <1>1, <2>3 DEF GiftArrives, Arrives, Reached, Unprepared
    <3> QED BY <1>0, <2>1, <3>1, MoveStutters
  <2> QED BY <2>2, <2>3
<1>2. CASE LookupReturns(m)
  <2>1. /\ at[m] \in Unprepared /\ kind[m] = "gift" /\ UNCHANGED <<subject, sent>>
        /\ at' = [at EXCEPT ![m] = "reply"] /\ (Prepared("gift", m) \/ pending' = pending)
    BY <1>2 DEF LookupReturns, Returns, Goes, Unprepared, Inv, Unheard
  <2> QED BY <1>0, <2>1, PreparingAsks
<1>3. CASE GiftCancelArrives(m)
  <2>1. /\ at' = [at EXCEPT ![m] = Reached("reply")] /\ kind[m] \notin Confirmable
        /\ pending' = [pending EXCEPT !["gift"] = 0] /\ UNCHANGED <<subject, sent>>
    BY <1>3 DEF GiftCancelArrives, Arrives, DroppedGift, Confirmable
  <2>2. Reached("reply") \notin Early
    BY ReachedLabel DEF Early
  <2>3. Asked' = Asked /\ Taken' = Taken /\ Confirming'
    BY <1>0, <2>1, <2>2, AskedStays, ConfirmingStays
  <2> QED BY <1>0, <2>1, <2>3, ForgettingDrops
<1>4. CASE GiftConfirmArrives(m)
  <2>1. PICK label \in {"reply", "act"} :
          /\ at' = [at EXCEPT ![m] = Reached(label)] /\ kind[m] \notin Confirmable
          /\ at[m] \in Early /\ sent' = sent
          /\ \/ UNCHANGED <<pending, subject>>
             \/ pending["gift"] # 0 /\ Takes("gift", m)
    BY <1>4 DEF GiftConfirmArrives, Arrives, Confirmable, Early
  <2>2. Reached(label) \notin Early
    BY <2>1, ReachedLabel DEF Early
  <2> QED BY <1>0, <2>1, <2>2, MoveStutters, TakingConfirms
<1>5. CASE PasswordArrives(m)
  <2>1. /\ at' = [at EXCEPT ![m] = Reached("unlink")] /\ kind[m] \notin Confirmable
        /\ at[m] \in Early /\ sent' = sent
    BY <1>5 DEF PasswordArrives, Arrives, Confirmable, Early
  <2>2. CASE UNCHANGED <<pending, subject>>
    BY <1>0, <2>1, <2>2, MoveStutters
  <2>3. CASE Full(queue) /\ pending["transfer"] # 0 /\ Takes("transfer", m)
    <3>1. Reached("unlink") \notin Early
      BY <2>3 DEF Reached, CallLabels, Early
    <3> QED BY <1>0, <2>1, <2>3, <3>1, TakingConfirms
  <2> QED BY <1>5, <2>2, <2>3 DEF PasswordArrives
<1>6. CASE PasswordRead(m)
  <2>1. PICK label \in {"reply", "act"} :
          /\ at' = [at EXCEPT ![m] = label] /\ at[m] \in Early /\ at[m] \notin Unprepared
          /\ sent' = sent
          /\ \/ UNCHANGED <<pending, subject>>
             \/ pending["transfer"] # 0 /\ Takes("transfer", m)
    BY <1>6 DEF PasswordRead, Returns, Goes, Early, Unprepared
  <2>2. label \notin Early /\ label \notin Unprepared
    BY <2>1 DEF Early, Unprepared
  <2> QED BY <1>0, <2>1, <2>2, MoveStutters, TakingConfirms
<1>7. CASE ActReturns(m)
  <2>1. PICK ok \in BOOLEAN :
           /\ Returns(m, ok, "reply")
           /\ sent' = IF ok THEN [sent EXCEPT ![subject[m]] = @ + 1] ELSE sent
    BY <1>7 DEF ActReturns
  <2>2. /\ at' = [at EXCEPT ![m] = "reply"] /\ "reply" \notin Early /\ "reply" \notin Unprepared
        /\ at[m] = "act" /\ at[m] \notin Unprepared /\ UNCHANGED <<pending, subject>>
    BY <1>7, <2>1 DEF ActReturns, Returns, Goes, Early, Unprepared
  <2>3. CASE ~ok
    BY <1>0, <2>1, <2>2, <2>3, MoveStutters
  <2>4. CASE ok
    <3>1. subject[m] # 0 /\ kind[subject[m]] \in Confirmable \ {"broadcast"}
          /\ sent[subject[m]] = 0
      BY <2>2 DEF Inv, Acting, Confirming
    <3>2. Most[kind[subject[m]]] = 1
      BY <3>1 DEF Most
    <3>3. sent[subject[m]] < Most[kind[subject[m]]]
      BY <3>1, <3>2
    <3>4. sent' = [sent EXCEPT ![subject[m]] = @ + 1]
      BY <2>1, <2>4
    <3> QED BY <1>0, <2>2, <3>1, <3>3, <3>4, SendingCarriesOut
  <2> QED BY <2>3, <2>4
<1> QED BY <1>1, <1>2, <1>3, <1>4, <1>5, <1>6, <1>7

\* A step that changes no handler changes nothing there.
LEMMA IdleStutters ==
    ASSUME Confirming, UNCHANGED handlerVars PROVE Mapped /\ Confirming'
  BY DEF handlerVars, Confirming, Mapped, Asked, Taken

\* Every step is one of Confirmation's or a stutter.
LEMMA NextMapped == ASSUME Inv, Confirming, [Next]_vars PROVE Mapped /\ Confirming'
<1>1. CASE \E m \in Msg : Arrival(m)
  BY <1>1, OthersStutter, BroadcastMapped, GiftMapped DEF Arrival
<1>2. CASE \E m \in Msg : HandlerReturns(m)
  BY <1>2, OthersStutter, BroadcastCarriesOut, GiftMapped DEF HandlerReturns
<1>3. CASE \E m \in Msg : RepeatGoesOn(m) \/ MediaWaits(m) \/ MediaGivesUp(m) \/ ProcessEnds(m)
  BY <1>3, OthersStutter
<1>4. ASSUME NEW c \in Confirmable, PendingExpires(c) PROVE Mapped /\ Confirming'
  <2>1. /\ pending' = [pending EXCEPT ![c] = 0] /\ UNCHANGED <<kind, at, subject, sent>>
    BY <1>4 DEF PendingExpires
  <2>2. Asked' = Asked /\ Taken' = Taken /\ Confirming'
    BY <2>1 DEF Asked, Taken, Confirming
  <2> QED BY <2>1, <2>2, ForgettingDrops
<1>5. CASE LimiterStep /\ UNCHANGED <<poolVars, handlerVars>>
  BY <1>5, IdleStutters
<1>6. CASE UNCHANGED vars
  BY <1>6, IdleStutters DEF vars
<1> QED BY <1>1, <1>2, <1>3, <1>4, <1>5, <1>6 DEF Next

\* The broadcasts, the gifts and the transfers implement Confirmation: a confirmation
\* takes the request that waits when it comes, once, and one that was replaced,
\* cancelled or left to expire is never carried out.
THEOREM ConfirmationsHold == Spec => TakesWhatWaits
<1>1. Init => Inv /\ Confirming /\ Confirmed!Init
  <2>1. Init => Confirming
    BY DEF Init, Confirming
  <2>2. Init => Asked = {} /\ Taken = {}
    BY DEF Init, Asked, Taken
  <2>3. Init => Confirmed!Init
    BY <2>2 DEF Init, Confirmed!Init
  <2> QED BY <2>1, <2>3, InvInitially
<1>2. Inv /\ Confirming /\ [Next]_vars => Inv' /\ Confirming'
  BY NextKeepsInv, NextMapped
<1>3. Inv /\ Confirming /\ [Next]_vars =>
        [Confirmed!Next]_<<Asked, pending, Taken, sent>>
  BY NextMapped DEF Mapped
<1> QED BY <1>1, <1>2, <1>3, PTL DEF Spec, TakesWhatWaits, Confirmed!Spec
-----------------------------------------------------------------------------
\* A command that arrives has neither paused nor begun to send a broadcast.
LEMMA ArrivalMoves ==
    ASSUME Inv, NEW m \in Msg, Arrival(m)
    PROVE  /\ at[m] = "new" /\ at'[m] # "spread"
           /\ \A n \in Msg \ {m} : at'[n] = at[n] /\ left'[n] = left[n]
<1>1. PICK k \in AllKinds, label \in {"status", "reply", "send", "collect", "lookup", "act", "unlink"} :
         Arrives(m, k, label)
  BY DEF Arrival, MediaArrives, RepeatArrives, StopArrives, PrepareArrives, ConfirmArrives,
         BroadcastStopArrives, GiftArrives, GiftCancelArrives, GiftConfirmArrives,
         PasswordArrives, AllKinds
<1>2. PICK goal \in {label, "done"} : at' = [at EXCEPT ![m] = goal] /\ at[m] = "new"
  BY <1>1, ReachedLabel DEF Arrives
<1>3. at'[m] = goal /\ \A n \in Msg \ {m} : at'[n] = at[n]
  BY <1>2 DEF Inv, HandlerTypes
<1>4. \A n \in Msg \ {m} : left'[n] = left[n]
  <2>1. CASE left' = left
    BY <2>1
  <2>2. CASE RepeatArrives(m)
    BY <2>2 DEF RepeatArrives, Inv, HandlerTypes
  <2> QED BY <2>1, <2>2 DEF Arrival, MediaArrives, StopArrives, PrepareArrives, ConfirmArrives,
         BroadcastStopArrives, GiftArrives, GiftCancelArrives, GiftConfirmArrives, PasswordArrives
<1> QED BY <1>2, <1>3, <1>4

\* Outside the broadcast and the repeat, a handler that moves is not at a pause and
\* sends no broadcast.
LEMMA OtherMoves ==
    ASSUME Inv, NEW m \in Msg,
           \/ MediaReturns(m) \/ RepeatReturns(m) \/ ReplyReturns(m) \/ LookupReturns(m)
           \/ PasswordRead(m) \/ ActReturns(m) \/ MediaWaits(m) \/ MediaGivesUp(m) \/ ProcessEnds(m)
    PROVE  /\ at[m] # "pause" /\ at'[m] # "spread"
           /\ \A n \in Msg \ {m} : at'[n] = at[n] /\ left'[n] = left[n]
<1> DEFINE Away == {"done", "fetch", "account", "tell", "upload", "clear", "pause", "reply",
                    "act", "global", "process", "noting"}
<1>1. at[m] # "pause"
  BY DEF MediaReturns, RepeatReturns, ReplyReturns, LookupReturns, PasswordRead, ActReturns,
         MediaWaits, MediaGivesUp, Watches, ProcessEnds
<1>2. \E label \in Away : Goes(m, label)
  <2>1. CASE MediaReturns(m)
    <3>1. PICK ok \in BOOLEAN : \E label \in AfterMediaCall(m, ok) : Returns(m, ok, label)
      BY <2>1 DEF MediaReturns
    <3>2. at[m] \in {"status", "fetch", "noting", "upload", "clear", "tell"}
      BY <2>1 DEF MediaReturns
    <3>3. AfterMediaCall(m, ok) \subseteq Away
      BY <3>2 DEF AfterMediaCall
    <3> QED BY <3>1, <3>3 DEF Returns
  <2>2. CASE RepeatReturns(m) \/ ReplyReturns(m)
    BY <2>2 DEF RepeatReturns, ReplyReturns, Returns
  <2>3. CASE LookupReturns(m) \/ PasswordRead(m) \/ ActReturns(m)
    BY <2>3 DEF LookupReturns, PasswordRead, ActReturns, Returns
  <2>4. CASE MediaWaits(m) \/ MediaGivesUp(m) \/ ProcessEnds(m)
    <3>1. PICK goal \in {"global", "process", "tell", "noting"} : GoesOn(m, goal)
      BY <2>4 DEF MediaWaits, MediaGivesUp, ProcessEnds
    <3>2. Reached(goal) \in Away
      BY <3>1, ReachedLabel
    <3> QED BY <3>1, <3>2 DEF GoesOn
  <2> QED BY <2>1, <2>2, <2>3, <2>4
<1>3. PICK label \in Away : at' = [at EXCEPT ![m] = label]
  BY <1>2 DEF Goes
<1>4. at'[m] = label /\ \A n \in Msg \ {m} : at'[n] = at[n]
  BY <1>3 DEF Inv, HandlerTypes
<1>5. \A n \in Msg \ {m} : left'[n] = left[n]
  BY DEF MediaReturns, RepeatReturns, ReplyReturns, LookupReturns, PasswordRead, ActReturns,
         MediaWaits, MediaGivesUp, ProcessEnds, Inv, HandlerTypes
<1> QED BY <1>1, <1>3, <1>4, <1>5

\* What the running broadcast and a resumed repeat do to the other handlers: nothing.
LEMMA JobMoves ==
    ASSUME Inv, NEW m \in Msg, BroadcastReturns(m) \/ RepeatGoesOn(m)
    PROVE  \A n \in Msg \ {m} : at'[n] = at[n] /\ left'[n] = left[n]
<1>1. CASE RepeatGoesOn(m)
  BY <1>1 DEF RepeatGoesOn, GoesOn, Goes, Inv, HandlerTypes
<1>2. CASE BroadcastReturns(m)
  <2>1. at[m] \in JobLabels
    BY <1>2, MsgAssumption DEF BroadcastReturns, Inv, Spreading
  <2>2. \E ok \in BOOLEAN, label \in JobLabels \cup {"done"} : Returns(m, ok, label)
    BY <1>2, <2>1 DEF BroadcastReturns, JobLabels
  <2>3. \A n \in Msg \ {m} : at'[n] = at[n]
    BY <2>2 DEF Returns, Goes, Inv, HandlerTypes
  <2>4. \A n \in Msg \ {m} : left'[n] = left[n]
    BY <1>2, <2>1 DEF BroadcastReturns, JobLabels, Inv, HandlerTypes
  <2> QED BY <2>3, <2>4
<1> QED BY <1>1, <1>2

\* The step of a job that has been stopped sends nothing.
LEMMA StoppedStep ==
    ASSUME Inv, [Next]_vars, NEW m \in Msg
    PROVE  /\ at[m] = "pause" /\ at'[m] = "send" => m \notin cancelled
           /\ at'[m] = "spread" /\ (at[m] = "status" \/ left'[m] < left[m]) => ~stop
<1> DEFINE Still == at'[m] = at[m] /\ left'[m] = left[m]
<1>0. left[m] \in 0..Times
  BY DEF Inv, HandlerTypes
<1>1. CASE Still
  BY <1>0, <1>1, TimesAssumption
<1>2. CASE at[m] # "pause" /\ at'[m] # "spread"
  BY <1>2
<1>3. CASE RepeatGoesOn(m)
  <2>1. PICK label \in {"send", "done"} :
          Goes(m, Reached(label)) /\ (label = "send" => ~Stopped(m))
    BY <1>3 DEF RepeatGoesOn, GoesOn
  <2>2. at'[m] = Reached(label) /\ Reached(label) \in {label, "done"}
    BY <2>1, ReachedLabel DEF Goes, Inv, HandlerTypes
  <2> QED BY <2>1, <2>2 DEF Stopped
<1>4. CASE BroadcastReturns(m)
  <2>1. at[m] \in JobLabels /\ job = m /\ sent' \in [Msg -> Nat]
    BY <1>4, NextKeepsInv, MsgAssumption DEF BroadcastReturns, Inv, HandlerTypes, Spreading
  <2>2. ASSUME at'[m] = "spread" PROVE ~stop
    <3>1. CASE at[m] = "status"
      BY <1>4, <2>2, <3>1 DEF BroadcastReturns, Returns, Goes, Inv, HandlerTypes
    <3>2. CASE at[m] = "spread"
      BY <1>4, <2>2, <3>2 DEF BroadcastReturns, Returns, Goes, Inv, HandlerTypes
    <3>3. CASE at[m] \in {"collect", "final", "sorry"}
      BY <1>4, <2>2, <3>3 DEF BroadcastReturns, Returns, Goes, Inv, HandlerTypes
    <3> QED BY <2>1, <3>1, <3>2, <3>3 DEF JobLabels
  <2> QED BY <2>1, <2>2 DEF JobLabels
<1>5. CASE UNCHANGED handlerVars
  BY <1>1, <1>5 DEF handlerVars
<1>6. CASE \E n \in Msg : Arrival(n)
  BY <1>1, <1>2, <1>6, ArrivalMoves
<1>7. CASE \E n \in Msg : MediaWaits(n) \/ MediaGivesUp(n) \/ ProcessEnds(n)
  BY <1>1, <1>2, <1>7, OtherMoves
<1>8. CASE \E n \in Msg : HandlerReturns(n)
  BY <1>1, <1>2, <1>4, <1>8, OtherMoves, JobMoves DEF HandlerReturns
<1>9. CASE \E n \in Msg : RepeatGoesOn(n)
  BY <1>1, <1>3, <1>9, JobMoves
<1>10. CASE \E c \in Confirmable : PendingExpires(c)
  BY <1>1, <1>10 DEF PendingExpires
<1> QED BY <1>5, <1>6, <1>7, <1>8, <1>9, <1>10 DEF Next, vars

\* A job that has been stopped hands no further message to the queue
\* (repeat.py:122, broadcast.py:139).
THEOREM StoppedJobsAreQuiet == Spec => StoppedJobsSendNoMore
<1>1. Inv /\ [Next]_vars =>
        [\A m \in Msg :
          /\ at[m] = "pause" /\ at'[m] = "send" => m \notin cancelled
          /\ at'[m] = "spread" /\ (at[m] = "status" \/ left'[m] < left[m]) => ~stop]_vars
  BY StoppedStep
<1> QED BY <1>1, InvInitially, NextKeepsInv, PTL DEF Spec, StoppedJobsSendNoMore
-----------------------------------------------------------------------------
\* The processes are finitely many, and no more than the workers.
PoolInv == IsFiniteSet(running) /\ ProcessesWithinWorkers

\* At most media_workers processes run at once, whatever becomes of the semaphores of
\* the accounts (work_pool.py:44).
THEOREM WorkersSuffice == Spec => []ProcessesWithinWorkers
<1>1. Init => PoolInv
  BY WorkersAssumption, FS_EmptySet DEF Init, PoolInit, PoolInv, ProcessesWithinWorkers
<1>2. ASSUME PoolInv, NEW m \in Msg, TakesWorker(m) PROVE PoolInv'
  <2>1. Cardinality(running) \in Nat /\ Cardinality(running) < Workers
    BY <1>2, FS_CardinalityType DEF PoolInv, TakesWorker, FreeWorker
  <2>2. IsFiniteSet(running \cup {m})
        /\ Cardinality(running \cup {m}) \in {Cardinality(running), Cardinality(running) + 1}
    BY <1>2, FS_AddElement DEF PoolInv
  <2> QED BY <1>2, <2>1, <2>2, WorkersAssumption DEF PoolInv, ProcessesWithinWorkers, TakesWorker
<1>3. ASSUME PoolInv, NEW m \in Msg, LeavesPool(m) PROVE PoolInv'
  <2>1. Cardinality(running) \in Nat
    BY <1>3, FS_CardinalityType DEF PoolInv
  <2>2. IsFiniteSet(running \ {m}) /\ Cardinality(running \ {m}) <= Cardinality(running)
    BY <1>3, FS_Subset DEF PoolInv
  <2>3. Cardinality(running \ {m}) \in Nat
    BY <2>2, FS_CardinalityType
  <2> QED BY <1>3, <2>1, <2>2, <2>3, WorkersAssumption DEF PoolInv, ProcessesWithinWorkers, LeavesPool
<1>4. ASSUME PoolInv, running' = running PROVE PoolInv'
  BY <1>4 DEF PoolInv, ProcessesWithinWorkers
<1>5. ASSUME PoolInv, [Next]_vars PROVE PoolInv'
  <2>1. CASE \E m \in Msg : MediaWaits(m) \/ MediaGivesUp(m) \/ ProcessEnds(m)
    BY <1>2, <1>3, <1>4, <1>5, <2>1
    DEF MediaWaits, MediaGivesUp, ProcessEnds, TakesAccount
  <2>2. CASE \E m \in Msg : Arrival(m)
    BY <1>4, <1>5, <2>2 DEF Arrival, MediaArrives, RepeatArrives, StopArrives, PrepareArrives,
       ConfirmArrives, BroadcastStopArrives, GiftArrives, GiftCancelArrives, GiftConfirmArrives,
       PasswordArrives, poolVars, workVars
  <2>3. CASE \E m \in Msg : HandlerReturns(m)
    BY <1>4, <1>5, <2>3 DEF HandlerReturns, MediaReturns, RepeatReturns, ReplyReturns,
       BroadcastReturns, LookupReturns, PasswordRead, ActReturns, workVars
  <2>4. CASE \E m \in Msg : RepeatGoesOn(m)
    BY <1>4, <1>5, <2>4 DEF RepeatGoesOn, workVars
  <2>5. CASE \E c \in Confirmable : PendingExpires(c)
    BY <1>4, <1>5, <2>5 DEF PendingExpires, poolVars, workVars
  <2>6. CASE UNCHANGED poolVars
    BY <1>4, <1>5, <2>6 DEF poolVars, workVars
  <2> QED BY <1>5, <2>1, <2>2, <2>3, <2>4, <2>5, <2>6 DEF Next, vars
<1>6. PoolInv => ProcessesWithinWorkers
  BY DEF PoolInv
<1> QED BY <1>1, <1>5, <1>6, PTL DEF Spec
-----------------------------------------------------------------------------
(***************************************************************************)
(* The queue holds the handlers that wait for a call of theirs, each once, *)
(* and a handler that waits for a process has a semaphore to wait for.     *)
(***************************************************************************)
Calling == {"pacing", "calling", "sleeping", "retrying"}

QueueInv ==
    /\ LimiterTypeOK
    /\ \A i, j \in 1..Len(queue) : queue[i] = queue[j] => i = j
    /\ \A m \in Msg : Queued(m) <=> at[m] \in CallLabels

SlotInv ==
    /\ PoolTypeOK /\ size \in [Msg -> 1..2] /\ stop \in BOOLEAN
    /\ \A m \in Msg : at[m] \in PoolLabels => under[m] # 0

\* A place is taken at the end of the queue.
LEMMA EntersQueue ==
    ASSUME QueueInv, HandlerTypes, NEW m \in Msg, NEW label \in CallLabels, ~Full(queue),
           at[m] \notin CallLabels, Enters(m), at' = [at EXCEPT ![m] = label]
    PROVE  QueueInv'
<1>1. queue \in Seq(Msg) /\ Len(queue) \in Nat /\ Len(queue) < MaxQueue /\ ~Queued(m)
  BY MaxQueueAssumption DEF QueueInv, LimiterTypeOK, Full, Msg
<1>2. /\ queue' \in Seq(Msg) /\ Len(queue') = Len(queue) + 1
      /\ \A i \in 1..Len(queue) : queue'[i] = queue[i]
      /\ queue'[Len(queue) + 1] = m
  BY <1>1 DEF Enters
<1>3. DOMAIN queue = 1..Len(queue) /\ DOMAIN queue' = 1..(Len(queue) + 1)
  BY <1>1, <1>2
<1>4. LimiterTypeOK'
  BY <1>1, <1>2, MaxQueueAssumption DEF LimiterTypeOK, QueueInv, Enters, Msg
<1>5. \A i, j \in 1..Len(queue') : queue'[i] = queue'[j] => i = j
  <2>1. \A i \in 1..Len(queue) : queue[i] # m
    BY <1>1, <1>3 DEF Queued
  <2> SUFFICES ASSUME NEW i \in 1..(Len(queue) + 1), NEW j \in 1..(Len(queue) + 1),
                      queue'[i] = queue'[j]
               PROVE  i = j
    BY <1>2
  <2>2. CASE i = Len(queue) + 1 \/ j = Len(queue) + 1
    BY <1>1, <1>2, <2>1, <2>2
  <2>3. CASE i \in 1..Len(queue) /\ j \in 1..Len(queue)
    BY <1>2, <2>3 DEF QueueInv
  <2> QED BY <1>1, <2>2, <2>3
<1>6. \A k \in Msg : Queued(k)' <=> Queued(k) \/ k = m
  BY <1>1, <1>2, <1>3 DEF Queued
<1>7. \A k \in Msg : at'[k] = IF k = m THEN label ELSE at[k]
  BY DEF HandlerTypes
<1> QED BY <1>4, <1>5, <1>6, <1>7 DEF QueueInv

\* The call at the head is over.
LEMMA EndsQueue ==
    ASSUME QueueInv, HandlerTypes, NEW m \in Msg, NEW label, NEW ok,
           CallEnds(m, ok, label \in CallLabels), at' = [at EXCEPT ![m] = label]
    PROVE  QueueInv'
<1> DEFINE n == Len(queue)
<1>1. /\ queue \in Seq(Msg) /\ n \in Nat \ {0} /\ n <= MaxQueue
      /\ queue[1] = m /\ DOMAIN queue = 1..n
  BY DEF QueueInv, LimiterTypeOK, CallEnds, Msg
<1>2. /\ Tail(queue) \in Seq(Msg) /\ Len(Tail(queue)) = n - 1
      /\ \A i \in 1..(n - 1) : Tail(queue)[i] = queue[i + 1]
  BY <1>1
<1>3. \A k \in Msg : at'[k] = IF k = m THEN label ELSE at[k]
  BY DEF HandlerTypes
<1>4. call' \in Calling /\ early' \in BOOLEAN
  BY DEF CallEnds, Calling
<1>5. CASE label \in CallLabels
  <2>1. queue' = Append(Tail(queue), m)
    BY <1>5 DEF CallEnds
  <2>2. /\ queue' \in Seq(Msg) /\ Len(queue') = n
        /\ \A i \in 1..(n - 1) : queue'[i] = queue[i + 1]
        /\ queue'[n] = m /\ DOMAIN queue' = 1..n
    BY <1>1, <1>2, <2>1
  <2>3. \A i, j \in 1..n : queue'[i] = queue'[j] => i = j
    BY <1>1, <2>2 DEF QueueInv
  <2>4. \A k \in Msg : Queued(k) => Queued(k)'
    <3> SUFFICES ASSUME NEW k \in Msg, NEW i \in 1..n, queue[i] = k PROVE Queued(k)'
      BY <1>1 DEF Queued
    <3>1. CASE i = 1
      BY <1>1, <2>2, <3>1 DEF Queued
    <3>2. CASE i # 1
      <4>1. i - 1 \in 1..(n - 1) /\ i - 1 \in 1..n /\ (i - 1) + 1 = i
        BY <1>1, <3>2
      <4>2. queue'[i - 1] = k
        BY <2>2, <4>1
      <4> QED BY <2>2, <4>1, <4>2 DEF Queued
    <3> QED BY <3>1, <3>2
  <2>5. \A k \in Msg : Queued(k)' => Queued(k)
    <3> SUFFICES ASSUME NEW i \in 1..n, NEW k \in Msg, queue'[i] = k PROVE Queued(k)
      BY <2>2 DEF Queued
    <3>1. CASE i = n
      BY <1>1, <2>2, <3>1 DEF Queued
    <3>2. CASE i # n
      <4>0. n \in Nat /\ i \in Nat /\ 1 <= i /\ i <= n
        BY <1>1
      <4>1. i \in 1..(n - 1) /\ i + 1 \in 1..n
        BY <3>2, <4>0
      <4>2. queue[i + 1] = k
        BY <2>2, <4>1
      <4> QED BY <1>1, <4>1, <4>2 DEF Queued
    <3> QED BY <3>1, <3>2
  <2>6. Queued(m)
    BY <1>1 DEF Queued
  <2>7. LimiterTypeOK'
    BY <1>1, <1>4, <2>2, MaxQueueAssumption DEF LimiterTypeOK, Calling, Msg
  <2>8. \A k \in Msg : Queued(k)' <=> at'[k] \in CallLabels
    BY <1>3, <1>5, <2>4, <2>5, <2>6 DEF QueueInv
  <2> QED BY <2>2, <2>3, <2>7, <2>8 DEF QueueInv
<1>6. CASE label \notin CallLabels
  <2>1. queue' = Tail(queue)
    BY <1>6 DEF CallEnds
  <2>2. /\ queue' \in Seq(Msg) /\ Len(queue') = n - 1 /\ n - 1 \in Nat
        /\ \A i \in 1..(n - 1) : queue'[i] = queue[i + 1]
        /\ DOMAIN queue' = 1..(n - 1)
    BY <1>1, <1>2, <2>1
  <2>3. \A i, j \in 1..(n - 1) : queue'[i] = queue'[j] => i = j
    BY <1>1, <2>2 DEF QueueInv
  <2>4. \A k \in Msg \ {m} : Queued(k) => Queued(k)'
    <3> SUFFICES ASSUME NEW k \in Msg \ {m}, NEW i \in 1..n, queue[i] = k PROVE Queued(k)'
      BY <1>1 DEF Queued
    <3>1. i # 1
      BY <1>1
    <3>2. i - 1 \in 1..(n - 1) /\ (i - 1) + 1 = i
      BY <1>1, <3>1
    <3>3. queue'[i - 1] = k
      BY <2>2, <3>2
    <3> QED BY <2>2, <3>2, <3>3 DEF Queued
  <2>5. \A k \in Msg : Queued(k)' => Queued(k) /\ k # m
    <3> SUFFICES ASSUME NEW k \in Msg, NEW i \in 1..(n - 1), queue[i + 1] = k
                 PROVE  Queued(k) /\ k # m
      BY <2>2 DEF Queued
    <3>1. i + 1 \in 1..n /\ 1 \in 1..n /\ i + 1 # 1
      BY <1>1
    <3> QED BY <1>1, <3>1 DEF Queued, QueueInv
  <2>6. LimiterTypeOK'
    BY <1>1, <1>4, <2>2, MaxQueueAssumption DEF LimiterTypeOK, Calling, Msg
  <2>7. \A k \in Msg : Queued(k)' <=> at'[k] \in CallLabels
    BY <1>3, <1>6, <2>4, <2>5 DEF QueueInv
  <2> QED BY <2>2, <2>3, <2>6, <2>7 DEF QueueInv
<1> QED BY <1>5, <1>6

\* A handler outside the queue goes on outside it.
LEMMA OutsideQueue ==
    ASSUME QueueInv, HandlerTypes, NEW m \in Msg, NEW label, label \notin CallLabels,
           at[m] \notin CallLabels, UNCHANGED limiterVars, at' = [at EXCEPT ![m] = label]
    PROVE  QueueInv'
<1>1. \A k \in Msg : at'[k] = IF k = m THEN label ELSE at[k]
  BY DEF HandlerTypes
<1>2. UNCHANGED <<queue, call, early>>
  BY DEF limiterVars
<1> QED BY <1>1, <1>2 DEF QueueInv, LimiterTypeOK, Queued

LEMMA ReachesQueue ==
    ASSUME QueueInv, HandlerTypes, NEW m \in Msg, NEW label, at[m] \notin CallLabels,
           at' = [at EXCEPT ![m] = Reached(label)],
           IF Reached(label) \in CallLabels THEN Enters(m) ELSE UNCHANGED limiterVars
    PROVE  QueueInv'
<1>1. Reached(label) \in CallLabels => ~Full(queue)
  BY DEF Reached, CallLabels
<1> QED BY <1>1, EntersQueue, OutsideQueue

LEMMA ArrivesQueue ==
    ASSUME QueueInv, HandlerTypes, NEW m \in Msg, NEW k, NEW label, Arrives(m, k, label)
    PROVE  QueueInv'
  BY ReachesQueue DEF Arrives, CallLabels

LEMMA GoesOnQueue ==
    ASSUME QueueInv, HandlerTypes, NEW m \in Msg, NEW label, at[m] \notin CallLabels,
           GoesOn(m, label)
    PROVE  QueueInv'
  BY ReachesQueue DEF GoesOn, Goes

LEMMA ReturnsQueue ==
    ASSUME QueueInv, HandlerTypes, NEW m \in Msg, NEW ok, NEW label, Returns(m, ok, label)
    PROVE  QueueInv'
  BY EndsQueue DEF Returns, Goes

\* The five labels of a broadcast
LEMMA BroadcastLabels ==
    ASSUME Inv, NEW m \in Msg, BroadcastReturns(m)
    PROVE  \E ok \in BOOLEAN, label \in JobLabels \cup {"done"} : Returns(m, ok, label)
<1>1. at[m] \in JobLabels
  BY MsgAssumption DEF BroadcastReturns, Inv, Spreading
<1>3. PICK ok \in BOOLEAN :
        /\ at[m] = "collect" => \E label \in {"status", "sorry"} : Returns(m, ok, label)
        /\ at[m] = "status" => \E label \in {"sorry", "final", "spread"} : Returns(m, ok, label)
        /\ at[m] = "spread" => \E label \in {"final", "spread"} : Returns(m, ok, label)
        /\ at[m] = "final" => \E label \in {"done", "sorry"} : Returns(m, ok, label)
        /\ at[m] = "sorry" => Returns(m, ok, "done")
  BY DEF BroadcastReturns
<1> QED BY <1>1, <1>3 DEF JobLabels

LEMMA NextKeepsQueue ==
    ASSUME QueueInv, Inv, [Next]_vars
    PROVE  QueueInv'
<1>0. HandlerTypes
  BY DEF Inv
<1>1. ASSUME NEW m \in Msg, Arrival(m) PROVE QueueInv'
  BY <1>0, <1>1, ArrivesQueue
     DEF Arrival, MediaArrives, RepeatArrives, StopArrives, PrepareArrives, ConfirmArrives,
         BroadcastStopArrives, GiftArrives, GiftCancelArrives, GiftConfirmArrives, PasswordArrives
<1>2. ASSUME NEW m \in Msg, HandlerReturns(m) PROVE QueueInv'
  <2>1. CASE BroadcastReturns(m)
    <3>1. \E ok, label : Returns(m, ok, label)
      BY <2>1, BroadcastLabels
    <3> QED BY <1>0, <3>1, ReturnsQueue
  <2> QED BY <1>0, <1>2, <2>1, ReturnsQueue
     DEF HandlerReturns, MediaReturns, RepeatReturns, ReplyReturns, LookupReturns, PasswordRead,
         ActReturns
<1>3. ASSUME NEW m \in Msg,
             RepeatGoesOn(m) \/ MediaWaits(m) \/ MediaGivesUp(m) \/ ProcessEnds(m)
      PROVE  QueueInv'
  <2>1. at[m] \notin CallLabels
    BY <1>3 DEF RepeatGoesOn, MediaWaits, MediaGivesUp, Watches, ProcessEnds, CallLabels
  <2> QED BY <1>0, <1>3, <2>1, GoesOnQueue DEF RepeatGoesOn, MediaWaits, MediaGivesUp, ProcessEnds
<1>4. ASSUME UNCHANGED <<at, queue>>, call' \in Calling, early' \in BOOLEAN PROVE QueueInv'
  BY <1>4 DEF QueueInv, LimiterTypeOK, Queued, Calling
<1>5. call \in Calling /\ early \in BOOLEAN
  BY DEF QueueInv, LimiterTypeOK, Calling
<1>6. CASE LimiterStep /\ UNCHANGED <<poolVars, handlerVars>>
  BY <1>4, <1>5, <1>6
     DEF LimiterStep, CallStarts, CallFloods, CallRetries, TimePasses, Calling, handlerVars
<1>7. CASE UNCHANGED vars \/ \E c \in Confirmable : PendingExpires(c)
  BY <1>4, <1>5, <1>7 DEF vars, limiterVars, handlerVars, PendingExpires
<1> QED BY <1>1, <1>2, <1>3, <1>6, <1>7 DEF Next

-----------------------------------------------------------------------------
\* Only the pool's handlers mind its semaphores.
LEMMA WorkSame ==
    ASSUME SlotInv, HandlerTypes, NEW m \in Msg, NEW label, label \notin PoolLabels,
           at' = [at EXCEPT ![m] = label], UNCHANGED workVars,
           held' \in [SlotKind -> SUBSET Job], cancelled' \subseteq Job,
           size' \in [Msg -> 1..2], stop' \in BOOLEAN
    PROVE  SlotInv'
<1>1. \A k \in Msg : at'[k] = IF k = m THEN label ELSE at[k]
  BY DEF HandlerTypes
<1>2. UNCHANGED <<limits, under, running>>
  BY DEF workVars
<1> QED BY <1>1, <1>2 DEF SlotInv, PoolTypeOK

\* What the slots' kinds have of a job
LEMMA SlotsTyped ==
    ASSUME SlotInv, NEW m \in Msg
    PROVE  /\ held \in [SlotKind -> SUBSET Job] /\ cancelled \subseteq Job
           /\ size \in [Msg -> 1..2] /\ stop \in BOOLEAN
           /\ \A k : Without(SlotOf(k), m) \in [SlotKind -> SUBSET Job]
           /\ \A k \in SlotKind : /\ With(k, m) \in [SlotKind -> SUBSET Job]
                                /\ cancelled \cup held[k] \subseteq Job
  BY MsgAssumption DEF SlotInv, PoolTypeOK, SlotKind, SlotOf, With, Without

LEMMA GoesSlots ==
    ASSUME SlotInv, NEW m \in Msg, NEW label, Goes(m, label)
    PROVE  at' = [at EXCEPT ![m] = label] /\ held' \in [SlotKind -> SUBSET Job]
  BY SlotsTyped DEF Goes

\* A handler whose step leaves the pool alone
LEMMA MovesSlots ==
    ASSUME SlotInv, HandlerTypes, NEW m \in Msg, NEW label, label \notin PoolLabels,
           Goes(m, label), UNCHANGED <<workVars, cancelled, size, stop>>
    PROVE  SlotInv'
  BY GoesSlots, SlotsTyped, WorkSame

LEMMA ArrivesSlots ==
    ASSUME SlotInv, HandlerTypes, NEW m \in Msg, NEW k, NEW label \in CallLabels,
           Arrives(m, k, label), UNCHANGED workVars,
           held' \in [SlotKind -> SUBSET Job], cancelled' \subseteq Job,
           size' \in [Msg -> 1..2], stop' \in BOOLEAN
    PROVE  SlotInv'
<1>1. Reached(label) \notin PoolLabels
  BY ReachedLabel DEF CallLabels, PoolLabels
<1> QED BY <1>1, WorkSame DEF Arrives

\* run_named's semaphore: the last one of the account, or a new one
LEMMA AsksForSlots ==
    ASSUME SlotInv, HandlerTypes, NEW m \in Msg, AsksFor(m, size[m]), UNCHANGED running,
           Goes(m, "account"), UNCHANGED <<cancelled, size, stop>>
    PROVE  SlotInv'
<1> DEFINE S == [size : 1..2, users : SUBSET Job]
           e == [size |-> size[m], users |-> {}]
<1>1. limits \in Seq(S) /\ Len(limits) \in Nat /\ e \in S /\ size[m] \in 1..2
      /\ under \in [Msg -> 0..Len(limits)]
  BY MsgAssumption DEF SlotInv, PoolTypeOK
<1>2. /\ limits' \in Seq(S) /\ Len(limits') \in Nat \ {0} /\ Len(limits') >= Len(limits)
      /\ under' = [under EXCEPT ![m] = Len(limits')]
  <2>1. CASE limits = <<>> \/ limits[Len(limits)].size # size[m]
    <3>1. limits' = Append(limits, e) /\ under' = [under EXCEPT ![m] = Len(limits')]
      BY <2>1 DEF AsksFor
    <3> QED BY <1>1, <3>1
  <2>2. CASE ~(limits = <<>> \/ limits[Len(limits)].size # size[m])
    <3>1. limits' = limits /\ under' = [under EXCEPT ![m] = Len(limits')]
      BY <2>2 DEF AsksFor
    <3>2. Len(limits) # 0
      BY <1>1, <2>2
    <3> QED BY <1>1, <3>1, <3>2
  <2> QED BY <2>1, <2>2
<1> HIDE DEF e
<1>3. under' \in [Msg -> 0..Len(limits')]
  BY <1>1, <1>2
<1>4. PoolTypeOK'
  BY <1>2, <1>3, GoesSlots, SlotsTyped, MsgAssumption DEF PoolTypeOK, SlotInv
<1>5. \A k \in Msg : at'[k] \in PoolLabels => under'[k] # 0
  <2>1. \A k \in Msg \ {m} : at'[k] = at[k] /\ under'[k] = under[k]
    BY <1>1, <1>2 DEF Goes, HandlerTypes
  <2>2. under'[m] # 0
    BY <1>1, <1>2
  <2> QED BY <2>1, <2>2 DEF SlotInv
<1> QED BY <1>4, <1>5 DEF SlotInv

\* A job in the pool has a semaphore; taking it or leaving it is typed.
LEMMA SemaphoreTyped ==
    ASSUME SlotInv, NEW m \in Msg, at[m] \in PoolLabels, NEW users,
           users \in SUBSET Job \/ users = limits[under[m]].users \ {m}
                                \/ users = limits[under[m]].users \cup {m},
           limits' = [limits EXCEPT ![under[m]].users = users]
    PROVE  limits' \in Seq([size : 1..2, users : SUBSET Job]) /\ Len(limits') = Len(limits)
<1> DEFINE S == [size : 1..2, users : SUBSET Job]
           i == under[m]
<1>1. limits \in Seq(S) /\ i \in 1..Len(limits)
  BY MsgAssumption DEF SlotInv, PoolTypeOK
<1>2. limits[i] \in S
  BY <1>1, ElementOfSeq
<1>3. users \in SUBSET Job
  BY <1>2, MsgAssumption
<1>4. [limits[i] EXCEPT !.users = users] \in S
  BY <1>2, <1>3
<1>5. limits' = [limits EXCEPT ![i] = [limits[i] EXCEPT !.users = users]]
  OBVIOUS
<1> HIDE DEF S
<1> QED BY <1>1, <1>4, <1>5 DEF S

LEMMA WaitsSlots ==
    ASSUME SlotInv, HandlerTypes, NEW m \in Msg, MediaWaits(m)
    PROVE  SlotInv'
<1>1. PICK label \in {"global", "process"} : GoesOn(m, label)
  BY DEF MediaWaits
<1>2. Reached(label) = label /\ label \in PoolLabels
  BY DEF Reached, CallLabels, PoolLabels
<1>3. Goes(m, label) /\ UNCHANGED <<cancelled, size, stop, under>>
  BY <1>1, <1>2 DEF GoesOn, MediaWaits, TakesAccount, TakesWorker
<1>4. at[m] \in PoolLabels
  BY DEF MediaWaits, PoolLabels
<1>5. limits' \in Seq([size : 1..2, users : SUBSET Job]) /\ Len(limits') = Len(limits)
  <2>1. CASE TakesAccount(m)
    <3> DEFINE users == limits[under[m]].users \cup {m}
    <3>1. limits' = [limits EXCEPT ![under[m]].users = users]
      BY <2>1 DEF TakesAccount
    <3> QED BY <1>4, <3>1, SemaphoreTyped
  <2>2. CASE TakesWorker(m)
    BY <2>2 DEF TakesWorker, SlotInv, PoolTypeOK
  <2> QED BY <2>1, <2>2 DEF MediaWaits
<1>6. running' \subseteq Job
  BY MsgAssumption DEF MediaWaits, TakesAccount, TakesWorker, SlotInv, PoolTypeOK
<1>7. PoolTypeOK'
  BY <1>3, <1>5, <1>6, GoesSlots, SlotsTyped DEF PoolTypeOK, SlotInv
<1>8. \A k \in Msg : at'[k] \in PoolLabels => at[k] \in PoolLabels
  BY <1>3, <1>4 DEF Goes, HandlerTypes
<1> QED BY <1>3, <1>7, <1>8 DEF SlotInv

LEMMA LeavesSlots ==
    ASSUME SlotInv, HandlerTypes, NEW m \in Msg, LeavesPool(m), at[m] \in PoolLabels,
           NEW label \in CallLabels, GoesOn(m, label), UNCHANGED <<cancelled, size, stop>>
    PROVE  SlotInv'
<1>1. Goes(m, Reached(label)) /\ Reached(label) \notin PoolLabels
  BY ReachedLabel DEF GoesOn, CallLabels, PoolLabels
<1>2. limits' \in Seq([size : 1..2, users : SUBSET Job]) /\ Len(limits') = Len(limits)
  <2> DEFINE users == limits[under[m]].users \ {m}
  <2>1. limits' = [limits EXCEPT ![under[m]].users = users]
    BY DEF LeavesPool
  <2> QED BY <2>1, SemaphoreTyped
<1>3. under' = [under EXCEPT ![m] = 0] /\ running' \subseteq Job
  BY DEF LeavesPool, SlotInv, PoolTypeOK
<1>4. Len(limits) \in Nat /\ under \in [Job -> 0..Len(limits)]
  BY DEF SlotInv, PoolTypeOK
<1>5. under' \in [Job -> 0..Len(limits')]
  <2> DEFINE S == 0..Len(limits)
  <2>1. under' \in [Job -> S]
    <3>1. 0 \in S /\ under \in [Job -> S]
      BY <1>4
    <3> HIDE DEF S
    <3> QED BY <1>3, <3>1
  <2> QED BY <1>2, <2>1
<1>6. PoolTypeOK'
  BY <1>1, <1>2, <1>3, <1>5, GoesSlots, SlotsTyped DEF PoolTypeOK, SlotInv
<1>7. \A k \in Msg : at'[k] \in PoolLabels => k # m /\ at[k] \in PoolLabels
  BY <1>1 DEF Goes, HandlerTypes
<1>8. \A k \in Msg \ {m} : under'[k] = under[k]
  BY <1>3, <1>4, MsgAssumption
<1> QED BY <1>6, <1>7, <1>8 DEF SlotInv

LEMMA ArrivalSlots ==
    ASSUME SlotInv, HandlerTypes, NEW m \in Msg, Arrival(m)
    PROVE  SlotInv'
<1>1. CASE MediaArrives(m)
  <2>1. UNCHANGED <<cancelled, workVars, stop>>
    BY <1>1 DEF MediaArrives
  <2>3. PICK k \in {"video", "search", "convert"}, label \in {"status", "reply"} :
          Arrives(m, k, label)
    BY <1>1 DEF MediaArrives
  <2>4. label \in CallLabels
    BY DEF CallLabels
  <2>2. size' \in [Msg -> 1..2] /\ held' \in [SlotKind -> SUBSET Job]
    BY <1>1, SlotsTyped DEF MediaArrives, SlotKind
  <2> QED BY <2>1, <2>2, <2>3, <2>4, SlotsTyped, ArrivesSlots
<1>2. CASE RepeatArrives(m)
  <2>1. /\ UNCHANGED <<cancelled, workVars, size, stop>>
        /\ \E label \in CallLabels : Arrives(m, "repeat", label)
    BY <1>2 DEF RepeatArrives, CallLabels
  <2>2. held' \in [SlotKind -> SUBSET Job]
    BY <1>2, SlotsTyped DEF RepeatArrives, SlotKind
  <2> QED BY <2>1, <2>2, SlotsTyped, ArrivesSlots
<1>3. CASE StopArrives(m)
  <2>1. /\ UNCHANGED <<held, workVars, size, stop>>
        /\ \E k : Arrives(m, k, "reply")
    BY <1>3 DEF StopArrives
  <2>2. cancelled' \subseteq Job
    BY <1>3, SlotsTyped DEF StopArrives, CancelKind, SlotKind
  <2> QED BY <2>1, <2>2, SlotsTyped, ArrivesSlots DEF CallLabels
<1>4. ASSUME NEW k, NEW label \in CallLabels, Arrives(m, k, label), UNCHANGED <<poolVars, size>>,
             stop' \in BOOLEAN
      PROVE  SlotInv'
  <2>1. UNCHANGED <<held, cancelled, workVars>>
    BY <1>4 DEF poolVars
  <2> QED BY <1>4, <2>1, SlotsTyped, ArrivesSlots
<1>5. stop \in BOOLEAN /\ {"reply", "collect", "lookup", "act", "unlink"} \subseteq CallLabels
  BY DEF SlotInv, CallLabels
<1>6. CASE ConfirmArrives(m)
  <2>1. UNCHANGED <<poolVars, size>> /\ stop' \in BOOLEAN
    BY <1>5, <1>6 DEF ConfirmArrives
  <2>2. \E label \in {"reply", "collect"} : Arrives(m, "confirmbroadcast", label)
    BY <1>6 DEF ConfirmArrives
  <2> QED BY <1>4, <1>5, <2>1, <2>2
<1>7. CASE BroadcastStopArrives(m)
  <2>1. stop' \in BOOLEAN
    BY <1>5, <1>7 DEF BroadcastStopArrives
  <2> QED BY <1>4, <1>5, <1>7, <2>1 DEF BroadcastStopArrives
<1>8. CASE GiftConfirmArrives(m)
  BY <1>4, <1>5, <1>8 DEF GiftConfirmArrives
<1>9. CASE PrepareArrives(m) \/ GiftArrives(m) \/ GiftCancelArrives(m) \/ PasswordArrives(m)
  BY <1>4, <1>5, <1>9 DEF PrepareArrives, GiftArrives, GiftCancelArrives, PasswordArrives
<1> QED BY <1>1, <1>2, <1>3, <1>6, <1>7, <1>8, <1>9 DEF Arrival

LEMMA NextKeepsSlots ==
    ASSUME SlotInv, Inv, [Next]_vars
    PROVE  SlotInv'
<1>0. HandlerTypes
  BY DEF Inv
<1>1. ASSUME NEW m \in Msg, HandlerReturns(m) PROVE SlotInv'
  <2>1. CASE MediaReturns(m)
    <3>1. PICK ok \in BOOLEAN : \E label \in AfterMediaCall(m, ok) :
             /\ Returns(m, ok, label)
             /\ IF label = "account" THEN AsksFor(m, size[m]) /\ UNCHANGED running
                                     ELSE UNCHANGED workVars
      BY <2>1 DEF MediaReturns
    <3>2. PICK label \in AfterMediaCall(m, ok) :
             /\ Returns(m, ok, label)
             /\ IF label = "account" THEN AsksFor(m, size[m]) /\ UNCHANGED running
                                     ELSE UNCHANGED workVars
      BY <3>1
    <3>3. label \in {"done", "fetch", "account", "tell", "upload", "clear"}
      BY <2>1 DEF AfterMediaCall, MediaReturns
    <3>4. label # "account" => label \notin PoolLabels
      BY <3>3 DEF PoolLabels
    <3>5. Goes(m, label) /\ UNCHANGED <<cancelled, size, stop>>
      BY <2>1, <3>2 DEF MediaReturns, Returns
    <3> QED BY <1>0, <3>2, <3>4, <3>5, AsksForSlots, MovesSlots
  <2>2. ASSUME NEW ok, NEW label, Returns(m, ok, label), label \notin PoolLabels,
               UNCHANGED <<cancelled, workVars, size, stop>>
        PROVE  SlotInv'
    BY <1>0, <2>2, MovesSlots DEF Returns
  <2>3. CASE BroadcastReturns(m)
    <3>1. at[m] \in JobLabels
      BY <2>3, MsgAssumption DEF BroadcastReturns, Inv, Spreading
    <3>2. \E ok \in BOOLEAN, label \in JobLabels \cup {"done"} : Returns(m, ok, label)
      BY <2>3, BroadcastLabels
    <3>3. (JobLabels \cup {"done"}) \cap PoolLabels = {}
      BY DEF JobLabels, PoolLabels
    <3> QED BY <2>2, <2>3, <3>2, <3>3 DEF BroadcastReturns
  <2>4. {"pause", "done", "reply", "act"} \cap PoolLabels = {}
    BY DEF PoolLabels
  <2>5. CASE RepeatReturns(m)
    <3>1. \E ok \in BOOLEAN, label \in {"pause", "done"} : Returns(m, ok, label)
      BY <2>5 DEF RepeatReturns
    <3> QED BY <2>2, <2>4, <2>5, <3>1 DEF RepeatReturns
  <2>6. CASE ReplyReturns(m) \/ LookupReturns(m) \/ PasswordRead(m) \/ ActReturns(m)
    BY <2>2, <2>4, <2>6 DEF ReplyReturns, LookupReturns, PasswordRead, ActReturns
  <2> QED BY <1>1, <2>1, <2>3, <2>5, <2>6 DEF HandlerReturns
<1>2. ASSUME NEW m \in Msg, RepeatGoesOn(m) PROVE SlotInv'
  <2>1. PICK label \in {"done", "send"} : GoesOn(m, label)
    BY <1>2 DEF RepeatGoesOn
  <2>2. Reached(label) \notin PoolLabels
    BY ReachedLabel DEF PoolLabels
  <2> QED BY <1>0, <1>2, <2>1, <2>2, MovesSlots DEF RepeatGoesOn, GoesOn
<1>3. ASSUME NEW m \in Msg, MediaGivesUp(m) PROVE SlotInv'
  <2>1. at[m] \in PoolLabels /\ "tell" \in CallLabels
    BY <1>3 DEF MediaGivesUp, Watches, PoolLabels, CallLabels
  <2> QED BY <1>0, <1>3, <2>1, LeavesSlots DEF MediaGivesUp
<1>4. ASSUME NEW m \in Msg, ProcessEnds(m) PROVE SlotInv'
  <2>1. at[m] \in PoolLabels /\ {"tell", "noting"} \subseteq CallLabels
    BY <1>4 DEF ProcessEnds, PoolLabels, CallLabels
  <2> QED BY <1>0, <1>4, <2>1, LeavesSlots DEF ProcessEnds
<1>5. ASSUME UNCHANGED <<poolVars, at, size, stop>> PROVE SlotInv'
  BY <1>5 DEF poolVars, workVars, SlotInv, PoolTypeOK
<1>6. CASE \/ LimiterStep /\ UNCHANGED <<poolVars, handlerVars>>
           \/ \E c \in Confirmable : PendingExpires(c)
           \/ UNCHANGED vars
  BY <1>5, <1>6 DEF handlerVars, vars, PendingExpires
<1> QED BY <1>0, <1>1, <1>2, <1>3, <1>4, <1>6, ArrivalSlots, WaitsSlots DEF Next

\* The queue is empty, and no job is in the pool.
LEMMA QueueInitially == ASSUME Init PROVE QueueInv /\ SlotInv
<1>1. /\ queue = <<>> /\ call = "pacing" /\ early = FALSE
      /\ at = [m \in Msg |-> "new"] /\ size = [m \in Msg |-> 1] /\ stop = FALSE
  BY DEF Init, LimiterInit
<1>2. \A m \in Msg : at[m] \notin CallLabels \cup PoolLabels
  BY <1>1 DEF CallLabels, PoolLabels
<1>3. LimiterTypeOK
  <2>1. queue \in Seq(Caller) /\ Len(queue) = 0
    BY <1>1
  <2>2. Len(queue) <= MaxQueue
    BY <2>1, MaxQueueAssumption
  <2> QED BY <1>1, <2>1, <2>2 DEF LimiterTypeOK
<1>4. QueueInv
  BY <1>1, <1>2, <1>3 DEF QueueInv, Queued
<1>5. PoolTypeOK
  <2>1. /\ held = [k \in SlotKind |-> {}] /\ cancelled = {} /\ limits = <<>>
        /\ under = [j \in Job |-> 0] /\ running = {}
    BY DEF Init, PoolInit
  <2>2. limits \in Seq([size : 1..2, users : SUBSET Job]) /\ 0 \in 0..Len(limits)
    BY <2>1
  <2>3. under \in [Job -> 0..Len(limits)]
    BY <2>1, <2>2
  <2>4. held \in [SlotKind -> SUBSET Job] /\ cancelled \subseteq Job /\ running \subseteq Job
    BY <2>1
  <2> QED BY <2>2, <2>3, <2>4 DEF PoolTypeOK
<1>6. size \in [Msg -> 1..2]
  <2>1. 1 \in 1..2 /\ size = [m \in Msg |-> 1]
    BY <1>1
  <2> DEFINE S == 1..2
  <2> HIDE DEF S
  <2>2. size \in [Msg -> S]
    BY <2>1 DEF S
  <2> QED BY <2>2 DEF S
<1>7. stop \in BOOLEAN
  BY <1>1
<1> QED BY <1>2, <1>4, <1>5, <1>6, <1>7 DEF SlotInv

\* What a message asks for never changes.
LEMMA KindStays == ASSUME [Next]_vars PROVE kind' = kind
<1>1. ASSUME NEW m \in Msg, Arrival(m) PROVE kind' = kind
  BY <1>1 DEF Arrival, MediaArrives, RepeatArrives, StopArrives, PrepareArrives, ConfirmArrives,
     BroadcastStopArrives, GiftArrives, GiftCancelArrives, GiftConfirmArrives, PasswordArrives,
     Arrives
<1>2. ASSUME NEW m \in Msg, HandlerReturns(m) PROVE kind' = kind
  BY <1>2 DEF HandlerReturns, MediaReturns, RepeatReturns, ReplyReturns, BroadcastReturns,
     LookupReturns, PasswordRead, ActReturns
<1> QED BY <1>1, <1>2
    DEF Next, RepeatGoesOn, MediaWaits, MediaGivesUp, ProcessEnds, PendingExpires, vars, handlerVars

\* The queue holds exactly the handlers that wait for a call of theirs, each once, and a
\* job in the pool waits for a semaphore that exists (flood.py:70, work_pool.py:37).
THEOREM CommandTypes == Spec => []TypeOK
<1> DEFINE Typed == Inv /\ QueueInv /\ SlotInv /\ kind \in Traffic
<1>1. Init => Typed
  BY QueueInitially, InvInitially DEF Init
<1>2. Typed /\ [Next]_vars => Typed'
  BY NextKeepsInv, NextKeepsQueue, NextKeepsSlots, KindStays
<1>3. Typed => TypeOK
  BY DEF TypeOK, Inv, HandlerTypes, QueueInv, SlotInv
<1> QED BY <1>1, <1>2, <1>3, PTL DEF Spec
=============================================================================
