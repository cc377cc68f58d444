------------------------ MODULE AccountConversations ------------------------
(***************************************************************************)
(* user_handlers.py: the conversations in which a user signs a number in,  *)
(* for himself or for somebody else, and moves one to another owner.       *)
(*                                                                         *)
(* Updates are handled concurrently (main.py:167).  A handler is chosen by *)
(* the state of the conversation when its update arrives, and sets the     *)
(* next state when it returns; in between it awaits, and other handlers of *)
(* the same user read and write the same user_data.  A step lasts from one *)
(* await to the next; awaits that nothing else can tell apart are one.     *)
(***************************************************************************)
EXTENDS AccountOwners

CONSTANTS Newcomer,     \* bound: the users who sign numbers in; every user moves some
          Client,       \* login clients; bound: how many exist at a time
          Slot,         \* bound: handlers of one user in flight, numbered
          MaxEvents     \* bound: updates, and what happens without one

ASSUME NewcomerAssumption == Newcomer \subseteq User
ASSUME SlotAssumption == Slot \subseteq Nat
ASSUME ClientAssumption == None \notin Client
ASSUME EventsAssumption == MaxEvents \in Nat

VARIABLES
    conv,       \* user -> state of add_account_conv_handler, "end" for none
    awaiting,   \* the users whose transfer conversation waits for a recipient
    data,       \* user -> user_data
    handler,    \* user, slot -> the handler in flight there: where it is, its locals
    client,     \* client -> the connection of a login
    asked,      \* history: user -> the owner his last phone prompt was for
    disturbed,  \* history: what happened to a user: handlers in flight
                \* together ("overlap"), one that raised ("error")
    events      \* how much happened

talkVars == <<conv, awaiting, data, handler, client, asked, disturbed>>
vars == <<ownerVars, talkVars, events>>

States == {"end", "choose", "target", "phone", "code", "password"}

Data == [client : Client \cup {None}, phone : Phone \cup {None},
         for : User \cup {None}, moving : Phone \cup {None}]
NoData == [client |-> None, phone |-> None, for |-> None, moving |-> None]

\* on, phone and owner are local variables, login that of async_complete_login;
\* then and tidy say how it returns.
Handler == [at : {"idle", "greeting", "naming", "dropping", "sending", "signing",
                  "checking", "saving", "telling", "quitting", "cancelling",
                  "moved", "replying"},
            on : Client \cup {None}, login : Client \cup {None},
            phone : Phone \cup {None}, owner : User \cup {None},
            then : States, tidy : {"keep", "drop_for", "clear"}]
Idle == [at |-> "idle", on |-> None, login |-> None, phone |-> None,
         owner |-> None, then |-> "end",
         tidy |-> "keep"]

\* Telegram's side of a client: signed in, or stopped before the password
Connection == [by : User \cup {None}, phone : Phone \cup {None},
               connected : BOOLEAN, signed : {"no", "half", "yes"}]
NoConnection == [by |-> None, phone |-> None, connected |-> FALSE, signed |-> "no"]

TypeOK ==
    /\ OwnersTypeOK
    /\ conv \in [User -> States] /\ awaiting \subseteq User
    /\ data \in [User -> Data]
    /\ handler \in [User -> [Slot -> Handler]]
    /\ client \in [Client -> Connection]
    /\ asked \in [User -> User \cup {None}]
    /\ disturbed \in [User -> SUBSET {"overlap", "error"}]
    /\ events \in 0..MaxEvents

Init ==
    /\ OwnersInit
    /\ conv = [u \in User |-> "end"] /\ awaiting = {}
    /\ data = [u \in User |-> NoData]
    /\ handler = [u \in User |-> [s \in Slot |-> Idle]]
    /\ client = [c \in Client |-> NoConnection]
    /\ asked = [u \in User |-> None]
    /\ disturbed = [u \in User |-> {}]
    /\ events = 0
-----------------------------------------------------------------------------
(***************************************************************************)
(* Handlers that begin, go on and return.                                  *)
(***************************************************************************)
Busy(u) == {s \in Slot : handler[u][s].at # "idle"}

\* An update of u is dispatched to a handler, in the first free slot.
Begins(u, s) ==
    /\ s \notin Busy(u) /\ \A r \in Slot : r < s => r \in Busy(u)
    /\ disturbed' = IF Busy(u) = {} THEN disturbed
                    ELSE [disturbed EXCEPT ![u] = @ \cup {"overlap"}]

\* A handler in flight goes on.
At(u, s, place) == handler[u][s].at = place /\ UNCHANGED disturbed

GoesTo(u, s, h) == /\ handler' = [handler EXCEPT ![u][s] = h]
                   /\ UNCHANGED <<conv, awaiting>>

\* Its last reply, before it returns the state then
Replies(u, s, then, tidy) ==
    GoesTo(u, s, [Idle EXCEPT !.at = "replying", !.then = then, !.tidy = tidy])

Keeps(u, d) == data' = [data EXCEPT ![u] = d]

Returns(u, s, then) == /\ handler' = [handler EXCEPT ![u][s] = Idle]
                       /\ conv' = [conv EXCEPT ![u] = then]
                       /\ UNCHANGED awaiting

Disconnects(c) ==
    client' = IF c = None THEN client ELSE [client EXCEPT ![c].connected = FALSE]

IsConnected(c) == c # None /\ client[c].connected

Replied(u, s) ==
    LET h == handler[u][s] IN
    /\ At(u, s, "replying") /\ Returns(u, s, h.then)
    /\ Keeps(u, CASE h.tidy = "keep" -> data[u]
                  [] h.tidy = "drop_for" -> [data[u] EXCEPT !.for = None]
                  [] h.tidy = "clear" -> NoData)
    /\ UNCHANGED <<ownerVars, client, asked>>

\* A reply raises, before or after the call to Telegram, and the handler with it:
\* the state of the conversation stays.
ReplyFails(u, s) ==
    /\ handler[u][s].at \in {"naming", "sending", "signing", "checking", "quitting",
                             "moved", "replying"}
    /\ GoesTo(u, s, Idle)
    /\ disturbed' = [disturbed EXCEPT ![u] = @ \cup {"error"}]
    /\ UNCHANGED <<ownerVars, data, client, asked>>
-----------------------------------------------------------------------------
(***************************************************************************)
(* Whose list the number is for.                                           *)
(***************************************************************************)
\* Mutant: no default
TargetAsStored(u, d) == d.for

\* user_data["add_for_owner_id"] or user_id
Target(u, d) == IF d.for = None THEN u ELSE d.for

\* Mutant: the owner is forgotten on every return
PromptsAndForgets(u, s, d) ==
    /\ Keeps(u, d)
    /\ IF HasRoom(Target(u, d))
       THEN Replies(u, s, "phone", "drop_for") /\ asked' = [asked EXCEPT ![u] = Target(u, d)]
       ELSE Replies(u, s, "end", "drop_for") /\ UNCHANGED asked

\* prompt_add_account_phone, with user_data d
Prompts(u, s, d) ==
    /\ Keeps(u, d)
    /\ IF HasRoom(Target(u, d))
       THEN Replies(u, s, "phone", "keep") /\ asked' = [asked EXCEPT ![u] = Target(u, d)]
       ELSE Replies(u, s, "end", "drop_for") /\ UNCHANGED asked

\* start_handler once the login client is disconnected: an invite link of
\* owner, a link that is not valid, or no link
Greets(u, s, owner) ==
    \/ owner # None /\ Prompts(u, s, [NoData EXCEPT !.for = owner])
    \/ /\ owner = None /\ Replies(u, s, "end", "keep")
       /\ Keeps(u, data[u]) \/ Keeps(u, NoData)
       /\ UNCHANGED asked

\* /start is an entry point of the conversation, in every state
Start(u, s, owner) ==
    /\ Begins(u, s) /\ UNCHANGED <<ownerVars, client>>
    /\ IF IsConnected(data[u].client)
       THEN /\ GoesTo(u, s, [Idle EXCEPT !.at = "greeting", !.on = data[u].client,
                                         !.owner = owner])
            /\ UNCHANGED <<data, asked>>
       ELSE Greets(u, s, owner)

Greeted(u, s) ==
    /\ At(u, s, "greeting") /\ Disconnects(handler[u][s].on)
    /\ Greets(u, s, handler[u][s].owner)
    /\ UNCHANGED ownerVars

\* add_account_start, from the button or the command
AddAccountStart(u, s) ==
    /\ Begins(u, s) /\ Replies(u, s, "choose", "keep")
    /\ Keeps(u, [data[u] EXCEPT !.for = None])
    /\ UNCHANGED <<ownerVars, client, asked>>

AddAccountChooseOwner(u, s) ==
    /\ conv[u] = "choose" /\ Begins(u, s)
    /\ \/ Prompts(u, s, [data[u] EXCEPT !.for = None])
       \/ Replies(u, s, "target", "keep") /\ UNCHANGED <<data, asked>>
    /\ UNCHANGED <<ownerVars, client>>

\* The id is refused, or stored, and the phone prompt follows another reply.
ReceiveTargetUserId(u, s) ==
    /\ conv[u] = "target" /\ Begins(u, s)
    /\ \/ Replies(u, s, "target", "keep") /\ UNCHANGED data
       \/ \E owner \in User \ {u} :
             /\ Keeps(u, [data[u] EXCEPT !.for = owner])
             /\ GoesTo(u, s, [Idle EXCEPT !.at = "naming"])
    /\ UNCHANGED <<ownerVars, client, asked>>

Named(u, s) == /\ At(u, s, "naming") /\ Prompts(u, s, data[u])
               /\ UNCHANGED <<ownerVars, client>>
-----------------------------------------------------------------------------
(***************************************************************************)
(* The number and the code.                                                *)
(***************************************************************************)
\* receive_phone_number past the old client: forget it and ask for a code
Forgets(u, s, p) ==
    /\ Keeps(u, [data[u] EXCEPT !.client = None, !.phone = p])
    /\ GoesTo(u, s, [Idle EXCEPT !.at = "sending", !.phone = p])

\* Mutant: the old client is forgotten without a disconnect
ReceivePhoneNumberOnly(u, s, p) ==
    /\ conv[u] \in {"phone", "code"} /\ Begins(u, s)
    /\ IF p = None THEN Replies(u, s, "phone", "keep") /\ UNCHANGED data
                   ELSE Forgets(u, s, p)
    /\ UNCHANGED <<ownerVars, client, asked>>

\* A number is taken for one while a code is awaited, too.
ReceivePhoneNumber(u, s, p) ==
    /\ conv[u] \in {"phone", "code"} /\ Begins(u, s)
    /\ IF p = None THEN Replies(u, s, "phone", "keep") /\ UNCHANGED data
       ELSE IF IsConnected(data[u].client)
       THEN /\ GoesTo(u, s, [Idle EXCEPT !.at = "dropping", !.on = data[u].client, !.phone = p])
            /\ UNCHANGED data
       ELSE Forgets(u, s, p)
    /\ UNCHANGED <<ownerVars, client, asked>>

Dropped(u, s) ==
    /\ At(u, s, "dropping") /\ Disconnects(handler[u][s].on)
    /\ Forgets(u, s, handler[u][s].phone)
    /\ UNCHANGED <<ownerVars, asked>>

\* A client nobody refers to; an instance has only so many.
Fresh(c) == /\ ~client[c].connected
            /\ \A u \in User : /\ data[u].client # c
                               /\ \A s \in Slot : c \notin {handler[u][s].on, handler[u][s].login}

\* send_login_code: a new client is connected and stored once it asked for a code.
CodeSent(u, s, c) ==
    LET p == handler[u][s].phone IN
    /\ At(u, s, "sending") /\ Fresh(c)
    /\ client' = [client EXCEPT ![c] = [by |-> u, phone |-> p, connected |-> TRUE,
                                        signed |-> "no"]]
    /\ Keeps(u, [data[u] EXCEPT !.client = c])
    /\ Replies(u, s, "code", "keep")
    /\ UNCHANGED <<ownerVars, asked>>

\* It disconnects the client of a failed attempt.  A flood wait clears
\* user_data before the reply, a reCAPTCHA after it.
SendFails(u, s) ==
    /\ At(u, s, "sending")
    /\ \/ Replies(u, s, "end", "keep") /\ Keeps(u, NoData)
       \/ Replies(u, s, "end", "clear") /\ UNCHANGED data
       \/ Replies(u, s, "phone", "keep") /\ UNCHANGED data
    /\ UNCHANGED <<ownerVars, client, asked>>

ReceivePhoneCode(u, s) ==
    LET d == data[u] IN
    /\ conv[u] = "code" /\ Begins(u, s)
    /\ IF IsConnected(d.client) /\ d.phone # None
       THEN GoesTo(u, s, [Idle EXCEPT !.at = "signing", !.on = d.client, !.phone = d.phone])
       ELSE Replies(u, s, "phone", "keep")
    /\ UNCHANGED <<ownerVars, data, client, asked>>

ReceivePassword(u, s) ==
    /\ conv[u] = "password" /\ Begins(u, s)
    /\ IF IsConnected(data[u].client)
       THEN GoesTo(u, s, [Idle EXCEPT !.at = "checking", !.on = data[u].client])
       ELSE Replies(u, s, "end", "clear")
    /\ UNCHANGED <<ownerVars, data, client, asked>>
-----------------------------------------------------------------------------
(***************************************************************************)
(* Signing in and saving.                                                  *)
(***************************************************************************)
\* An error: receive_phone_code gives up, receive_password asks again.
Errs(u, s, from) ==
    IF from = "code" THEN GoesTo(u, s, [handler[u][s] EXCEPT !.at = "quitting"])
                     ELSE Replies(u, s, "password", "keep")

\* async_complete_login reads user_data; only a client that signed in and is
\* still connected has a session to export, and it is disconnected next.
Completes(u, s, from, signed) ==
    LET d == data[u] IN
    IF IsConnected(d.client) /\ (client[d.client].signed = "yes" \/ d.client = signed)
    THEN GoesTo(u, s, [handler[u][s] EXCEPT !.at = "saving", !.login = d.client,
                          !.phone = d.phone, !.owner = Target(u, d), !.then = from])
    ELSE Errs(u, s, from)

SignsIn(u, s, from) ==
    LET c == handler[u][s].on IN
    /\ client' = [client EXCEPT ![c].signed = "yes"]
    /\ Completes(u, s, from, c)

\* client.sign_in: the code belongs to the number and to the connection.
SignInEnds(u, s) ==
    LET h == handler[u][s]
        accepted == client[h.on].connected /\ client[h.on].phone = h.phone IN
    /\ At(u, s, "signing")
    /\ \/ accepted /\ SignsIn(u, s, "code")
       \/ /\ accepted /\ Replies(u, s, "password", "keep")
          /\ client' = [client EXCEPT ![h.on].signed = IF @ = "yes" THEN @ ELSE "half"]
       \/ client[h.on].connected /\ Replies(u, s, "code", "keep") /\ UNCHANGED client
       \/ Errs(u, s, "code") /\ UNCHANGED client
    /\ UNCHANGED <<ownerVars, data, asked>>

\* client.check_password; a flood wait gives up as after the code
PasswordEnds(u, s) ==
    LET c == handler[u][s].on IN
    /\ At(u, s, "checking")
    /\ \/ /\ client[c].connected /\ client[c].signed # "no"
          /\ SignsIn(u, s, "password")
       \/ \E from \in {"code", "password"} : Errs(u, s, from) /\ UNCHANGED client
    /\ UNCHANGED <<ownerVars, data, asked>>

\* Mutant: the number is read after the disconnect
SavesTheLatest(u, s) ==
    LET h == handler[u][s] IN
    /\ At(u, s, "saving") /\ Disconnects(h.login)
    /\ AddManagedAccount(h.owner, data[u].phone, client[h.login].phone)
    /\ GoesTo(u, s, [h EXCEPT !.at = "telling"])
    /\ UNCHANGED <<data, asked>>

\* Disconnected: add_managed_account, and then the message
Saves(u, s) ==
    LET h == handler[u][s] IN
    /\ At(u, s, "saving") /\ Disconnects(h.login)
    /\ AddManagedAccount(h.owner, h.phone, client[h.login].phone)
    /\ GoesTo(u, s, [h EXCEPT !.at = "telling"])
    /\ UNCHANGED <<data, asked>>

\* The message may raise, in the try block of the handler.
Told(u, s) ==
    /\ At(u, s, "telling")
    /\ \/ Returns(u, s, "end") /\ Keeps(u, NoData)
       \/ Errs(u, s, handler[u][s].then) /\ UNCHANGED data
    /\ UNCHANGED <<ownerVars, client, asked>>

Quits(u, s) ==
    /\ At(u, s, "quitting") /\ Disconnects(handler[u][s].on)
    /\ Returns(u, s, "end") /\ Keeps(u, NoData)
    /\ UNCHANGED <<ownerVars, asked>>

\* cancel_conversation, with /cancel or the button
Cancel(u, s) ==
    /\ conv[u] # "end" /\ Begins(u, s)
    /\ IF IsConnected(data[u].client)
       THEN /\ GoesTo(u, s, [Idle EXCEPT !.at = "cancelling", !.on = data[u].client])
            /\ UNCHANGED data
       ELSE Replies(u, s, "end", "keep") /\ Keeps(u, NoData)
    /\ UNCHANGED <<ownerVars, client, asked>>

Cancelled(u, s) ==
    /\ At(u, s, "cancelling") /\ Disconnects(handler[u][s].on)
    /\ Replies(u, s, "end", "keep") /\ Keeps(u, NoData)
    /\ UNCHANGED <<ownerVars, asked>>
-----------------------------------------------------------------------------
(***************************************************************************)
(* Moving a number to another owner.                                       *)
(***************************************************************************)
TransferAccountStart(u, p) ==
    /\ u \notin awaiting /\ IsOwner(u, p)
    /\ awaiting' = awaiting \cup {u} /\ Keeps(u, [data[u] EXCEPT !.moving = p])
    /\ UNCHANGED <<ownerVars, conv, handler, client, asked, disturbed>>

\* Text goes to the first conversation that waits for some.
TakesText(u) == conv[u] \in {"target", "phone", "code", "password"}

\* receive_transfer_recipient: without a number the step has expired; a refused
\* recipient leaves everything as it is; a transfer is followed by messages.
ReceiveTransferRecipient(u, s, recipient) ==
    LET p == data[u].moving IN
    /\ u \in awaiting /\ ~TakesText(u)
    /\ \/ /\ p = None /\ awaiting' = awaiting \ {u}
          /\ UNCHANGED <<ownerVars, handler, conv, disturbed>>
       \/ /\ p # None /\ MayTransfer(u, p, recipient) /\ Transfer(p, recipient)
          /\ Begins(u, s) /\ GoesTo(u, s, [Idle EXCEPT !.at = "moved"])
    /\ UNCHANGED <<data, client, asked>>

Moved(u, s) ==
    /\ At(u, s, "moved") /\ handler' = [handler EXCEPT ![u][s] = Idle]
    /\ awaiting' = awaiting \ {u} /\ Keeps(u, [data[u] EXCEPT !.moving = None])
    /\ UNCHANGED <<ownerVars, conv, client, asked>>

\* cancel_transfer, with the button or with a /cancel the login does not take.
\* Its fallback for /start is never reached: Start comes first.
CancelTransfer(u) ==
    /\ u \in awaiting
    /\ awaiting' = awaiting \ {u} /\ Keeps(u, [data[u] EXCEPT !.moving = None])
    /\ UNCHANGED <<ownerVars, conv, handler, client, asked, disturbed>>
-----------------------------------------------------------------------------
\* conversation_timeout: there are no TIMEOUT handlers, so user_data stays.  A
\* handler in flight has taken the timer away.
TimesOut(u) ==
    /\ Busy(u) = {}
    /\ \/ /\ conv[u] # "end" /\ conv' = [conv EXCEPT ![u] = "end"]
          /\ UNCHANGED awaiting
       \/ /\ u \in awaiting /\ awaiting' = awaiting \ {u} /\ UNCHANGED conv
    /\ UNCHANGED <<ownerVars, data, handler, client, asked, disturbed>>

\* The bot stops and starts: nothing of a conversation is persistent.
Restarts ==
    /\ conv' = [u \in User |-> "end"] /\ awaiting' = {}
    /\ data' = [u \in User |-> NoData]
    /\ handler' = [u \in User |-> [s \in Slot |-> Idle]]
    /\ client' = [c \in Client |-> NoConnection]
    /\ UNCHANGED <<ownerVars, asked, disturbed>>

\* Other menus and other components
Elsewhere ==
    /\ \E u \in User : \/ SubscriptionChanges(u)
                       \/ \E p \in Phone : DeleteManagedAccount(u, p)
    /\ UNCHANGED talkVars

Updates(u) ==
    \/ \E s \in Slot :
          /\ u \in Newcomer
          /\ \/ \E owner \in User \cup {None} : Start(u, s, owner)
             \/ AddAccountStart(u, s) \/ AddAccountChooseOwner(u, s)
             \/ ReceiveTargetUserId(u, s)
             \/ \E p \in Phone \cup {None} : ReceivePhoneNumber(u, s, p)
             \/ ReceivePhoneCode(u, s) \/ ReceivePassword(u, s) \/ Cancel(u, s)
    \/ \E s \in Slot, recipient \in User : ReceiveTransferRecipient(u, s, recipient)
    \/ \E p \in Phone : TransferAccountStart(u, p)
    \/ CancelTransfer(u)

GoesOn(u, s) ==
    \/ Replied(u, s) \/ ReplyFails(u, s) \/ Greeted(u, s) \/ Named(u, s)
    \/ Dropped(u, s) \/ SendFails(u, s) \/ \E c \in Client : CodeSent(u, s, c)
    \/ SignInEnds(u, s) \/ PasswordEnds(u, s) \/ Saves(u, s) \/ Told(u, s)
    \/ Quits(u, s) \/ Cancelled(u, s) \/ Moved(u, s)

Happens == Restarts \/ Elsewhere \/ \E u \in User : Updates(u) \/ TimesOut(u)

Next ==
    \/ events < MaxEvents /\ events' = events + 1 /\ Happens
    \/ UNCHANGED events /\ \E u \in User, s \in Slot : GoesOn(u, s)

Spec == Init /\ [][Next]_vars
-----------------------------------------------------------------------------
\* What is saved for a number is the session of that number, whatever was typed
\* while the login went on: async_complete_login reads client and number from
\* user_data after the await of sign_in (user_handlers.py:1199-1205).
SessionsMatch == \A p \in Phone : row[p] # None => row[p].session = p

\* A login client left connected is still in user_data once the handlers of its
\* user are done, so that the next /start, /cancel or number disconnects it
\* (user_handlers.py:192, 1002, 1252), also when the conversation timed out, the
\* message after the save failed or the sign-in raised: as long as the user's
\* updates were handled one at a time.
ConnectedClientsAreKept ==
    \A u \in User : "overlap" \notin disturbed[u] /\ Busy(u) = {} =>
        \A c \in Client : client[c].by = u /\ client[c].connected => data[u].client = c

\* A number is saved on the list its prompt was for ("This number will not appear
\* in your accounts", user_handlers.py:694), the one whose plan was looked at: as
\* long as no handlers of the user overlapped and none raised.
SavedForThePrompted ==
    \A u \in User, s \in Slot :
        handler[u][s].at = "saving" /\ disturbed[u] = {} => handler[u][s].owner = asked[u]

\* A number leaves a list for another only while its owner is moving it, and a
\* list only grows that way if its plan has room (database.py:1867), however many
\* recipients the owner sends in a row.
MovesAreTheOwners ==
    [][\A p \in Phone : LET from == row[p].owner to == row'[p].owner IN
          row[p] # None /\ to # from =>
              /\ ~row[p].deleted /\ from \in awaiting /\ data[from].moving = p
              /\ HasRoom(to)]_vars
=============================================================================
