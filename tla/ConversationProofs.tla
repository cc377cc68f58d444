------------------------- MODULE ConversationProofs -------------------------
(***************************************************************************)
(* Type correctness of AccountConversations, that a number's row holds the *)
(* session of that number, that a number changes lists only when its owner *)
(* moves it, and what holds until handlers overlap: the number is saved    *)
(* for the prompted owner and no client is forgotten.  For any users,      *)
(* numbers, clients, handlers in flight and events.                        *)
(***************************************************************************)
EXTENDS AccountConversations, TLAPS

Tidy == {"keep", "drop_for", "clear"}

\* A client is stored in the data of the user it was made for.
OwnClient == \A u \in User :
    data[u].client # None => client[data[u].client].by = u

\* Telegram has accepted the code of c, or has been asked to with c's number.
Trusted(c) ==
    \/ client[c].signed # "no"
    \/ \E u \in User, s \in Slot :
          /\ handler[u][s].at = "signing" /\ handler[u][s].on = c
          /\ handler[u][s].phone = client[c].phone

\* A client that is or may get signed in stands beside its own number: the two
\* are only ever replaced together, and Telegram refuses a code for another.
PhoneFits == \A u \in User :
    data[u].client # None /\ Trusted(data[u].client)
        => data[u].phone = client[data[u].client].phone

\* What a login is about to save
SavesFit == \A u \in User, s \in Slot :
    handler[u][s].at = "saving"
        => /\ handler[u][s].login # None /\ handler[u][s].owner # None
           /\ client[handler[u][s].login].phone = handler[u][s].phone

\* The inductive invariant
Inv == TypeOK /\ OwnClient /\ PhoneFits /\ SavesFit /\ SessionsMatch

-----------------------------------------------------------------------------
(***************************************************************************)
(* What the building blocks of the actions leave of the types.             *)
(***************************************************************************)
\* The parts of TypeOK that a handler's move is about
MoveTyped == /\ conv \in [User -> States] /\ awaiting \subseteq User
             /\ handler \in [User -> [Slot -> Handler]]

LEMMA IdleTyped == Idle \in Handler
  BY DEF Idle, Handler, States

LEMMA NoDataTyped == NoData \in Data
  BY DEF NoData, Data

LEMMA GoesToTyped ==
    ASSUME TypeOK, NEW u \in User, NEW s \in Slot, NEW h \in Handler, GoesTo(u, s, h)
    PROVE  MoveTyped'
  BY DEF TypeOK, MoveTyped, GoesTo

LEMMA RepliesTyped ==
    ASSUME TypeOK, NEW u \in User, NEW s \in Slot, NEW then \in States,
           NEW tidy \in Tidy, Replies(u, s, then, tidy)
    PROVE  MoveTyped'
<1> DEFINE h == [Idle EXCEPT !.at = "replying", !.then = then, !.tidy = tidy]
<1>1. h \in Handler
  BY IdleTyped DEF Handler, Idle, Tidy
<1> HIDE DEF h
<1>2. GoesTo(u, s, h)
  BY DEF Replies, h
<1> QED BY <1>1, <1>2, GoesToTyped

LEMMA ReturnsTyped ==
    ASSUME TypeOK, NEW u \in User, NEW s \in Slot, NEW then \in States, Returns(u, s, then)
    PROVE  MoveTyped'
  BY IdleTyped DEF TypeOK, MoveTyped, Returns

LEMMA KeepsTyped ==
    ASSUME TypeOK, NEW u \in User, NEW d \in Data, Keeps(u, d)
    PROVE  data' \in [User -> Data]
  BY DEF TypeOK, Keeps

LEMMA DisconnectsTyped ==
    ASSUME TypeOK, NEW c \in Client \cup {None}, Disconnects(c)
    PROVE  client' \in [Client -> Connection]
<1>1. CASE c = None
  BY <1>1 DEF TypeOK, Disconnects
<1>2. CASE c # None
  <2>1. c \in Client /\ client[c] \in Connection
    BY <1>2 DEF TypeOK
  <2>2. [client[c] EXCEPT !.connected = FALSE] \in Connection
    BY <2>1 DEF Connection
  <2>3. client' = [client EXCEPT ![c] = [client[c] EXCEPT !.connected = FALSE]]
    BY <1>2 DEF Disconnects
  <2> QED BY <2>1, <2>2, <2>3 DEF TypeOK
<1> QED BY <1>1, <1>2

LEMMA BeginsTyped ==
    ASSUME TypeOK, NEW u \in User, NEW s \in Slot, Begins(u, s)
    PROVE  disturbed' \in [User -> SUBSET {"overlap", "error"}]
<1>1. CASE Busy(u) = {}
  BY <1>1 DEF Begins, TypeOK
<1>2. CASE Busy(u) # {}
  BY <1>2 DEF Begins, TypeOK
<1> QED BY <1>1, <1>2

LEMMA TargetTyped ==
    ASSUME NEW u \in User, NEW d \in Data
    PROVE  Target(u, d) \in User
  BY DEF Target, Data

LEMMA PromptsTyped ==
    ASSUME TypeOK, NEW u \in User, NEW s \in Slot, NEW d \in Data, Prompts(u, s, d)
    PROVE  MoveTyped' /\ data' \in [User -> Data] /\ asked' \in [User -> User \cup {None}]
<1>1. data' \in [User -> Data]
  BY KeepsTyped DEF Prompts
<1>2. CASE HasRoom(Target(u, d))
  <2>1. MoveTyped'
    BY <1>2, RepliesTyped DEF Prompts, States, Tidy
  <2>2. asked' \in [User -> User \cup {None}]
    BY <1>2, TargetTyped DEF Prompts, TypeOK
  <2> QED BY <1>1, <2>1, <2>2
<1>3. CASE ~HasRoom(Target(u, d))
  <2>1. MoveTyped'
    BY <1>3, RepliesTyped DEF Prompts, States, Tidy
  <2>2. asked' \in [User -> User \cup {None}]
    BY <1>3 DEF Prompts, TypeOK
  <2> QED BY <1>1, <2>1, <2>2
<1> QED BY <1>2, <1>3

LEMMA GreetsTyped ==
    ASSUME TypeOK, NEW u \in User, NEW s \in Slot, NEW owner \in User \cup {None},
           Greets(u, s, owner)
    PROVE  MoveTyped' /\ data' \in [User -> Data] /\ asked' \in [User -> User \cup {None}]
<1>1. CASE owner # None /\ Prompts(u, s, [NoData EXCEPT !.for = owner])
  <2>1. [NoData EXCEPT !.for = owner] \in Data
    BY <1>1 DEF NoData, Data
  <2> QED BY <1>1, <2>1, PromptsTyped
<1>2. CASE owner = None /\ Replies(u, s, "end", "keep")
           /\ (Keeps(u, data[u]) \/ Keeps(u, NoData)) /\ UNCHANGED asked
  <2>1. MoveTyped'
    BY <1>2, RepliesTyped DEF States, Tidy
  <2>2. data[u] \in Data
    BY DEF TypeOK
  <2>3. data' \in [User -> Data]
    BY <1>2, <2>2, KeepsTyped, NoDataTyped
  <2> QED BY <1>2, <2>1, <2>3 DEF TypeOK
<1> QED BY <1>1, <1>2 DEF Greets

LEMMA ForgetsTyped ==
    ASSUME TypeOK, NEW u \in User, NEW s \in Slot, NEW p \in Phone \cup {None}, Forgets(u, s, p)
    PROVE  MoveTyped' /\ data' \in [User -> Data]
<1>0. data[u] \in Data
  BY DEF TypeOK
<1>1. [data[u] EXCEPT !.client = None, !.phone = p] \in Data
  BY <1>0 DEF Data
<1>2. data' \in [User -> Data]
  BY <1>1, KeepsTyped DEF Forgets
<1>3. [Idle EXCEPT !.at = "sending", !.phone = p] \in Handler
  BY DEF Idle, Handler, States
<1> QED BY <1>2, <1>3, GoesToTyped DEF Forgets

LEMMA ErrsTyped ==
    ASSUME TypeOK, NEW u \in User, NEW s \in Slot, NEW from, Errs(u, s, from)
    PROVE  MoveTyped'
<1>0. handler[u][s] \in Handler
  BY DEF TypeOK
<1>1. [handler[u][s] EXCEPT !.at = "quitting"] \in Handler
  BY <1>0 DEF Handler
<1>2. CASE from = "code"
  BY <1>1, <1>2, GoesToTyped DEF Errs
<1>3. CASE from # "code"
  BY <1>3, RepliesTyped DEF Errs, States, Tidy
<1> QED BY <1>2, <1>3

LEMMA CompletesTyped ==
    ASSUME TypeOK, NEW u \in User, NEW s \in Slot, NEW from \in {"code", "password"},
           NEW signed, Completes(u, s, from, signed)
    PROVE  MoveTyped'
<1> DEFINE d == data[u]
           h == [handler[u][s] EXCEPT !.at = "saving", !.login = data[u].client,
                    !.phone = data[u].phone, !.owner = Target(u, data[u]), !.then = from]
<1>1. d \in Data
  BY DEF TypeOK
<1>2. Target(u, data[u]) \in User
  BY <1>1, TargetTyped
<1>0. handler[u][s] \in Handler
  BY DEF TypeOK
<1>3. h \in Handler
  <2> DEFINE k == handler[u][s]
  <2>1. data[u].client \in Client \cup {None} /\ data[u].phone \in Phone \cup {None}
    BY <1>1 DEF Data
  <2>2. [k EXCEPT !.at = "saving"] \in Handler
    BY <1>0 DEF Handler
  <2>3. \A g \in Handler, c \in Client \cup {None}, p \in Phone \cup {None} :
           [g EXCEPT !.login = c, !.phone = p] \in Handler
    BY DEF Handler
  <2>4. \A g \in Handler, o \in User, t \in {"code", "password"} :
           [g EXCEPT !.owner = o, !.then = t] \in Handler
    BY DEF Handler, States
  <2>5. [[k EXCEPT !.at = "saving"] EXCEPT !.login = data[u].client, !.phone = data[u].phone]
           \in Handler
    BY <2>1, <2>2, <2>3
  <2>6. [[[k EXCEPT !.at = "saving"] EXCEPT !.login = data[u].client, !.phone = data[u].phone]
           EXCEPT !.owner = Target(u, data[u]), !.then = from] \in Handler
    BY <1>2, <2>4, <2>5
  <2> QED BY <2>6
<1>4. GoesTo(u, s, h) \/ Errs(u, s, from)
  BY DEF Completes
<1> HIDE DEF h
<1> QED BY <1>3, <1>4, GoesToTyped, ErrsTyped

LEMMA AddTyped ==
    ASSUME TypeOK, NEW u \in User, NEW p \in Phone \cup {None}, NEW session,
           session = p, AddManagedAccount(u, p, session)
    PROVE  OwnersTypeOK'
<1>1. CASE CanAdd(u, p) /\ UNCHANGED subscribed
           /\ row' = [row EXCEPT ![p] = [owner |-> u, deleted |-> FALSE, session |-> session]]
  <2>1. p \in Phone
    BY <1>1 DEF CanAdd
  <2>2. [owner |-> u, deleted |-> FALSE, session |-> session] \in Row
    BY <2>1 DEF Row
  <2> QED BY <1>1, <2>1, <2>2 DEF TypeOK, OwnersTypeOK
<1>2. CASE UNCHANGED ownerVars
  BY <1>2 DEF TypeOK, OwnersTypeOK, ownerVars
<1> QED BY <1>1, <1>2 DEF AddManagedAccount

LEMMA SignsInTyped ==
    ASSUME TypeOK, NEW u \in User, NEW s \in Slot, NEW from \in {"code", "password"},
           SignsIn(u, s, from)
    PROVE  MoveTyped' /\ client' \in [Client -> Connection]
<1> DEFINE c == handler[u][s].on
<1>1. MoveTyped'
  BY CompletesTyped DEF SignsIn
<1>2. CASE c \in Client
  <2>0. client[c] \in Connection
    BY <1>2 DEF TypeOK
  <2>1. [client[c] EXCEPT !.signed = "yes"] \in Connection
    BY <2>0 DEF Connection
  <2>2. client' = [client EXCEPT ![c] = [client[c] EXCEPT !.signed = "yes"]]
    BY DEF SignsIn
  <2> QED BY <1>1, <1>2, <2>1, <2>2 DEF TypeOK
<1>3. CASE c \notin Client
  BY <1>1, <1>3 DEF TypeOK, SignsIn
<1> QED BY <1>2, <1>3

\* What a step of talkVars has to establish
TalkTyped == /\ MoveTyped /\ data \in [User -> Data]
             /\ client \in [Client -> Connection]
             /\ asked \in [User -> User \cup {None}]
             /\ disturbed \in [User -> SUBSET {"overlap", "error"}]

LEMMA UpdatesTyped ==
    ASSUME TypeOK, NEW u \in User, Updates(u)
    PROVE  TalkTyped' /\ OwnersTypeOK'
<1> DEFINE d == data[u]
<1>0. d \in Data /\ MoveTyped
  BY DEF TypeOK, MoveTyped
<1>1. ASSUME NEW s \in Slot, NEW owner \in User \cup {None}, Start(u, s, owner)
      PROVE  TalkTyped' /\ OwnersTypeOK'
  <2>1. disturbed' \in [User -> SUBSET {"overlap", "error"}]
    BY <1>1, BeginsTyped DEF Start
  <2>2. OwnersTypeOK' /\ client' \in [Client -> Connection]
    BY <1>1 DEF Start, TypeOK, OwnersTypeOK, ownerVars
  <2>3. CASE IsConnected(d.client)
    <3>1. [Idle EXCEPT !.at = "greeting", !.on = d.client, !.owner = owner] \in Handler
      BY <1>0 DEF Idle, Handler, Data, States
    <3>2. GoesTo(u, s, [Idle EXCEPT !.at = "greeting", !.on = d.client, !.owner = owner])
          /\ UNCHANGED <<data, asked>>
      BY <1>1, <2>3 DEF Start
    <3>3. MoveTyped'
      BY <3>1, <3>2, GoesToTyped
    <3> QED BY <2>1, <2>2, <3>2, <3>3 DEF TalkTyped, TypeOK
  <2>4. CASE ~IsConnected(d.client)
    BY <1>1, <2>1, <2>2, <2>4, GreetsTyped DEF Start, TalkTyped
  <2> QED BY <2>3, <2>4
<1>2. ASSUME NEW s \in Slot, AddAccountStart(u, s)
      PROVE  TalkTyped' /\ OwnersTypeOK'
  <2>1. [d EXCEPT !.for = None] \in Data
    BY <1>0 DEF Data
  <2>2. data' \in [User -> Data]
    BY <1>2, <2>1, KeepsTyped DEF AddAccountStart
  <2>3. MoveTyped'
    BY <1>2, RepliesTyped DEF AddAccountStart, States, Tidy
  <2> QED BY <1>2, <2>2, <2>3, BeginsTyped
          DEF AddAccountStart, TalkTyped, TypeOK, OwnersTypeOK, ownerVars
<1>3. ASSUME NEW s \in Slot, AddAccountChooseOwner(u, s)
      PROVE  TalkTyped' /\ OwnersTypeOK'
  <2>1. [d EXCEPT !.for = None] \in Data
    BY <1>0 DEF Data
  <2>2. disturbed' \in [User -> SUBSET {"overlap", "error"}] /\ OwnersTypeOK'
        /\ client' \in [Client -> Connection]
    BY <1>3, BeginsTyped DEF AddAccountChooseOwner, TypeOK, OwnersTypeOK, ownerVars
  <2>3. CASE Prompts(u, s, [d EXCEPT !.for = None])
    BY <2>1, <2>2, <2>3, PromptsTyped DEF TalkTyped
  <2>4. CASE Replies(u, s, "target", "keep") /\ UNCHANGED <<data, asked>>
    <3>1. MoveTyped'
      BY <2>4, RepliesTyped DEF States, Tidy
    <3> QED BY <2>2, <2>4, <3>1 DEF TalkTyped, TypeOK
  <2> QED BY <1>3, <2>3, <2>4 DEF AddAccountChooseOwner
<1>4. ASSUME NEW s \in Slot, ReceiveTargetUserId(u, s)
      PROVE  TalkTyped' /\ OwnersTypeOK'
  <2>1. disturbed' \in [User -> SUBSET {"overlap", "error"}] /\ OwnersTypeOK'
        /\ client' \in [Client -> Connection] /\ asked' \in [User -> User \cup {None}]
    BY <1>4, BeginsTyped DEF ReceiveTargetUserId, TypeOK, OwnersTypeOK, ownerVars
  <2>2. CASE Replies(u, s, "target", "keep") /\ UNCHANGED data
    <3>1. MoveTyped'
      BY <2>2, RepliesTyped DEF States, Tidy
    <3> QED BY <2>1, <2>2, <3>1 DEF TalkTyped, TypeOK
  <2>3. ASSUME NEW owner \in User \ {u}, Keeps(u, [d EXCEPT !.for = owner]),
               GoesTo(u, s, [Idle EXCEPT !.at = "naming"])
        PROVE  TalkTyped' /\ OwnersTypeOK'
    <3>1. [d EXCEPT !.for = owner] \in Data
      BY <1>0 DEF Data
    <3>2. [Idle EXCEPT !.at = "naming"] \in Handler
      BY DEF Idle, Handler, States
    <3>3. data' \in [User -> Data]
      BY <2>3, <3>1, KeepsTyped
    <3>4. MoveTyped'
      BY <2>3, <3>2, GoesToTyped
    <3> QED BY <2>1, <3>3, <3>4 DEF TalkTyped
  <2> QED BY <1>4, <2>2, <2>3 DEF ReceiveTargetUserId
<1>5. ASSUME NEW s \in Slot, NEW p \in Phone \cup {None}, ReceivePhoneNumber(u, s, p)
      PROVE  TalkTyped' /\ OwnersTypeOK'
  <2>1. disturbed' \in [User -> SUBSET {"overlap", "error"}] /\ OwnersTypeOK'
        /\ client' \in [Client -> Connection] /\ asked' \in [User -> User \cup {None}]
    BY <1>5, BeginsTyped DEF ReceivePhoneNumber, TypeOK, OwnersTypeOK, ownerVars
  <2>2. CASE p = None
    <3>1. Replies(u, s, "phone", "keep") /\ UNCHANGED data
      BY <1>5, <2>2 DEF ReceivePhoneNumber
    <3>2. MoveTyped'
      BY <3>1, RepliesTyped DEF States, Tidy
    <3> QED BY <2>1, <3>1, <3>2 DEF TalkTyped, TypeOK
  <2>3. CASE p # None /\ IsConnected(d.client)
    <3>1. [Idle EXCEPT !.at = "dropping", !.on = d.client, !.phone = p] \in Handler
      BY <1>0 DEF Idle, Handler, States, Data
    <3>2. GoesTo(u, s, [Idle EXCEPT !.at = "dropping", !.on = d.client, !.phone = p])
          /\ UNCHANGED data
      BY <1>5, <2>3 DEF ReceivePhoneNumber
    <3>3. MoveTyped'
      BY <3>1, <3>2, GoesToTyped
    <3> QED BY <2>1, <3>2, <3>3 DEF TalkTyped, TypeOK
  <2>4. CASE p # None /\ ~IsConnected(d.client)
    BY <1>5, <2>1, <2>4, ForgetsTyped DEF ReceivePhoneNumber, TalkTyped
  <2> QED BY <2>2, <2>3, <2>4
<1>6. ASSUME NEW s \in Slot, ReceivePhoneCode(u, s)
      PROVE  TalkTyped' /\ OwnersTypeOK'
  <2>1. disturbed' \in [User -> SUBSET {"overlap", "error"}] /\ OwnersTypeOK'
        /\ client' \in [Client -> Connection] /\ asked' \in [User -> User \cup {None}]
        /\ data' \in [User -> Data]
    BY <1>6, BeginsTyped DEF ReceivePhoneCode, TypeOK, OwnersTypeOK, ownerVars
  <2>2. [Idle EXCEPT !.at = "signing", !.on = d.client, !.phone = d.phone] \in Handler
    BY <1>0 DEF Idle, Handler, States, Data
  <2>3. MoveTyped'
    BY <1>6, <2>2, GoesToTyped, RepliesTyped DEF ReceivePhoneCode, States, Tidy
  <2> QED BY <2>1, <2>3 DEF TalkTyped
<1>7. ASSUME NEW s \in Slot, ReceivePassword(u, s)
      PROVE  TalkTyped' /\ OwnersTypeOK'
  <2>1. disturbed' \in [User -> SUBSET {"overlap", "error"}] /\ OwnersTypeOK'
        /\ client' \in [Client -> Connection] /\ asked' \in [User -> User \cup {None}]
        /\ data' \in [User -> Data]
    BY <1>7, BeginsTyped DEF ReceivePassword, TypeOK, OwnersTypeOK, ownerVars
  <2>2. [Idle EXCEPT !.at = "checking", !.on = d.client] \in Handler
    BY <1>0 DEF Idle, Handler, States, Data
  <2>3. MoveTyped'
    BY <1>7, <2>2, GoesToTyped, RepliesTyped DEF ReceivePassword, States, Tidy
  <2> QED BY <2>1, <2>3 DEF TalkTyped
<1>8. ASSUME NEW s \in Slot, Cancel(u, s)
      PROVE  TalkTyped' /\ OwnersTypeOK'
  <2>1. disturbed' \in [User -> SUBSET {"overlap", "error"}] /\ OwnersTypeOK'
        /\ client' \in [Client -> Connection] /\ asked' \in [User -> User \cup {None}]
    BY <1>8, BeginsTyped DEF Cancel, TypeOK, OwnersTypeOK, ownerVars
  <2>2. CASE IsConnected(d.client)
    <3>1. [Idle EXCEPT !.at = "cancelling", !.on = d.client] \in Handler
      BY <1>0 DEF Idle, Handler, States, Data
    <3>2. GoesTo(u, s, [Idle EXCEPT !.at = "cancelling", !.on = d.client]) /\ UNCHANGED data
      BY <1>8, <2>2 DEF Cancel
    <3>3. MoveTyped'
      BY <3>1, <3>2, GoesToTyped
    <3> QED BY <2>1, <3>2, <3>3 DEF TalkTyped, TypeOK
  <2>3. CASE ~IsConnected(d.client)
    <3>1. Replies(u, s, "end", "keep") /\ Keeps(u, NoData)
      BY <1>8, <2>3 DEF Cancel
    <3>2. MoveTyped' /\ data' \in [User -> Data]
      BY <3>1, RepliesTyped, KeepsTyped, NoDataTyped DEF States, Tidy
    <3> QED BY <2>1, <3>2 DEF TalkTyped
  <2> QED BY <2>2, <2>3
<1>9. ASSUME NEW s \in Slot, NEW recipient \in User,
             ReceiveTransferRecipient(u, s, recipient)
      PROVE  TalkTyped' /\ OwnersTypeOK'
  <2>1. data' \in [User -> Data] /\ client' \in [Client -> Connection]
        /\ asked' \in [User -> User \cup {None}]
    BY <1>9 DEF ReceiveTransferRecipient, TypeOK
  <2>2. CASE /\ awaiting' = awaiting \ {u}
             /\ UNCHANGED <<ownerVars, handler, conv, disturbed>>
    BY <1>0, <2>1, <2>2 DEF TalkTyped, MoveTyped, TypeOK, OwnersTypeOK, ownerVars
  <2>3. CASE /\ MayTransfer(u, d.moving, recipient) /\ Transfer(d.moving, recipient)
             /\ Begins(u, s) /\ GoesTo(u, s, [Idle EXCEPT !.at = "moved"])
    <3>1. [Idle EXCEPT !.at = "moved"] \in Handler
      BY DEF Idle, Handler, States
    <3>2. MoveTyped' /\ disturbed' \in [User -> SUBSET {"overlap", "error"}]
      BY <2>3, <3>1, GoesToTyped, BeginsTyped
    <3>3. d.moving \in Phone /\ row[d.moving] \in Row
      BY <2>3 DEF MayTransfer, IsOwner, Accounts, TypeOK, OwnersTypeOK
    <3>4. [row[d.moving] EXCEPT !.owner = recipient] \in Row
      BY <3>3 DEF Row
    <3>5. row' = [row EXCEPT ![d.moving] = [row[d.moving] EXCEPT !.owner = recipient]]
          /\ subscribed' = subscribed
      BY <2>3 DEF Transfer
    <3>6. OwnersTypeOK'
      BY <3>3, <3>4, <3>5 DEF TypeOK, OwnersTypeOK
    <3> QED BY <2>1, <3>2, <3>6 DEF TalkTyped
  <2> QED BY <1>9, <2>2, <2>3 DEF ReceiveTransferRecipient
<1>10. ASSUME NEW p \in Phone, TransferAccountStart(u, p)
       PROVE  TalkTyped' /\ OwnersTypeOK'
  <2>1. [d EXCEPT !.moving = p] \in Data
    BY <1>0 DEF Data
  <2>2. data' \in [User -> Data]
    BY <1>10, <2>1, KeepsTyped DEF TransferAccountStart
  <2> QED BY <1>0, <1>10, <2>2
          DEF TransferAccountStart, TalkTyped, MoveTyped, TypeOK, OwnersTypeOK, ownerVars
<1>11. ASSUME CancelTransfer(u)
       PROVE  TalkTyped' /\ OwnersTypeOK'
  <2>1. [d EXCEPT !.moving = None] \in Data
    BY <1>0 DEF Data
  <2>2. data' \in [User -> Data]
    BY <1>11, <2>1, KeepsTyped DEF CancelTransfer
  <2> QED BY <1>0, <1>11, <2>2
          DEF CancelTransfer, TalkTyped, MoveTyped, TypeOK, OwnersTypeOK, ownerVars
<1> QED BY <1>1, <1>2, <1>3, <1>4, <1>5, <1>6, <1>7, <1>8, <1>9, <1>10, <1>11 DEF Updates

LEMMA GoesOnTyped ==
    ASSUME TypeOK, SavesFit, NEW u \in User, NEW s \in Slot, GoesOn(u, s)
    PROVE  TalkTyped' /\ OwnersTypeOK'
<1> DEFINE d == data[u]
           h == handler[u][s]
<1>0. d \in Data /\ h \in Handler /\ MoveTyped /\ TalkTyped
  BY DEF TypeOK, MoveTyped, TalkTyped
<1>1. CASE Replied(u, s)
  <2>1. h.then \in States
    BY <1>0 DEF Handler
  <2>2. MoveTyped'
    BY <1>1, <2>1, ReturnsTyped DEF Replied
  <2>3. [d EXCEPT !.for = None] \in Data
    BY <1>0 DEF Data
  <2>4. h.tidy \in Tidy
    BY <1>0 DEF Handler, Tidy
  <2>5. Keeps(u, d) \/ Keeps(u, [d EXCEPT !.for = None]) \/ Keeps(u, NoData)
    BY <1>1, <2>4 DEF Replied, Tidy
  <2>6. data' \in [User -> Data]
    BY <1>0, <2>3, <2>5, KeepsTyped, NoDataTyped
  <2> QED BY <1>0, <1>1, <2>2, <2>6
          DEF Replied, At, TalkTyped, TypeOK, OwnersTypeOK, ownerVars
<1>2. CASE ReplyFails(u, s)
  <2>1. MoveTyped'
    BY <1>2, IdleTyped, GoesToTyped DEF ReplyFails
  <2> QED BY <1>0, <1>2, <2>1 DEF ReplyFails, TalkTyped, TypeOK, OwnersTypeOK, ownerVars
<1>3. CASE Greeted(u, s)
  <2>1. h.on \in Client \cup {None} /\ h.owner \in User \cup {None}
    BY <1>0 DEF Handler
  <2>2. client' \in [Client -> Connection]
    BY <1>3, <2>1, DisconnectsTyped DEF Greeted
  <2>3. MoveTyped' /\ data' \in [User -> Data] /\ asked' \in [User -> User \cup {None}]
    BY <1>3, <2>1, GreetsTyped DEF Greeted
  <2> QED BY <1>0, <1>3, <2>2, <2>3
          DEF Greeted, At, TalkTyped, TypeOK, OwnersTypeOK, ownerVars
<1>4. CASE Named(u, s)
  BY <1>0, <1>4, PromptsTyped DEF Named, At, TalkTyped, TypeOK, OwnersTypeOK, ownerVars
<1>5. CASE Dropped(u, s)
  <2>1. h.on \in Client \cup {None} /\ h.phone \in Phone \cup {None}
    BY <1>0 DEF Handler
  <2>2. client' \in [Client -> Connection]
    BY <1>5, <2>1, DisconnectsTyped DEF Dropped
  <2>3. MoveTyped' /\ data' \in [User -> Data]
    BY <1>5, <2>1, ForgetsTyped DEF Dropped
  <2> QED BY <1>0, <1>5, <2>2, <2>3
          DEF Dropped, At, TalkTyped, TypeOK, OwnersTypeOK, ownerVars
<1>6. CASE SendFails(u, s)
  <2>1. MoveTyped'
    BY <1>6, RepliesTyped DEF SendFails, States, Tidy
  <2>2. data' \in [User -> Data]
    BY <1>6, KeepsTyped, NoDataTyped DEF SendFails, TypeOK
  <2> QED BY <1>0, <1>6, <2>1, <2>2
          DEF SendFails, At, TalkTyped, TypeOK, OwnersTypeOK, ownerVars
<1>7. ASSUME NEW c \in Client, CodeSent(u, s, c)
      PROVE  TalkTyped' /\ OwnersTypeOK'
  <2>1. MoveTyped'
    BY <1>7, RepliesTyped DEF CodeSent, States, Tidy
  <2>2. [d EXCEPT !.client = c] \in Data
    BY <1>0 DEF Data
  <2>3. data' \in [User -> Data]
    BY <1>7, <2>2, KeepsTyped DEF CodeSent
  <2>4. [by |-> u, phone |-> h.phone, connected |-> TRUE, signed |-> "no"] \in Connection
    BY <1>0 DEF Handler, Connection
  <2>5. client' \in [Client -> Connection]
    BY <1>7, <2>4 DEF CodeSent, TypeOK
  <2> QED BY <1>0, <1>7, <2>1, <2>3, <2>5
          DEF CodeSent, At, TalkTyped, TypeOK, OwnersTypeOK, ownerVars
<1>8. CASE SignInEnds(u, s)
  <2>0. /\ data' \in [User -> Data] /\ asked' \in [User -> User \cup {None}]
        /\ disturbed' \in [User -> SUBSET {"overlap", "error"}] /\ OwnersTypeOK'
    BY <1>8 DEF SignInEnds, At, TypeOK, OwnersTypeOK, ownerVars
  <2>1. CASE SignsIn(u, s, "code")
    BY <2>0, <2>1, SignsInTyped DEF TalkTyped
  <2>2. CASE /\ Replies(u, s, "password", "keep")
             /\ client' = [client EXCEPT ![h.on].signed = IF @ = "yes" THEN @ ELSE "half"]
    <3>1. MoveTyped'
      BY <2>2, RepliesTyped DEF States, Tidy
    <3>2. CASE h.on \in Client
      <4>0. client[h.on] \in Connection
        BY <3>2 DEF TypeOK
      <4> DEFINE k == [client[h.on] EXCEPT !.signed = IF @ = "yes" THEN @ ELSE "half"]
      <4>1. k \in Connection
        BY <4>0 DEF Connection
      <4>2. client' = [client EXCEPT ![h.on] = k]
        BY <2>2
      <4> HIDE DEF k
      <4> QED BY <2>0, <3>1, <3>2, <4>1, <4>2 DEF TalkTyped, TypeOK
    <3>3. CASE h.on \notin Client
      BY <2>0, <2>2, <3>1, <3>3 DEF TalkTyped, TypeOK
    <3> QED BY <3>2, <3>3
  <2>3. CASE Replies(u, s, "code", "keep") /\ UNCHANGED client
    <3>1. MoveTyped'
      BY <2>3, RepliesTyped DEF States, Tidy
    <3> QED BY <2>0, <2>3, <3>1 DEF TalkTyped, TypeOK
  <2>4. CASE Errs(u, s, "code") /\ UNCHANGED client
    BY <2>0, <2>4, ErrsTyped DEF TalkTyped, TypeOK
  <2> QED BY <1>8, <2>1, <2>2, <2>3, <2>4 DEF SignInEnds
<1>9. CASE PasswordEnds(u, s)
  <2>0. /\ data' \in [User -> Data] /\ asked' \in [User -> User \cup {None}]
        /\ disturbed' \in [User -> SUBSET {"overlap", "error"}] /\ OwnersTypeOK'
    BY <1>9 DEF PasswordEnds, At, TypeOK, OwnersTypeOK, ownerVars
  <2>1. CASE SignsIn(u, s, "password")
    BY <2>0, <2>1, SignsInTyped DEF TalkTyped
  <2>2. ASSUME NEW from \in {"code", "password"}, Errs(u, s, from), UNCHANGED client
        PROVE  TalkTyped' /\ OwnersTypeOK'
    BY <2>0, <2>2, ErrsTyped DEF TalkTyped, TypeOK
  <2> QED BY <1>9, <2>1, <2>2 DEF PasswordEnds
<1>10. CASE Saves(u, s)
  <2>1. /\ h.login \in Client \cup {None} /\ h.phone \in Phone \cup {None}
        /\ h.owner \in User \cup {None} /\ h.at = "saving"
    BY <1>0, <1>10 DEF Handler, Saves, At
  <2>2. h.owner \in User /\ h.phone = client[h.login].phone
    BY <2>1 DEF SavesFit
  <2>3. OwnersTypeOK'
    BY <1>10, <2>1, <2>2, AddTyped DEF Saves
  <2>4. client' \in [Client -> Connection]
    BY <1>10, <2>1, DisconnectsTyped DEF Saves
  <2>5. [h EXCEPT !.at = "telling"] \in Handler
    BY <1>0 DEF Handler
  <2>6. MoveTyped'
    BY <1>10, <2>5, GoesToTyped DEF Saves
  <2> QED BY <1>0, <1>10, <2>3, <2>4, <2>6 DEF Saves, At, TalkTyped, TypeOK
<1>11. CASE Told(u, s)
  <2>1. MoveTyped'
    BY <1>11, ReturnsTyped, ErrsTyped DEF Told, States
  <2>2. data' \in [User -> Data]
    BY <1>11, KeepsTyped, NoDataTyped DEF Told, TypeOK
  <2> QED BY <1>0, <1>11, <2>1, <2>2
          DEF Told, At, TalkTyped, TypeOK, OwnersTypeOK, ownerVars
<1>12. ASSUME Quits(u, s) \/ Cancelled(u, s)
       PROVE  TalkTyped' /\ OwnersTypeOK'
  <2>1. h.on \in Client \cup {None}
    BY <1>0 DEF Handler
  <2>2. client' \in [Client -> Connection]
    BY <1>12, <2>1, DisconnectsTyped DEF Quits, Cancelled
  <2>3. MoveTyped'
    BY <1>12, ReturnsTyped, RepliesTyped DEF Quits, Cancelled, States, Tidy
  <2>4. data' \in [User -> Data]
    BY <1>12, KeepsTyped, NoDataTyped DEF Quits, Cancelled
  <2> QED BY <1>0, <1>12, <2>2, <2>3, <2>4
          DEF Quits, Cancelled, At, TalkTyped, TypeOK, OwnersTypeOK, ownerVars
<1>13. CASE Moved(u, s)
  <2>1. [d EXCEPT !.moving = None] \in Data
    BY <1>0 DEF Data
  <2>2. data' \in [User -> Data]
    BY <1>13, <2>1, KeepsTyped DEF Moved
  <2>3. MoveTyped'
    BY <1>0, <1>13, IdleTyped DEF Moved, MoveTyped
  <2> QED BY <1>0, <1>13, <2>2, <2>3
          DEF Moved, At, TalkTyped, TypeOK, OwnersTypeOK, ownerVars
<1> QED BY <1>1, <1>2, <1>3, <1>4, <1>5, <1>6, <1>7, <1>8, <1>9, <1>10, <1>11, <1>12, <1>13
        DEF GoesOn

LEMMA OthersTyped ==
    ASSUME TypeOK, Restarts \/ Elsewhere \/ \E u \in User : TimesOut(u)
    PROVE  TalkTyped' /\ OwnersTypeOK'
<1>1. CASE Restarts
  <2>1. NoConnection \in Connection
    BY DEF NoConnection, Connection
  <2> QED BY <1>1, <2>1, IdleTyped, NoDataTyped
          DEF Restarts, TalkTyped, MoveTyped, TypeOK, OwnersTypeOK, ownerVars, States
<1>2. CASE Elsewhere
  <2>1. ASSUME NEW u \in User, SubscriptionChanges(u)
        PROVE  OwnersTypeOK'
    BY <2>1 DEF SubscriptionChanges, TypeOK, OwnersTypeOK
  <2>2. ASSUME NEW u \in User, NEW p \in Phone, DeleteManagedAccount(u, p)
        PROVE  OwnersTypeOK'
    <3>1. row[p] \in Row
      BY <2>2 DEF DeleteManagedAccount, IsOwner, Accounts, TypeOK, OwnersTypeOK
    <3>2. [row[p] EXCEPT !.deleted = TRUE] \in Row
      BY <3>1 DEF Row
    <3>3. row' = [row EXCEPT ![p] = [row[p] EXCEPT !.deleted = TRUE]]
          /\ subscribed' = subscribed
      BY <2>2 DEF DeleteManagedAccount
    <3> QED BY <3>2, <3>3 DEF TypeOK, OwnersTypeOK
  <2>3. TalkTyped'
    BY <1>2 DEF Elsewhere, talkVars, TalkTyped, MoveTyped, TypeOK
  <2> QED BY <1>2, <2>1, <2>2, <2>3 DEF Elsewhere
<1>3. ASSUME NEW u \in User, TimesOut(u)
      PROVE  TalkTyped' /\ OwnersTypeOK'
  BY <1>3 DEF TimesOut, TalkTyped, MoveTyped, TypeOK, OwnersTypeOK, ownerVars, States
<1> QED BY <1>1, <1>2, <1>3

LEMMA TypeStep ==
    ASSUME TypeOK, SavesFit, [Next]_vars
    PROVE  TypeOK'
<1>1. CASE events < MaxEvents /\ events' = events + 1 /\ Happens
  <2>1. TalkTyped' /\ OwnersTypeOK'
    BY <1>1, UpdatesTyped, OthersTyped DEF Happens
  <2>2. events' \in 0..MaxEvents
    BY <1>1, EventsAssumption DEF TypeOK
  <2> QED BY <2>1, <2>2 DEF TalkTyped, MoveTyped, TypeOK
<1>2. CASE UNCHANGED events /\ \E u \in User, s \in Slot : GoesOn(u, s)
  <2>1. TalkTyped' /\ OwnersTypeOK'
    BY <1>2, GoesOnTyped
  <2> QED BY <1>2, <2>1 DEF TalkTyped, MoveTyped, TypeOK
<1>3. CASE UNCHANGED vars
  BY <1>3 DEF vars, talkVars, ownerVars, TypeOK, OwnersTypeOK
<1> QED BY <1>1, <1>2, <1>3 DEF Next

-----------------------------------------------------------------------------
(***************************************************************************)
(* Most steps disturb nothing the rest of the invariant is about: no       *)
(* handler begins to sign in or to save, a user's client and number stay   *)
(* or the client goes, a client's number stays and nobody signs it in that *)
(* Telegram was not asked to, and no row gets a session.                   *)
(***************************************************************************)
HandlersQuiet == \A v \in User, r \in Slot :
    handler'[v][r] = handler[v][r] \/ handler'[v][r].at \notin {"signing", "saving"}

DataQuiet == \A v \in User :
    \/ data'[v].client = None
    \/ data'[v].client = data[v].client /\ data'[v].phone = data[v].phone

ClientsQuiet == \A c \in Client :
    /\ client'[c].by = client[c].by /\ client'[c].phone = client[c].phone
    /\ client'[c].signed # "no" => Trusted(c)

RowsQuiet == \A p \in Phone :
    row'[p] # None => row[p] # None /\ row'[p].session = row[p].session

LEMMA OwnClientKept ==
    ASSUME TypeOK, TypeOK', OwnClient, DataQuiet, ClientsQuiet
    PROVE  OwnClient'
<1> SUFFICES ASSUME NEW v \in User, data'[v].client # None
             PROVE  client'[data'[v].client].by = v
  BY DEF OwnClient
<1>1. data'[v].client = data[v].client
  BY DEF DataQuiet
<1>2. data[v].client \in Client
  BY <1>1 DEF TypeOK, Data
<1> QED BY <1>1, <1>2 DEF OwnClient, ClientsQuiet

LEMMA PhoneFitsKept ==
    ASSUME TypeOK, TypeOK', PhoneFits, DataQuiet, ClientsQuiet,
           \A c \in Client : Trusted(c)' => Trusted(c)
    PROVE  PhoneFits'
<1> SUFFICES ASSUME NEW v \in User, data'[v].client # None, Trusted(data[v].client)'
             PROVE  data'[v].phone = client'[data'[v].client].phone
  BY DEF PhoneFits
<1>1. data'[v].client = data[v].client /\ data'[v].phone = data[v].phone
  BY DEF DataQuiet
<1>2. data[v].client \in Client
  BY <1>1 DEF TypeOK, Data
<1>3. data'[v].client \in Client
  BY <1>1, <1>2
<1>4. Trusted(data[v].client)
  BY <1>1, <1>2
<1>5. data[v].phone = client[data[v].client].phone
  BY <1>2, <1>1, <1>4 DEF PhoneFits
<1> QED BY <1>1, <1>2, <1>5 DEF ClientsQuiet

LEMMA TrustKept ==
    ASSUME ClientsQuiet,
           \A v \in User, r \in Slot :
               handler'[v][r] = handler[v][r] \/ handler'[v][r].at # "signing"
    PROVE  \A c \in Client : Trusted(c)' => Trusted(c)
<1> SUFFICES ASSUME NEW c \in Client, Trusted(c)'
             PROVE  Trusted(c)
  OBVIOUS
<1>1. CASE client'[c].signed # "no"
  BY <1>1 DEF ClientsQuiet
<1>2. ASSUME NEW v \in User, NEW r \in Slot, handler'[v][r].at = "signing",
             handler'[v][r].on = c, handler'[v][r].phone = client'[c].phone
      PROVE  Trusted(c)
  <2>1. handler'[v][r] = handler[v][r]
    BY <1>2
  <2>2. client'[c].phone = client[c].phone
    BY DEF ClientsQuiet
  <2> QED BY <1>2, <2>1, <2>2 DEF Trusted
<1> QED BY <1>1, <1>2 DEF Trusted

LEMMA SavesFitKept ==
    ASSUME TypeOK, TypeOK', SavesFit, HandlersQuiet, ClientsQuiet
    PROVE  SavesFit'
<1> SUFFICES ASSUME NEW v \in User, NEW r \in Slot, handler'[v][r].at = "saving"
             PROVE  /\ handler'[v][r].login # None /\ handler'[v][r].owner # None
                    /\ client'[handler'[v][r].login].phone = handler'[v][r].phone
  BY DEF SavesFit
<1>1. handler'[v][r] = handler[v][r]
  BY DEF HandlersQuiet
<1>2. /\ handler[v][r].login # None /\ handler[v][r].owner # None
      /\ client[handler[v][r].login].phone = handler[v][r].phone
  BY <1>1 DEF SavesFit
<1>3. handler[v][r] \in Handler
  BY DEF TypeOK
<1>4. handler[v][r].login \in Client
  BY <1>2, <1>3 DEF Handler
<1> QED BY <1>1, <1>2, <1>4 DEF ClientsQuiet

LEMMA SessionsKept ==
    ASSUME SessionsMatch, RowsQuiet
    PROVE  SessionsMatch'
  BY DEF SessionsMatch, RowsQuiet

LEMMA QuietStep ==
    ASSUME Inv, TypeOK', HandlersQuiet, DataQuiet, ClientsQuiet, RowsQuiet
    PROVE  Inv'
<1>1. \A c \in Client : Trusted(c)' => Trusted(c)
  BY TrustKept DEF HandlersQuiet
<1> QED BY <1>1, OwnClientKept, PhoneFitsKept, SavesFitKept, SessionsKept DEF Inv

-----------------------------------------------------------------------------
(***************************************************************************)
(* The building blocks of the actions, in these terms.                     *)
(***************************************************************************)
LEMMA GoesToQuiet ==
    ASSUME TypeOK, NEW u \in User, NEW s \in Slot, NEW h, GoesTo(u, s, h),
           h.at \notin {"signing", "saving"}
    PROVE  HandlersQuiet
<1> SUFFICES ASSUME NEW v \in User, NEW r \in Slot
             PROVE  \/ handler'[v][r] = handler[v][r]
                    \/ handler'[v][r].at \notin {"signing", "saving"}
  BY DEF HandlersQuiet
<1>1. handler' = [handler EXCEPT ![u] = [handler[u] EXCEPT ![s] = h]]
  BY DEF GoesTo
<1>2. handler \in [User -> [Slot -> Handler]]
  BY DEF TypeOK
<1>3. CASE v = u /\ r = s
  BY <1>1, <1>2, <1>3
<1>4. CASE ~(v = u /\ r = s)
  BY <1>1, <1>2, <1>4
<1> QED BY <1>3, <1>4

LEMMA RepliesQuiet ==
    ASSUME TypeOK, NEW u \in User, NEW s \in Slot, NEW then, NEW tidy,
           Replies(u, s, then, tidy)
    PROVE  HandlersQuiet
<1> DEFINE h == [Idle EXCEPT !.at = "replying", !.then = then, !.tidy = tidy]
<1>1. h.at = "replying"
  BY DEF Idle
<1>2. GoesTo(u, s, h)
  BY DEF Replies
<1> HIDE DEF h
<1> QED BY <1>1, <1>2, GoesToQuiet

LEMMA ReturnsQuiet ==
    ASSUME TypeOK, NEW u \in User, NEW s \in Slot, handler' = [handler EXCEPT ![u][s] = Idle]
    PROVE  HandlersQuiet
<1>1. Idle.at = "idle"
  BY DEF Idle
<1>2. handler \in [User -> [Slot -> Handler]]
  BY DEF TypeOK
<1> SUFFICES ASSUME NEW v \in User, NEW r \in Slot
             PROVE  \/ handler'[v][r] = handler[v][r]
                    \/ handler'[v][r].at \notin {"signing", "saving"}
  BY DEF HandlersQuiet
<1>3. CASE v = u /\ r = s
  BY <1>1, <1>2, <1>3
<1>4. CASE ~(v = u /\ r = s)
  BY <1>2, <1>4
<1> QED BY <1>3, <1>4

LEMMA ErrsQuiet ==
    ASSUME TypeOK, NEW u \in User, NEW s \in Slot, NEW from, Errs(u, s, from)
    PROVE  HandlersQuiet
<1> DEFINE h == [handler[u][s] EXCEPT !.at = "quitting"]
<1>1. handler[u][s] \in Handler
  BY DEF TypeOK
<1>2. h.at = "quitting"
  BY <1>1 DEF Handler
<1>3. GoesTo(u, s, h) \/ Replies(u, s, "password", "keep")
  BY DEF Errs
<1> HIDE DEF h
<1> QED BY <1>2, <1>3, GoesToQuiet, RepliesQuiet

LEMMA KeepsQuiet ==
    ASSUME TypeOK, NEW u \in User, NEW d, Keeps(u, d),
           d.client = None \/ (d.client = data[u].client /\ d.phone = data[u].phone)
    PROVE  DataQuiet
  BY DEF TypeOK, Keeps, DataQuiet

\* The forms user_data takes in the actions below
LEMMA DataForms ==
    ASSUME TypeOK, NEW u \in User
    PROVE  /\ NoData.client = None
           /\ \A o : [NoData EXCEPT !.for = o].client = None
           /\ \A p : [data[u] EXCEPT !.client = None, !.phone = p].client = None
           /\ \A o : /\ [data[u] EXCEPT !.for = o].client = data[u].client
                     /\ [data[u] EXCEPT !.for = o].phone = data[u].phone
           /\ \A p : /\ [data[u] EXCEPT !.moving = p].client = data[u].client
                     /\ [data[u] EXCEPT !.moving = p].phone = data[u].phone
<1>1. data[u] \in Data
  BY DEF TypeOK
<1> QED BY <1>1 DEF Data, NoData

LEMMA DisconnectsQuiet ==
    ASSUME TypeOK, NEW k, Disconnects(k)
    PROVE  ClientsQuiet
<1> SUFFICES ASSUME NEW c \in Client
             PROVE  /\ client'[c].by = client[c].by /\ client'[c].phone = client[c].phone
                    /\ client'[c].signed = client[c].signed
  BY DEF ClientsQuiet, Trusted
<1>1. client \in [Client -> Connection] /\ client[c] \in Connection
  BY DEF TypeOK
<1>2. CASE k = None
  BY <1>2 DEF Disconnects
<1>3. CASE k # None /\ c = k
  <2>1. client'[c] = [client[c] EXCEPT !.connected = FALSE]
    BY <1>1, <1>3 DEF Disconnects
  <2> QED BY <1>1, <2>1 DEF Connection
<1>4. CASE k # None /\ c # k
  BY <1>1, <1>4 DEF Disconnects
<1> QED BY <1>2, <1>3, <1>4

LEMMA NothingQuiet ==
    /\ TypeOK /\ UNCHANGED client => ClientsQuiet
    /\ UNCHANGED data => DataQuiet
    /\ UNCHANGED handler => HandlersQuiet
    /\ UNCHANGED row => RowsQuiet
  BY DEF ClientsQuiet, DataQuiet, HandlersQuiet, RowsQuiet, Trusted

LEMMA PromptsQuiet ==
    ASSUME TypeOK, NEW u \in User, NEW s \in Slot, NEW d, Prompts(u, s, d),
           d.client = None \/ (d.client = data[u].client /\ d.phone = data[u].phone)
    PROVE  HandlersQuiet /\ DataQuiet
  BY RepliesQuiet, KeepsQuiet DEF Prompts

LEMMA GreetsQuiet ==
    ASSUME TypeOK, NEW u \in User, NEW s \in Slot, NEW owner \in User \cup {None},
           Greets(u, s, owner)
    PROVE  HandlersQuiet /\ DataQuiet
<1>1. CASE owner # None /\ Prompts(u, s, [NoData EXCEPT !.for = owner])
  BY <1>1, DataForms, PromptsQuiet
<1>2. CASE Replies(u, s, "end", "keep") /\ (Keeps(u, data[u]) \/ Keeps(u, NoData))
  BY <1>2, DataForms, RepliesQuiet, KeepsQuiet
<1> QED BY <1>1, <1>2 DEF Greets

LEMMA ForgetsQuiet ==
    ASSUME TypeOK, NEW u \in User, NEW s \in Slot, NEW p, Forgets(u, s, p)
    PROVE  HandlersQuiet /\ DataQuiet
<1>1. [Idle EXCEPT !.at = "sending", !.phone = p].at = "sending"
  BY DEF Idle
<1>2. HandlersQuiet
  BY <1>1, GoesToQuiet DEF Forgets
<1>3. DataQuiet
  BY DataForms, KeepsQuiet DEF Forgets
<1> QED BY <1>2, <1>3

-----------------------------------------------------------------------------
(***************************************************************************)
(* The actions.                                                            *)
(***************************************************************************)
Quiet == HandlersQuiet /\ DataQuiet /\ ClientsQuiet /\ RowsQuiet

LEMMA TransferQuiet ==
    ASSUME TypeOK, NEW u, NEW p, NEW recipient, MayTransfer(u, p, recipient),
           Transfer(p, recipient)
    PROVE  RowsQuiet
<1>1. p \in Phone /\ row[p] \in Row /\ row[p] # None /\ row \in [Phone -> Row \cup {None}]
  BY DEF MayTransfer, IsOwner, Accounts, TypeOK, OwnersTypeOK
<1>2. [row[p] EXCEPT !.owner = recipient].session = row[p].session
  BY <1>1 DEF Row
<1>3. row' = [row EXCEPT ![p] = [row[p] EXCEPT !.owner = recipient]]
  BY DEF Transfer
<1> QED BY <1>1, <1>2, <1>3 DEF RowsQuiet

\* The handlers but the one for a code
LEMMA UpdatesQuiet ==
    ASSUME TypeOK, NEW u \in User, Updates(u),
           ~\E s \in Slot : ReceivePhoneCode(u, s)
    PROVE  Quiet
<1> DEFINE d == data[u]
<1>1. ASSUME NEW s \in Slot, NEW owner \in User \cup {None}, Start(u, s, owner)
      PROVE  Quiet
  <2>1. ClientsQuiet /\ RowsQuiet
    BY <1>1, NothingQuiet DEF Start, ownerVars
  <2>2. [Idle EXCEPT !.at = "greeting", !.on = d.client, !.owner = owner].at = "greeting"
    BY DEF Idle
  <2>3. HandlersQuiet /\ DataQuiet
    BY <1>1, <2>2, GoesToQuiet, NothingQuiet, GreetsQuiet DEF Start
  <2> QED BY <2>1, <2>3 DEF Quiet
<1>2. ASSUME NEW s \in Slot, AddAccountStart(u, s)
      PROVE  Quiet
  BY <1>2, RepliesQuiet, KeepsQuiet, DataForms, NothingQuiet
     DEF AddAccountStart, ownerVars, Quiet
<1>3. ASSUME NEW s \in Slot, AddAccountChooseOwner(u, s)
      PROVE  Quiet
  BY <1>3, RepliesQuiet, PromptsQuiet, DataForms, NothingQuiet
     DEF AddAccountChooseOwner, ownerVars, Quiet
<1>4. ASSUME NEW s \in Slot, ReceiveTargetUserId(u, s)
      PROVE  Quiet
  <2>1. [Idle EXCEPT !.at = "naming"].at = "naming"
    BY DEF Idle
  <2> QED BY <1>4, <2>1, GoesToQuiet, RepliesQuiet, KeepsQuiet, DataForms, NothingQuiet
          DEF ReceiveTargetUserId, ownerVars, Quiet
<1>5. ASSUME NEW s \in Slot, NEW p \in Phone \cup {None}, ReceivePhoneNumber(u, s, p)
      PROVE  Quiet
  <2>1. [Idle EXCEPT !.at = "dropping", !.on = d.client, !.phone = p].at = "dropping"
    BY DEF Idle
  <2> QED BY <1>5, <2>1, GoesToQuiet, RepliesQuiet, ForgetsQuiet, NothingQuiet
          DEF ReceivePhoneNumber, ownerVars, Quiet
<1>6. ASSUME NEW s \in Slot, ReceivePassword(u, s)
      PROVE  Quiet
  <2>1. [Idle EXCEPT !.at = "checking", !.on = d.client].at = "checking"
    BY DEF Idle
  <2> QED BY <1>6, <2>1, GoesToQuiet, RepliesQuiet, NothingQuiet
          DEF ReceivePassword, ownerVars, Quiet
<1>7. ASSUME NEW s \in Slot, Cancel(u, s)
      PROVE  Quiet
  <2>1. [Idle EXCEPT !.at = "cancelling", !.on = d.client].at = "cancelling"
    BY DEF Idle
  <2> QED BY <1>7, <2>1, GoesToQuiet, RepliesQuiet, KeepsQuiet, DataForms, NothingQuiet
          DEF Cancel, ownerVars, Quiet
<1>8. ASSUME NEW s \in Slot, NEW recipient \in User,
             ReceiveTransferRecipient(u, s, recipient)
      PROVE  Quiet
  <2>1. [Idle EXCEPT !.at = "moved"].at = "moved"
    BY DEF Idle
  <2>2. HandlersQuiet /\ RowsQuiet
    BY <1>8, <2>1, GoesToQuiet, NothingQuiet, TransferQuiet
       DEF ReceiveTransferRecipient, ownerVars
  <2> QED BY <1>8, <2>2, NothingQuiet DEF ReceiveTransferRecipient, Quiet
<1>9. ASSUME NEW p \in Phone, TransferAccountStart(u, p)
      PROVE  Quiet
  BY <1>9, KeepsQuiet, DataForms, NothingQuiet DEF TransferAccountStart, ownerVars, Quiet
<1>10. ASSUME CancelTransfer(u)
       PROVE  Quiet
  BY <1>10, KeepsQuiet, DataForms, NothingQuiet DEF CancelTransfer, ownerVars, Quiet
<1> QED BY <1>1, <1>2, <1>3, <1>4, <1>5, <1>6, <1>7, <1>8, <1>9, <1>10 DEF Updates

LEMMA CodeKeepsInv ==
    ASSUME Inv, TypeOK', NEW u \in User, NEW s \in Slot, ReceivePhoneCode(u, s)
    PROVE  Inv'
<1> DEFINE d == data[u]
           h == [Idle EXCEPT !.at = "signing", !.on = d.client, !.phone = d.phone]
<1>0. TypeOK /\ DataQuiet /\ ClientsQuiet /\ RowsQuiet
  BY NothingQuiet DEF ReceivePhoneCode, ownerVars, Inv
<1>1. CASE Replies(u, s, "phone", "keep")
  BY <1>0, <1>1, RepliesQuiet, QuietStep
<1>2. CASE GoesTo(u, s, h)
  <2>1. h.at = "signing" /\ h.on = d.client /\ h.phone = d.phone
    BY DEF Idle
  <2> HIDE DEF h
  <2>2. /\ handler'[u][s] = h
        /\ \A v \in User, r \in Slot :
              ~(v = u /\ r = s) => handler'[v][r] = handler[v][r]
    BY <1>0, <1>2 DEF GoesTo, TypeOK
  <2>3. UNCHANGED <<data, client>>
    BY DEF ReceivePhoneCode
  <2>4. OwnClient' /\ SessionsMatch'
    BY <1>0, OwnClientKept, SessionsKept DEF Inv
  <2>5. SavesFit'
    BY <2>1, <2>2, <2>3 DEF SavesFit, Inv
  <2>6. PhoneFits'
    <3> SUFFICES ASSUME NEW v \in User, data[v].client # None, Trusted(data[v].client)'
                 PROVE  data[v].phone = client[data[v].client].phone
      BY <2>3 DEF PhoneFits
    <3>1. CASE Trusted(data[v].client)
      BY <3>1 DEF PhoneFits, Inv
    <3>2. CASE ~Trusted(data[v].client)
      <4>1. PICK w \in User, r \in Slot :
               /\ handler'[w][r].at = "signing" /\ handler'[w][r].on = data[v].client
               /\ handler'[w][r].phone = client[data[v].client].phone
        BY <2>3, <3>2 DEF Trusted
      <4>2. w = u /\ r = s
        BY <2>2, <3>2, <4>1 DEF Trusted
      <4>3. data[v].client = d.client /\ d.phone = client[data[v].client].phone
        BY <2>1, <2>2, <4>1, <4>2
      <4>4. client[data[v].client].by = v /\ client[d.client].by = u
        BY <4>3 DEF OwnClient, Inv
      <4> QED BY <4>3, <4>4
    <3> QED BY <3>1, <3>2
  <2> QED BY <2>4, <2>5, <2>6 DEF Inv
<1> QED BY <1>1, <1>2 DEF ReceivePhoneCode

\* The steps that neither ask for a code, sign in nor save
LEMMA GoesOnQuiet ==
    ASSUME TypeOK, NEW u \in User, NEW s \in Slot,
           \/ Replied(u, s) \/ ReplyFails(u, s) \/ Greeted(u, s) \/ Named(u, s)
           \/ Dropped(u, s) \/ SendFails(u, s) \/ Told(u, s) \/ Quits(u, s)
           \/ Cancelled(u, s) \/ Moved(u, s)
    PROVE  Quiet
<1> DEFINE d == data[u]
           h == handler[u][s]
<1>0. h \in Handler /\ Idle.at = "idle"
  BY DEF TypeOK, Idle
<1>1. CASE Replied(u, s)
  <2>1. h.tidy \in {"keep", "drop_for", "clear"}
    BY <1>0 DEF Handler
  <2>2. Keeps(u, d) \/ Keeps(u, [d EXCEPT !.for = None]) \/ Keeps(u, NoData)
    BY <1>1, <2>1 DEF Replied
  <2>3. DataQuiet
    BY <2>2, KeepsQuiet, DataForms
  <2> QED BY <1>1, <2>3, ReturnsQuiet, NothingQuiet DEF Replied, Returns, ownerVars, Quiet
<1>2. CASE ReplyFails(u, s)
  BY <1>0, <1>2, GoesToQuiet, NothingQuiet DEF ReplyFails, ownerVars, Quiet
<1>3. CASE Greeted(u, s)
  <2>1. h.owner \in User \cup {None}
    BY <1>0 DEF Handler
  <2> QED BY <1>3, <2>1, GreetsQuiet, DisconnectsQuiet, NothingQuiet
          DEF Greeted, ownerVars, Quiet
<1>4. CASE Named(u, s)
  BY <1>4, PromptsQuiet, NothingQuiet DEF Named, ownerVars, Quiet
<1>5. CASE Dropped(u, s)
  BY <1>5, ForgetsQuiet, DisconnectsQuiet, NothingQuiet DEF Dropped, ownerVars, Quiet
<1>6. CASE SendFails(u, s)
  BY <1>6, RepliesQuiet, KeepsQuiet, DataForms, NothingQuiet DEF SendFails, ownerVars, Quiet
<1>7. CASE Told(u, s)
  BY <1>7, ReturnsQuiet, ErrsQuiet, KeepsQuiet, DataForms, NothingQuiet
     DEF Told, Returns, ownerVars, Quiet
<1>8. CASE Quits(u, s)
  BY <1>8, ReturnsQuiet, DisconnectsQuiet, KeepsQuiet, DataForms, NothingQuiet
     DEF Quits, Returns, ownerVars, Quiet
<1>9. CASE Cancelled(u, s)
  BY <1>9, RepliesQuiet, DisconnectsQuiet, KeepsQuiet, DataForms, NothingQuiet
     DEF Cancelled, ownerVars, Quiet
<1>10. CASE Moved(u, s)
  BY <1>10, ReturnsQuiet, KeepsQuiet, DataForms, NothingQuiet DEF Moved, ownerVars, Quiet
<1> QED BY <1>1, <1>2, <1>3, <1>4, <1>5, <1>6, <1>7, <1>8, <1>9, <1>10

\* A new client is trusted by nobody yet, and no login that waits to save holds it.
LEMMA CodeSentKeepsInv ==
    ASSUME Inv, TypeOK', NEW u \in User, NEW s \in Slot, NEW c \in Client, CodeSent(u, s, c)
    PROVE  Inv'
<1> DEFINE p == handler[u][s].phone
<1>1. /\ TypeOK /\ HandlersQuiet /\ RowsQuiet
      /\ client'[c] = [by |-> u, phone |-> p, connected |-> TRUE, signed |-> "no"]
      /\ \A k \in Client : k # c => client'[k] = client[k]
  <2>1. TypeOK /\ HandlersQuiet /\ RowsQuiet
    BY RepliesQuiet, NothingQuiet DEF CodeSent, ownerVars, Inv
  <2>2. client' = [client EXCEPT ![c] = [by |-> u, phone |-> p, connected |-> TRUE,
                                         signed |-> "no"]]
    BY DEF CodeSent
  <2> QED BY <2>1, <2>2 DEF TypeOK
<1>2. /\ data'[u].client = c
      /\ \A v \in User \ {u} : data'[v] = data[v] /\ data[v].client # c
  <2>1. data' = [data EXCEPT ![u] = [data[u] EXCEPT !.client = c]]
    BY DEF CodeSent, Keeps
  <2>2. data[u] \in Data /\ data \in [User -> Data]
    BY <1>1 DEF TypeOK
  <2>3. [data[u] EXCEPT !.client = c].client = c
    BY <2>2 DEF Data
  <2>4. \A v \in User : data[v].client # c
    BY DEF CodeSent, Fresh
  <2> QED BY <2>1, <2>2, <2>3, <2>4
<1>3. \A v \in User, r \in Slot : handler[v][r].on # c /\ handler[v][r].login # c
  BY DEF CodeSent, Fresh
<1>4. OwnClient'
  <2> SUFFICES ASSUME NEW v \in User, data'[v].client # None
               PROVE  client'[data'[v].client].by = v
    BY DEF OwnClient
  <2>1. CASE v = u
    BY <1>1, <1>2, <2>1
  <2>2. CASE v # u
    <3>1. data[v].client \in Client /\ data[v].client # c /\ data'[v] = data[v]
      BY <1>1, <1>2, <2>2 DEF TypeOK, Data
    <3> QED BY <1>1, <3>1 DEF OwnClient, Inv
  <2> QED BY <2>1, <2>2
<1>5. ~Trusted(c)'
  <2> SUFFICES ASSUME NEW v \in User, NEW r \in Slot, handler'[v][r].at = "signing",
                      handler'[v][r].on = c
               PROVE  FALSE
    BY <1>1 DEF Trusted
  <2>1. handler'[v][r] = handler[v][r]
    BY <1>1 DEF HandlersQuiet
  <2> QED BY <1>3, <2>1
<1>6. \A k \in Client : k # c /\ Trusted(k)' => Trusted(k)
  <2> SUFFICES ASSUME NEW k \in Client, k # c, Trusted(k)'
               PROVE  Trusted(k)
    OBVIOUS
  <2>1. client'[k] = client[k]
    BY <1>1
  <2>2. CASE client'[k].signed # "no"
    BY <2>1, <2>2 DEF Trusted
  <2>3. ASSUME NEW v \in User, NEW r \in Slot, handler'[v][r].at = "signing",
               handler'[v][r].on = k, handler'[v][r].phone = client'[k].phone
        PROVE  Trusted(k)
    <3>1. handler'[v][r] = handler[v][r]
      BY <1>1, <2>3 DEF HandlersQuiet
    <3> QED BY <2>1, <2>3, <3>1 DEF Trusted
  <2> QED BY <2>2, <2>3 DEF Trusted
<1>7. PhoneFits'
  <2> SUFFICES ASSUME NEW v \in User, data'[v].client # None, Trusted(data[v].client)'
               PROVE  data'[v].phone = client'[data'[v].client].phone
    BY DEF PhoneFits
  <2>1. v # u
    BY <1>2, <1>5
  <2>2. data[v].client \in Client /\ data[v].client # c /\ data'[v] = data[v]
    BY <1>1, <1>2, <2>1 DEF TypeOK, Data
  <2>3. Trusted(data[v].client)
    BY <1>6, <2>2
  <2> QED BY <1>1, <2>2, <2>3 DEF PhoneFits, Inv
<1>8. SavesFit'
  <2> SUFFICES ASSUME NEW v \in User, NEW r \in Slot, handler'[v][r].at = "saving"
               PROVE  /\ handler'[v][r].login # None /\ handler'[v][r].owner # None
                      /\ client'[handler'[v][r].login].phone = handler'[v][r].phone
    BY DEF SavesFit
  <2>1. handler'[v][r] = handler[v][r]
    BY <1>1 DEF HandlersQuiet
  <2>2. /\ handler[v][r].login # None /\ handler[v][r].owner # None
        /\ client[handler[v][r].login].phone = handler[v][r].phone
    BY <2>1 DEF SavesFit, Inv
  <2>3. handler[v][r] \in Handler
    BY <1>1 DEF TypeOK
  <2>4. handler[v][r].login \in Client /\ handler[v][r].login # c
    BY <1>3, <2>2, <2>3 DEF Handler
  <2> QED BY <1>1, <2>1, <2>2, <2>4
<1> QED BY <1>1, <1>4, <1>7, <1>8, SessionsKept DEF Inv

\* async_complete_login, once Telegram has accepted the code or the password
LEMMA SignsInKeepsInv ==
    ASSUME Inv, TypeOK', NEW u \in User, NEW s \in Slot, NEW from,
           Trusted(handler[u][s].on), SignsIn(u, s, from), UNCHANGED <<row, data>>
    PROVE  Inv'
<1> DEFINE d == data[u]
           c == handler[u][s].on
           h == [handler[u][s] EXCEPT !.at = "saving", !.login = d.client,
                    !.phone = d.phone, !.owner = Target(u, d), !.then = from]
<1>1. TypeOK /\ DataQuiet /\ RowsQuiet /\ d \in Data /\ handler[u][s] \in Handler
  BY NothingQuiet DEF Inv, TypeOK
<1>2. ClientsQuiet
  <2> SUFFICES ASSUME NEW k \in Client
               PROVE  /\ client'[k].by = client[k].by /\ client'[k].phone = client[k].phone
                      /\ client'[k].signed # "no" => Trusted(k)
    BY DEF ClientsQuiet
  <2>1. client' = [client EXCEPT ![c] = [client[c] EXCEPT !.signed = "yes"]]
    BY DEF SignsIn
  <2>2. client[k] \in Connection /\ client \in [Client -> Connection]
    BY <1>1 DEF TypeOK
  <2>3. CASE k = c
    <3>1. client'[k] = [client[k] EXCEPT !.signed = "yes"]
      BY <2>1, <2>2, <2>3
    <3> QED BY <2>2, <2>3, <3>1 DEF Connection
  <2>4. CASE k # c
    BY <2>1, <2>2, <2>4 DEF Trusted
  <2> QED BY <2>3, <2>4
<1>3. CASE Errs(u, s, from)
  BY <1>1, <1>2, <1>3, ErrsQuiet, QuietStep
<1>4. CASE /\ d.client # None
           /\ (client[d.client].signed = "yes" \/ d.client = c)
           /\ GoesTo(u, s, h)
  <2>1. /\ h.at = "saving" /\ h.login = d.client /\ h.phone = d.phone
        /\ h.owner = Target(u, d)
    BY <1>1 DEF Handler
  <2> HIDE DEF h
  <2>2. /\ handler'[u][s] = h
        /\ \A v \in User, r \in Slot :
              ~(v = u /\ r = s) => handler'[v][r] = handler[v][r]
    BY <1>1, <1>4 DEF GoesTo, TypeOK
  <2>3. \A v \in User, r \in Slot :
           handler'[v][r] = handler[v][r] \/ handler'[v][r].at # "signing"
    BY <2>1, <2>2
  <2>4. OwnClient' /\ PhoneFits' /\ SessionsMatch'
    BY <1>1, <1>2, <2>3, TrustKept, OwnClientKept, PhoneFitsKept, SessionsKept DEF Inv
  <2>5. d.client \in Client /\ d.phone = client[d.client].phone
    <3>1. Trusted(d.client)
      BY <1>4 DEF Trusted
    <3> QED BY <1>1, <1>4, <3>1 DEF PhoneFits, Inv, Data
  <2>6. Target(u, d) # None
    BY <1>1, TargetTyped, NoneAssumption
  <2>7. SavesFit'
    <3> SUFFICES ASSUME NEW v \in User, NEW r \in Slot, handler'[v][r].at = "saving"
                 PROVE  /\ handler'[v][r].login # None /\ handler'[v][r].owner # None
                        /\ client'[handler'[v][r].login].phone = handler'[v][r].phone
      BY DEF SavesFit
    <3>1. CASE v = u /\ r = s
      BY <1>2, <1>4, <2>1, <2>2, <2>5, <2>6, <3>1 DEF ClientsQuiet
    <3>2. CASE ~(v = u /\ r = s)
      <4>1. handler'[v][r] = handler[v][r]
        BY <2>2, <3>2
      <4>2. /\ handler[v][r].login # None /\ handler[v][r].owner # None
            /\ client[handler[v][r].login].phone = handler[v][r].phone
        BY <4>1 DEF SavesFit, Inv
      <4>3. handler[v][r] \in Handler
        BY <1>1 DEF TypeOK
      <4>4. handler[v][r].login \in Client
        BY <4>2, <4>3 DEF Handler
      <4> QED BY <1>2, <4>1, <4>2, <4>4 DEF ClientsQuiet
    <3> QED BY <3>1, <3>2
  <2> QED BY <2>4, <2>7 DEF Inv
<1> QED BY <1>3, <1>4 DEF SignsIn, Completes, IsConnected

LEMMA SignInKeepsInv ==
    ASSUME Inv, TypeOK', NEW u \in User, NEW s \in Slot, SignInEnds(u, s)
    PROVE  Inv'
<1> DEFINE h == handler[u][s]
<1>1. TypeOK /\ DataQuiet /\ RowsQuiet /\ UNCHANGED <<row, data>> /\ h.at = "signing"
  BY NothingQuiet DEF SignInEnds, At, ownerVars, Inv
<1>2. CASE client[h.on].phone = h.phone /\ SignsIn(u, s, "code")
  <2>1. Trusted(h.on)
    BY <1>1, <1>2 DEF Trusted
  <2> QED BY <1>1, <1>2, <2>1, SignsInKeepsInv
<1>3. CASE /\ client[h.on].phone = h.phone /\ Replies(u, s, "password", "keep")
           /\ client' = [client EXCEPT ![h.on].signed = IF @ = "yes" THEN @ ELSE "half"]
  <2>1. Trusted(h.on)
    BY <1>1, <1>3 DEF Trusted
  <2>2. ClientsQuiet
    <3> SUFFICES ASSUME NEW k \in Client
                 PROVE  /\ client'[k].by = client[k].by /\ client'[k].phone = client[k].phone
                        /\ client'[k].signed # "no" => Trusted(k)
      BY DEF ClientsQuiet
    <3>1. client[k] \in Connection /\ client \in [Client -> Connection]
      BY <1>1 DEF TypeOK
    <3>2. CASE k = h.on
      <4>1. client'[k] = [client[k] EXCEPT !.signed = IF @ = "yes" THEN @ ELSE "half"]
        BY <1>3, <3>1, <3>2
      <4> QED BY <2>1, <3>1, <3>2, <4>1 DEF Connection
    <3>3. CASE k # h.on
      BY <1>3, <3>1, <3>3 DEF Trusted
    <3> QED BY <3>2, <3>3
  <2> QED BY <1>1, <1>3, <2>2, RepliesQuiet, QuietStep
<1>4. CASE (Replies(u, s, "code", "keep") \/ Errs(u, s, "code")) /\ UNCHANGED client
  BY <1>1, <1>4, RepliesQuiet, ErrsQuiet, NothingQuiet, QuietStep
<1> QED BY <1>2, <1>3, <1>4 DEF SignInEnds

LEMMA PasswordKeepsInv ==
    ASSUME Inv, TypeOK', NEW u \in User, NEW s \in Slot, PasswordEnds(u, s)
    PROVE  Inv'
<1> DEFINE h == handler[u][s]
<1>1. TypeOK /\ DataQuiet /\ RowsQuiet /\ UNCHANGED <<row, data>>
  BY NothingQuiet DEF PasswordEnds, ownerVars, Inv
<1>2. CASE client[h.on].signed # "no" /\ SignsIn(u, s, "password")
  <2>1. Trusted(h.on)
    BY <1>2 DEF Trusted
  <2> QED BY <1>1, <1>2, <2>1, SignsInKeepsInv
<1>3. ASSUME NEW from \in {"code", "password"}, Errs(u, s, from), UNCHANGED client
      PROVE  Inv'
  BY <1>1, <1>3, ErrsQuiet, NothingQuiet, QuietStep
<1> QED BY <1>2, <1>3 DEF PasswordEnds

LEMMA SavesKeepsInv ==
    ASSUME Inv, TypeOK', NEW u \in User, NEW s \in Slot, Saves(u, s)
    PROVE  Inv'
<1> DEFINE h == handler[u][s]
           p == h.phone
<1>1. /\ TypeOK /\ DataQuiet /\ h \in Handler /\ h.at = "saving"
      /\ client[h.login].phone = p
  BY NothingQuiet DEF Saves, At, SavesFit, Inv, TypeOK
<1>2. ClientsQuiet
  BY <1>1, DisconnectsQuiet DEF Saves
<1>3. [h EXCEPT !.at = "telling"].at = "telling"
  BY <1>1 DEF Handler
<1>4. HandlersQuiet
  BY <1>1, <1>3, GoesToQuiet DEF Saves
<1>5. SessionsMatch'
  <2>1. CASE UNCHANGED ownerVars
    BY <2>1, NothingQuiet, SessionsKept DEF ownerVars, Inv
  <2>2. CASE row' = [row EXCEPT ![p] = [owner |-> h.owner, deleted |-> FALSE, session |-> p]]
    <3>1. row \in [Phone -> Row \cup {None}]
      BY <1>1 DEF TypeOK, OwnersTypeOK
    <3> QED BY <2>2, <3>1 DEF SessionsMatch, Inv
  <2> QED BY <1>1, <2>1, <2>2 DEF Saves, AddManagedAccount
<1>6. OwnClient' /\ SavesFit'
  BY <1>1, <1>2, <1>4, OwnClientKept, SavesFitKept DEF Inv
<1>7. PhoneFits'
  BY <1>1, <1>2, <1>4, TrustKept, PhoneFitsKept DEF HandlersQuiet, Inv
<1> QED BY <1>5, <1>6, <1>7 DEF Inv

LEMMA OthersKeepInv ==
    ASSUME Inv, TypeOK', Restarts \/ Elsewhere \/ \E u \in User : TimesOut(u)
    PROVE  Inv'
<1>1. TypeOK
  BY DEF Inv
<1>2. CASE Restarts
  <2>1. Idle.at = "idle" /\ NoData.client = None
    BY DEF Idle, NoData
  <2>2. /\ \A v \in User : data'[v].client = None
        /\ \A v \in User, r \in Slot : handler'[v][r].at = "idle"
        /\ row' = row
    BY <1>2, <2>1 DEF Restarts, ownerVars
  <2> QED BY <2>2 DEF OwnClient, PhoneFits, SavesFit, SessionsMatch, Inv
<1>3. CASE Elsewhere
  <2>1. HandlersQuiet /\ DataQuiet /\ ClientsQuiet
    BY <1>1, <1>3, NothingQuiet DEF Elsewhere, talkVars
  <2>2. ASSUME NEW u \in User, NEW p \in Phone, DeleteManagedAccount(u, p)
        PROVE  RowsQuiet
    <3>1. row[p] \in Row /\ row \in [Phone -> Row \cup {None}] /\ row[p] # None
      BY <1>1, <2>2 DEF DeleteManagedAccount, IsOwner, Accounts, TypeOK, OwnersTypeOK
    <3>2. row' = [row EXCEPT ![p] = [row[p] EXCEPT !.deleted = TRUE]]
      BY <2>2 DEF DeleteManagedAccount
    <3>3. [row[p] EXCEPT !.deleted = TRUE].session = row[p].session
      BY <3>1 DEF Row
    <3> QED BY <3>1, <3>2, <3>3 DEF RowsQuiet
  <2>3. RowsQuiet
    BY <1>3, <2>2, NothingQuiet DEF Elsewhere, SubscriptionChanges
  <2> QED BY <2>1, <2>3, QuietStep
<1>4. ASSUME NEW u \in User, TimesOut(u)
      PROVE  Inv'
  BY <1>1, <1>4, NothingQuiet, QuietStep DEF TimesOut, ownerVars
<1> QED BY <1>2, <1>3, <1>4

-----------------------------------------------------------------------------
(***************************************************************************)
(* The theorems.                                                           *)
(***************************************************************************)
LEMMA InitInv == Init => Inv
<1> SUFFICES ASSUME Init PROVE Inv
  OBVIOUS
<1>1. Idle.at = "idle" /\ NoData.client = None /\ NoConnection \in Connection
  BY DEF Idle, NoData, NoConnection, Connection
<1>2. TypeOK
  BY <1>1, IdleTyped, NoDataTyped, EventsAssumption
     DEF Init, OwnersInit, TypeOK, OwnersTypeOK, States
<1>3. /\ \A v \in User : data[v].client = None
      /\ \A v \in User, r \in Slot : handler[v][r].at = "idle"
      /\ \A p \in Phone : row[p] = None
  BY <1>1 DEF Init, OwnersInit
<1> QED BY <1>2, <1>3 DEF Inv, OwnClient, PhoneFits, SavesFit, SessionsMatch

LEMMA NextKeepsInv ==
    ASSUME Inv, [Next]_vars
    PROVE  Inv'
<1>1. TypeOK /\ TypeOK'
  BY TypeStep DEF Inv
<1>2. CASE Happens
  <2>1. ASSUME NEW u \in User, Updates(u)
        PROVE  Inv'
    BY <1>1, <2>1, UpdatesQuiet, CodeKeepsInv, QuietStep DEF Quiet
  <2> QED BY <1>1, <1>2, <2>1, OthersKeepInv DEF Happens
<1>3. ASSUME NEW u \in User, NEW s \in Slot, GoesOn(u, s)
      PROVE  Inv'
  <2>1. \/ Quiet \/ SignInEnds(u, s) \/ PasswordEnds(u, s) \/ Saves(u, s)
        \/ \E c \in Client : CodeSent(u, s, c)
    BY <1>1, <1>3, GoesOnQuiet DEF GoesOn
  <2> QED BY <1>1, <2>1, QuietStep, SignInKeepsInv, PasswordKeepsInv, SavesKeepsInv,
             CodeSentKeepsInv DEF Quiet
<1>4. CASE UNCHANGED vars
  BY <1>1, <1>4, NothingQuiet, QuietStep DEF vars, ownerVars, talkVars
<1> QED BY <1>2, <1>3, <1>4 DEF Next

LEMMA InvHolds == Spec => []Inv
  BY InitInv, NextKeepsInv, PTL DEF Spec

\* Every variable keeps its type.  That a row only ever gets a number for its
\* session, and a user for its owner, needs the whole invariant: it is what
\* async_complete_login read from user_data after its await
\* (user_handlers.py:1199-1205).
THEOREM TypeCorrect == Spec => []TypeOK
<1>1. Inv => TypeOK
  BY DEF Inv
<1> QED BY <1>1, InvHolds, PTL

\* However many updates of however many users are handled at the same time, a
\* number's row holds the session of that number (add_managed_account,
\* database.py:786, called at user_handlers.py:1207 with the client and the number
\* that user_data held once the sign-in was over).
THEOREM SavedSessionsMatch == Spec => []SessionsMatch
<1>1. Inv => SessionsMatch
  BY DEF Inv
<1> QED BY <1>1, InvHolds, PTL
-----------------------------------------------------------------------------
(***************************************************************************)
(* Whose list a number stands on.                                          *)
(***************************************************************************)
\* The step takes no number that has a row from its owner.
OwnersStay == \A p \in Phone : row[p] # None => row'[p].owner = row[p].owner

LEMMA SavingKeepsOwners ==
    ASSUME TypeOK, NEW u \in User, NEW p, NEW session, AddManagedAccount(u, p, session)
    PROVE  OwnersStay
<1>1. row \in [Phone -> Row \cup {None}]
  BY DEF TypeOK, OwnersTypeOK
<1>2. CASE UNCHANGED ownerVars
  BY <1>2 DEF ownerVars, OwnersStay
<1>3. CASE /\ CanAdd(u, p)
           /\ row' = [row EXCEPT ![p] = [owner |-> u, deleted |-> FALSE, session |-> session]]
  <2> SUFFICES ASSUME NEW q \in Phone, row[q] # None PROVE row'[q].owner = row[q].owner
    BY DEF OwnersStay
  <2>1. CASE q = p
    BY <1>1, <1>3, <2>1 DEF CanAdd
  <2>2. CASE q # p
    BY <1>1, <1>3, <2>2
  <2> QED BY <2>1, <2>2
<1> QED BY <1>2, <1>3 DEF AddManagedAccount

LEMMA DeletingKeepsOwners ==
    ASSUME TypeOK, NEW u \in User, NEW p \in Phone, DeleteManagedAccount(u, p)
    PROVE  OwnersStay
<1>1. row \in [Phone -> Row \cup {None}] /\ row[p] # None
  BY DEF TypeOK, OwnersTypeOK, DeleteManagedAccount, IsOwner, Accounts
<1>2. row[p] \in Row
  BY <1>1
<1> SUFFICES ASSUME NEW q \in Phone, row[q] # None PROVE row'[q].owner = row[q].owner
  BY DEF OwnersStay
<1>3. row' = [row EXCEPT ![p] = [row[p] EXCEPT !.deleted = TRUE]]
  BY DEF DeleteManagedAccount
<1>4. [row[p] EXCEPT !.deleted = TRUE].owner = row[p].owner
  BY <1>2 DEF Row
<1> QED BY <1>1, <1>3, <1>4

LEMMA GoingOnKeepsOwners ==
    ASSUME Inv, NEW u \in User, NEW s \in Slot, GoesOn(u, s)
    PROVE  OwnersStay \/ UNCHANGED row
<1>1. CASE Saves(u, s)
  <2>1. TypeOK /\ handler[u][s].at = "saving" /\ handler[u][s].owner # None
    BY <1>1 DEF Saves, At, Inv, SavesFit
  <2>2. handler[u][s].owner \in User
    BY <2>1 DEF TypeOK, Handler
  <2> QED BY <1>1, <2>1, <2>2, SavingKeepsOwners DEF Saves
<1> QED BY <1>1
    DEF GoesOn, Replied, ReplyFails, Greeted, Named, Dropped, SendFails, CodeSent,
        SignInEnds, PasswordEnds, Told, Quits, Cancelled, Moved, ownerVars

\* The one update that moves a number
LEMMA MovingIsTheOwners ==
    ASSUME TypeOK, NEW u \in User, NEW s \in Slot, NEW recipient \in User,
           ReceiveTransferRecipient(u, s, recipient),
           NEW p \in Phone, row[p] # None, row'[p].owner # row[p].owner
    PROVE  /\ ~row[p].deleted /\ row[p].owner = u /\ u \in awaiting /\ data[u].moving = p
           /\ row'[p].owner = recipient /\ HasRoom(recipient)
<1> DEFINE q == data[u].moving
<1>1. /\ u \in awaiting /\ MayTransfer(u, q, recipient)
      /\ row' = [row EXCEPT ![q].owner = recipient]
  BY DEF ReceiveTransferRecipient, Transfer, ownerVars
<1>2. row \in [Phone -> Row \cup {None}] /\ row[p] \in Row
  BY DEF TypeOK, OwnersTypeOK
<1>3. q = p
  BY <1>1, <1>2
<1>4. row'[p].owner = recipient
  BY <1>1, <1>2, <1>3 DEF Row
<1> QED BY <1>1, <1>3, <1>4 DEF MayTransfer, IsOwner, Accounts

LEMMA UpdatesMoveTheOwners ==
    ASSUME TypeOK, NEW u \in User, Updates(u)
    PROVE  \/ UNCHANGED row
           \/ \E s \in Slot, recipient \in User : ReceiveTransferRecipient(u, s, recipient)
  BY DEF Updates, Start, AddAccountStart, AddAccountChooseOwner, ReceiveTargetUserId,
         ReceivePhoneNumber, ReceivePhoneCode, ReceivePassword, Cancel,
         TransferAccountStart, CancelTransfer, ownerVars

\* A number leaves a list only in a step of the owner who is moving it, for a list
\* with room: receive_transfer_recipient has transfer_managed_account look at the
\* owner and at the plan again (database.py:1867), and no login that was begun
\* before, no deletion and no restart in between gives a number to another.
THEOREM NumbersMoveWithTheirOwners == Spec => MovesAreTheOwners
<1> DEFINE Fits(p) == LET from == row[p].owner to == row'[p].owner IN
          row[p] # None /\ to # from =>
              /\ ~row[p].deleted /\ from \in awaiting /\ data[from].moving = p
              /\ HasRoom(to)
<1>1. ASSUME Inv, [Next]_vars, NEW p \in Phone PROVE Fits(p)
  <2>0. TypeOK
    BY <1>1 DEF Inv
  <2>1. CASE OwnersStay \/ UNCHANGED row
    BY <2>1 DEF OwnersStay
  <2>2. ASSUME NEW u \in User, Updates(u) PROVE Fits(p)
    BY <2>0, <2>1, <2>2, UpdatesMoveTheOwners, MovingIsTheOwners
  <2>3. CASE Happens
    <3>1. CASE Restarts \/ \E u \in User : TimesOut(u)
      BY <2>1, <3>1 DEF Restarts, TimesOut, ownerVars
    <3>2. CASE Elsewhere
      BY <2>0, <2>1, <3>2, DeletingKeepsOwners DEF Elsewhere, SubscriptionChanges
    <3> QED BY <2>2, <2>3, <3>1, <3>2 DEF Happens
  <2>4. ASSUME NEW u \in User, NEW s \in Slot, GoesOn(u, s) PROVE Fits(p)
    BY <1>1, <2>1, <2>4, GoingOnKeepsOwners
  <2>5. CASE UNCHANGED vars
    BY <2>1, <2>5 DEF vars, ownerVars
  <2> QED BY <1>1, <2>3, <2>4, <2>5 DEF Next
<1>2. Inv /\ [Next]_vars => [\A p \in Phone : Fits(p)]_vars
  BY <1>1
<1> QED BY <1>2, InvHolds, PTL DEF Spec, MovesAreTheOwners
-----------------------------------------------------------------------------
(***************************************************************************)
(* One handler at a time: what holds for a user as long as no two of his   *)
(* handlers were in flight together.                                       *)
(***************************************************************************)
Overlapped(u) == "overlap" \in disturbed[u]

OneHandler(u) == ~Overlapped(u) => \A s, r \in Busy(u) : s = r

\* The states in which a number was asked for
Past == {"phone", "code", "password"}

Aimed(u) == asked[u] = Target(u, data[u])

\* From the prompt to the row, user_data names the owner the prompt was for.
AimFits(u, s) ==
    LET h == handler[u][s] IN
    /\ h.at \in {"dropping", "sending", "signing", "checking", "saving", "telling"} => Aimed(u)
    /\ h.at = "replying" /\ h.then \in Past => h.tidy = "keep" /\ Aimed(u)
    /\ h.at = "saving" => h.owner = asked[u]
    /\ h.at = "moved" => conv[u] \notin Past

\* Nothing raised, either
AimInv(u) == disturbed[u] = {} =>
    /\ Busy(u) = {} /\ conv[u] \in Past => Aimed(u)
    /\ \A s \in Slot : AimFits(u, s)

\* The user's connected clients: none beside the one in user_data, or none at all
OneOpen(u) == \A c \in Client : client[c].by = u /\ client[c].connected => data[u].client = c
NoneOpen(u) == \A c \in Client : ~(client[c].by = u /\ client[c].connected)

\* A handler works on the client in user_data, and forgets it only disconnected.
ClientFits(u, s) ==
    LET h == handler[u][s] IN
    /\ h.at \in {"greeting", "dropping", "signing", "checking", "saving", "telling",
                 "quitting", "cancelling"} => h.on = data[u].client
    /\ h.at = "saving" => h.login = data[u].client
    /\ h.at \in {"sending", "telling"} \/ (h.at = "replying" /\ h.tidy = "clear") => NoneOpen(u)

ClientInv(u) == ~Overlapped(u) => OneOpen(u) /\ \A s \in Slot : ClientFits(u, s)

CourseInv == \A u \in User : OneHandler(u) /\ AimInv(u) /\ ClientInv(u)

\* The handler of u in slot s moves, and no other.
Turn(u, s) ==
    /\ \A r \in Slot \ {s} : handler'[u][r] = handler[u][r]
    /\ Begins(u, s) \/ (handler[u][s].at # "idle" /\ disturbed[u] \subseteq disturbed'[u])

\* Nobody else's conversation moves, and no client of his is connected.
OthersStay(u) == \A v \in User \ {u} :
    /\ conv'[v] = conv[v] /\ data'[v] = data[v] /\ handler'[v] = handler[v]
    /\ asked'[v] = asked[v] /\ disturbed'[v] = disturbed[v]

OpensOnlyFor(u) == \A c \in Client :
    client'[c].connected => \/ client[c].connected /\ client'[c].by = client[c].by
                            \/ client'[c].by = u

\* An update that begins a login handler in slot s
Dispatched(u, s) ==
    \/ \E owner \in User \cup {None} : Start(u, s, owner)
    \/ AddAccountStart(u, s) \/ AddAccountChooseOwner(u, s) \/ ReceiveTargetUserId(u, s)
    \/ \E p \in Phone \cup {None} : ReceivePhoneNumber(u, s, p)
    \/ ReceivePhoneCode(u, s) \/ ReceivePassword(u, s) \/ Cancel(u, s)

\* What a turn has to leave of the slot
AimLeft(u, s) == AimFits(u, s)' /\ (handler'[u][s].at = "idle" /\ conv'[u] \in Past => Aimed(u)')
ClientLeft(u, s) == OneOpen(u)' /\ ClientFits(u, s)'

\* What a turn finds
AimFound(u, s) == IF handler[u][s].at = "idle" THEN conv[u] \in Past => Aimed(u) ELSE AimFits(u, s)
ClientFound(u, s) == OneOpen(u) /\ ClientFits(u, s)

LEMMA GoesToAt ==
    ASSUME TypeOK, NEW u \in User, NEW s \in Slot, NEW h, GoesTo(u, s, h)
    PROVE  /\ handler'[u][s] = h /\ conv' = conv
           /\ \A r \in Slot \ {s} : handler'[u][r] = handler[u][r]
           /\ \A v \in User \ {u} : handler'[v] = handler[v]
<1>1. handler' = [handler EXCEPT ![u] = [handler[u] EXCEPT ![s] = h]]
  BY DEF GoesTo
<1> QED BY <1>1 DEF TypeOK, GoesTo

LEMMA RepliesAt ==
    ASSUME TypeOK, NEW u \in User, NEW s \in Slot, NEW then, NEW tidy, Replies(u, s, then, tidy)
    PROVE  /\ handler'[u][s].at = "replying" /\ handler'[u][s].then = then
           /\ handler'[u][s].tidy = tidy /\ conv' = conv
           /\ \A r \in Slot \ {s} : handler'[u][r] = handler[u][r]
           /\ \A v \in User \ {u} : handler'[v] = handler[v]
<1> DEFINE h == [Idle EXCEPT !.at = "replying", !.then = then, !.tidy = tidy]
<1>1. h.at = "replying" /\ h.then = then /\ h.tidy = tidy
  BY DEF Idle
<1>2. GoesTo(u, s, h)
  BY DEF Replies
<1> HIDE DEF h
<1> QED BY <1>1, <1>2, GoesToAt

LEMMA ReturnsAt ==
    ASSUME TypeOK, NEW u \in User, NEW s \in Slot, handler' = [handler EXCEPT ![u][s] = Idle]
    PROVE  /\ handler'[u][s].at = "idle"
           /\ \A r \in Slot \ {s} : handler'[u][r] = handler[u][r]
           /\ \A v \in User \ {u} : handler'[v] = handler[v]
<1>1. Idle.at = "idle"
  BY DEF Idle
<1>2. handler' = [handler EXCEPT ![u] = [handler[u] EXCEPT ![s] = Idle]]
  OBVIOUS
<1> QED BY <1>1, <1>2 DEF TypeOK

LEMMA KeepsAt ==
    ASSUME TypeOK, NEW u \in User, NEW d, Keeps(u, d)
    PROVE  data'[u] = d /\ \A v \in User \ {u} : data'[v] = data[v]
  BY DEF TypeOK, Keeps

LEMMA ForgetsAt ==
    ASSUME TypeOK, NEW u \in User, NEW s \in Slot, NEW p, Forgets(u, s, p)
    PROVE  handler'[u][s].at = "sending"
<1> DEFINE h == [Idle EXCEPT !.at = "sending", !.phone = p]
<1>1. h.at = "sending" /\ GoesTo(u, s, h)
  BY DEF Idle, Forgets
<1> HIDE DEF h
<1> QED BY <1>1, GoesToAt

-----------------------------------------------------------------------------
\* Whom the number is for, block by block
LEMMA PromptsAims ==
    ASSUME TypeOK, NEW u \in User, NEW s \in Slot, NEW d \in Data, Prompts(u, s, d)
    PROVE  AimLeft(u, s)
<1>1. data'[u] = d
  BY KeepsAt DEF Prompts
<1>2. CASE HasRoom(Target(u, d))
  <2>1. asked'[u] = Target(u, d) /\ Replies(u, s, "phone", "keep")
    BY <1>2 DEF Prompts, TypeOK
  <2>2. Aimed(u)'
    BY <1>1, <2>1 DEF Aimed, Target
  <2> QED BY <2>1, <2>2, RepliesAt DEF AimLeft, AimFits
<1>3. CASE ~HasRoom(Target(u, d))
  <2>1. Replies(u, s, "end", "drop_for")
    BY <1>3 DEF Prompts
  <2> QED BY <2>1, RepliesAt DEF AimLeft, AimFits, Past
<1> QED BY <1>2, <1>3

LEMMA GreetsAims ==
    ASSUME TypeOK, NEW u \in User, NEW s \in Slot, NEW owner \in User \cup {None},
           Greets(u, s, owner)
    PROVE  AimLeft(u, s)
<1>1. [NoData EXCEPT !.for = owner] \in Data
  BY DEF NoData, Data
<1>2. CASE Prompts(u, s, [NoData EXCEPT !.for = owner])
  BY <1>1, <1>2, PromptsAims
<1>3. CASE Replies(u, s, "end", "keep")
  BY <1>3, RepliesAt DEF AimLeft, AimFits, Past
<1> QED BY <1>2, <1>3 DEF Greets

LEMMA ForgetsAims ==
    ASSUME TypeOK, NEW u \in User, NEW s \in Slot, NEW p, Forgets(u, s, p), Aimed(u),
           UNCHANGED asked
    PROVE  AimLeft(u, s)
<1>1. data'[u] = [data[u] EXCEPT !.client = None, !.phone = p] /\ data[u] \in Data
  BY KeepsAt DEF Forgets, TypeOK
<1>2. data'[u].for = data[u].for
  BY <1>1 DEF Data
<1>3. Aimed(u)'
  BY <1>2 DEF Aimed, Target
<1>4. handler'[u][s].at = "sending"
  BY ForgetsAt
<1> QED BY <1>3, <1>4 DEF AimLeft, AimFits

LEMMA ErrsAims ==
    ASSUME TypeOK, NEW u \in User, NEW s \in Slot, NEW from, Errs(u, s, from), Aimed(u)'
    PROVE  AimLeft(u, s)
<1>1. handler[u][s] \in Handler
  BY DEF TypeOK
<1>2. CASE GoesTo(u, s, [handler[u][s] EXCEPT !.at = "quitting"])
  <2>1. handler'[u][s].at = "quitting"
    BY <1>1, <1>2, GoesToAt DEF Handler
  <2> QED BY <2>1 DEF AimLeft, AimFits
<1>3. CASE Replies(u, s, "password", "keep")
  BY <1>3, RepliesAt DEF AimLeft, AimFits, Past
<1> QED BY <1>2, <1>3 DEF Errs

LEMMA CompletesAims ==
    ASSUME TypeOK, NEW u \in User, NEW s \in Slot, NEW from, NEW signed,
           Completes(u, s, from, signed), Aimed(u), UNCHANGED <<data, asked>>
    PROVE  AimLeft(u, s)
<1> DEFINE h == [handler[u][s] EXCEPT !.at = "saving", !.login = data[u].client,
                    !.phone = data[u].phone, !.owner = Target(u, data[u]), !.then = from]
<1>1. Aimed(u)'
  BY DEF Aimed, Target
<1>2. CASE GoesTo(u, s, h)
  <2>1. handler[u][s] \in Handler
    BY DEF TypeOK
  <2>2. h.at = "saving" /\ h.owner = Target(u, data[u])
    BY <2>1 DEF Handler
  <2> HIDE DEF h
  <2>3. handler'[u][s] = h
    BY <1>2, GoesToAt
  <2> QED BY <1>1, <2>2, <2>3 DEF AimLeft, AimFits, Aimed
<1>3. CASE Errs(u, s, from)
  BY <1>1, <1>3, ErrsAims
<1> QED BY <1>2, <1>3 DEF Completes

\* Updates that begin a handler
LEMMA BeginningAims ==
    ASSUME TypeOK, NEW u \in User, NEW s \in Slot, conv[u] \in Past => Aimed(u),
           Dispatched(u, s)
    PROVE  AimLeft(u, s)
<1>0. data[u] \in Data
  BY DEF TypeOK
<1>1. ASSUME NEW owner \in User \cup {None}, Start(u, s, owner) PROVE AimLeft(u, s)
  <2>1. CASE Greets(u, s, owner)
    BY <2>1, GreetsAims
  <2>2. CASE GoesTo(u, s, [Idle EXCEPT !.at = "greeting", !.on = data[u].client,
                                       !.owner = owner])
    <3> DEFINE h == [Idle EXCEPT !.at = "greeting", !.on = data[u].client, !.owner = owner]
    <3>1. h.at = "greeting"
      BY DEF Idle
    <3> HIDE DEF h
    <3>2. handler'[u][s] = h
      BY <2>2, GoesToAt DEF h
    <3> QED BY <3>1, <3>2 DEF AimLeft, AimFits
  <2> QED BY <1>1, <2>1, <2>2 DEF Start
<1>2. CASE AddAccountStart(u, s)
  BY <1>2, RepliesAt DEF AddAccountStart, AimLeft, AimFits, Past
<1>3. CASE AddAccountChooseOwner(u, s)
  <2>1. [data[u] EXCEPT !.for = None] \in Data
    BY <1>0 DEF Data
  <2>2. CASE Replies(u, s, "target", "keep")
    BY <2>2, RepliesAt DEF AimLeft, AimFits, Past
  <2> QED BY <1>3, <2>1, <2>2, PromptsAims DEF AddAccountChooseOwner
<1>4. CASE ReceiveTargetUserId(u, s)
  <2>1. CASE Replies(u, s, "target", "keep")
    BY <2>1, RepliesAt DEF AimLeft, AimFits, Past
  <2>2. CASE GoesTo(u, s, [Idle EXCEPT !.at = "naming"])
    <3>1. handler'[u][s].at = "naming"
      BY <2>2, GoesToAt DEF Idle
    <3> QED BY <3>1 DEF AimLeft, AimFits
  <2> QED BY <1>4, <2>1, <2>2 DEF ReceiveTargetUserId
<1>5. ASSUME conv[u] \in Past, UNCHANGED <<data, asked>> PROVE Aimed(u)'
  BY <1>5 DEF Aimed, Target
<1>6. ASSUME NEW p \in Phone \cup {None}, ReceivePhoneNumber(u, s, p) PROVE AimLeft(u, s)
  <2>1. conv[u] \in Past /\ Aimed(u) /\ UNCHANGED asked
    BY <1>6 DEF ReceivePhoneNumber, Past
  <2>2. CASE Replies(u, s, "phone", "keep") /\ UNCHANGED data
    BY <1>5, <2>1, <2>2, RepliesAt DEF AimLeft, AimFits, Past
  <2>3. CASE GoesTo(u, s, [Idle EXCEPT !.at = "dropping", !.on = data[u].client, !.phone = p])
             /\ UNCHANGED data
    <3> DEFINE h == [Idle EXCEPT !.at = "dropping", !.on = data[u].client, !.phone = p]
    <3>1. h.at = "dropping"
      BY DEF Idle
    <3> HIDE DEF h
    <3>2. handler'[u][s] = h
      BY <2>3, GoesToAt DEF h
    <3> QED BY <1>5, <2>1, <2>3, <3>1, <3>2 DEF AimLeft, AimFits
  <2> QED BY <1>6, <2>1, <2>2, <2>3, ForgetsAims DEF ReceivePhoneNumber
<1>7. CASE ReceivePhoneCode(u, s)
  <2>1. conv[u] \in Past /\ UNCHANGED <<data, asked>>
    BY <1>7 DEF ReceivePhoneCode, Past
  <2>2. CASE Replies(u, s, "phone", "keep")
    BY <1>5, <2>1, <2>2, RepliesAt DEF AimLeft, AimFits, Past
  <2>3. CASE GoesTo(u, s, [Idle EXCEPT !.at = "signing", !.on = data[u].client,
                                       !.phone = data[u].phone])
    <3> DEFINE h == [Idle EXCEPT !.at = "signing", !.on = data[u].client,
                                 !.phone = data[u].phone]
    <3>1. h.at = "signing"
      BY DEF Idle
    <3> HIDE DEF h
    <3>2. handler'[u][s] = h
      BY <2>3, GoesToAt DEF h
    <3> QED BY <1>5, <2>1, <3>1, <3>2 DEF AimLeft, AimFits
  <2> QED BY <1>7, <2>2, <2>3 DEF ReceivePhoneCode
<1>8. CASE ReceivePassword(u, s)
  <2>1. conv[u] \in Past /\ UNCHANGED <<data, asked>>
    BY <1>8 DEF ReceivePassword, Past
  <2>2. CASE Replies(u, s, "end", "clear")
    BY <2>2, RepliesAt DEF AimLeft, AimFits, Past
  <2>3. CASE GoesTo(u, s, [Idle EXCEPT !.at = "checking", !.on = data[u].client])
    <3> DEFINE h == [Idle EXCEPT !.at = "checking", !.on = data[u].client]
    <3>1. h.at = "checking"
      BY DEF Idle
    <3> HIDE DEF h
    <3>2. handler'[u][s] = h
      BY <2>3, GoesToAt DEF h
    <3> QED BY <1>5, <2>1, <3>1, <3>2 DEF AimLeft, AimFits
  <2> QED BY <1>8, <2>2, <2>3 DEF ReceivePassword
<1>9. CASE Cancel(u, s)
  <2>1. CASE Replies(u, s, "end", "keep")
    BY <2>1, RepliesAt DEF AimLeft, AimFits, Past
  <2>2. CASE GoesTo(u, s, [Idle EXCEPT !.at = "cancelling", !.on = data[u].client])
    <3> DEFINE h == [Idle EXCEPT !.at = "cancelling", !.on = data[u].client]
    <3>1. h.at = "cancelling"
      BY DEF Idle
    <3> HIDE DEF h
    <3>2. handler'[u][s] = h
      BY <2>2, GoesToAt DEF h
    <3> QED BY <3>1, <3>2 DEF AimLeft, AimFits
  <2> QED BY <1>9, <2>1, <2>2 DEF Cancel
<1> QED BY <1>1, <1>2, <1>3, <1>4, <1>6, <1>7, <1>8, <1>9 DEF Dispatched

\* Handlers that go on, unless one raises
LEMMA GoingOnAims ==
    ASSUME TypeOK, NEW u \in User, NEW s \in Slot, AimFits(u, s), GoesOn(u, s)
    PROVE  ReplyFails(u, s) \/ AimLeft(u, s)
<1>0. data[u] \in Data /\ handler[u][s] \in Handler
  BY DEF TypeOK
<1>1. ASSUME Aimed(u), UNCHANGED <<data, asked>> PROVE Aimed(u)'
  BY <1>1 DEF Aimed, Target
<1>2. CASE Replied(u, s)
  <2>1. /\ conv'[u] = handler[u][s].then /\ UNCHANGED asked
        /\ handler' = [handler EXCEPT ![u][s] = Idle]
        /\ handler[u][s].at = "replying"
        /\ handler[u][s].tidy = "keep" => Keeps(u, data[u])
    BY <1>2 DEF Replied, Returns, At, TypeOK
  <2>2. handler'[u][s].at = "idle"
    BY <2>1, ReturnsAt
  <2>3. ASSUME conv'[u] \in Past PROVE Aimed(u)'
    <3>1. Aimed(u) /\ Keeps(u, data[u])
      BY <2>1, <2>3 DEF AimFits
    <3>2. data'[u] = data[u]
      BY <3>1, KeepsAt
    <3> QED BY <2>1, <3>1, <3>2 DEF Aimed, Target
  <2> QED BY <2>2, <2>3 DEF AimLeft, AimFits
<1>3. CASE Greeted(u, s)
  <2>1. handler[u][s].owner \in User \cup {None}
    BY <1>0 DEF Handler
  <2> QED BY <1>3, <2>1, GreetsAims DEF Greeted
<1>4. CASE Named(u, s)
  BY <1>0, <1>4, PromptsAims DEF Named
<1>5. CASE Dropped(u, s)
  BY <1>5, ForgetsAims DEF Dropped, At, AimFits
<1>6. CASE SendFails(u, s)
  <2>1. CASE \E tidy : Replies(u, s, "end", tidy)
    BY <2>1, RepliesAt DEF AimLeft, AimFits, Past
  <2>2. CASE Replies(u, s, "phone", "keep") /\ UNCHANGED data
    <3>1. Aimed(u)'
      BY <1>1, <1>6, <2>2 DEF SendFails, At, AimFits
    <3> QED BY <2>2, <3>1, RepliesAt DEF AimLeft, AimFits, Past
  <2> QED BY <1>6, <2>1, <2>2 DEF SendFails
<1>7. ASSUME NEW c \in Client, CodeSent(u, s, c) PROVE AimLeft(u, s)
  <2>1. Aimed(u) /\ Keeps(u, [data[u] EXCEPT !.client = c]) /\ UNCHANGED asked
        /\ Replies(u, s, "code", "keep")
    BY <1>7 DEF CodeSent, At, AimFits
  <2>2. data'[u].for = data[u].for
    BY <1>0, <2>1, KeepsAt DEF Data
  <2>3. Aimed(u)'
    BY <2>1, <2>2 DEF Aimed, Target
  <2> QED BY <2>1, <2>3, RepliesAt DEF AimLeft, AimFits, Past
<1>8. CASE SignInEnds(u, s)
  <2>1. Aimed(u) /\ UNCHANGED <<data, asked>>
    BY <1>8 DEF SignInEnds, At, AimFits
  <2>2. CASE \E then \in {"password", "code"} : Replies(u, s, then, "keep")
    BY <1>1, <2>1, <2>2, RepliesAt DEF AimLeft, AimFits, Past
  <2> QED BY <1>1, <1>8, <2>1, <2>2, ErrsAims, CompletesAims DEF SignInEnds, SignsIn
<1>9. CASE PasswordEnds(u, s)
  <2>1. Aimed(u) /\ UNCHANGED <<data, asked>>
    BY <1>9 DEF PasswordEnds, At, AimFits
  <2> QED BY <1>1, <1>9, <2>1, ErrsAims, CompletesAims DEF PasswordEnds, SignsIn
<1>10. CASE Saves(u, s)
  <2> DEFINE h == [handler[u][s] EXCEPT !.at = "telling"]
  <2>1. Aimed(u) /\ UNCHANGED <<data, asked>> /\ GoesTo(u, s, h)
    BY <1>10 DEF Saves, At, AimFits
  <2>2. h.at = "telling"
    BY <1>0 DEF Handler
  <2> HIDE DEF h
  <2> QED BY <1>1, <2>1, <2>2, GoesToAt DEF AimLeft, AimFits
<1>11. CASE Told(u, s)
  <2>1. Aimed(u) /\ UNCHANGED asked
    BY <1>11 DEF Told, At, AimFits
  <2>2. CASE Returns(u, s, "end")
    BY <2>2, ReturnsAt DEF Returns, AimLeft, AimFits, Past, TypeOK
  <2> QED BY <1>1, <1>11, <2>1, <2>2, ErrsAims DEF Told
<1>12. CASE Quits(u, s)
  BY <1>12, ReturnsAt DEF Quits, Returns, AimLeft, AimFits, Past, TypeOK
<1>13. CASE Cancelled(u, s)
  BY <1>13, RepliesAt DEF Cancelled, AimLeft, AimFits, Past
<1>14. CASE Moved(u, s)
  <2>1. handler'[u][s].at = "idle" /\ conv'[u] \notin Past
    BY <1>14, ReturnsAt DEF Moved, At, AimFits
  <2> QED BY <2>1 DEF AimLeft, AimFits
<1> QED BY <1>2, <1>3, <1>4, <1>5, <1>6, <1>7, <1>8, <1>9, <1>10, <1>11, <1>12, <1>13, <1>14
        DEF GoesOn

-----------------------------------------------------------------------------
\* The connected clients, block by block
LEMMA NoneIfNotThatOne ==
    ASSUME TypeOK, NEW u \in User, OneOpen(u), ~IsConnected(data[u].client)
    PROVE  NoneOpen(u)
  BY ClientAssumption DEF OneOpen, NoneOpen, IsConnected

LEMMA DisconnectsAll ==
    ASSUME TypeOK, NEW u \in User, OneOpen(u), Disconnects(data[u].client)
    PROVE  NoneOpen(u)'
<1> DEFINE c == data[u].client
<1>1. CASE c = None
  BY <1>1, ClientAssumption DEF Disconnects, OneOpen, NoneOpen
<1>2. CASE c # None
  <2>1. c \in Client /\ client[c] \in Connection
    BY <1>2 DEF TypeOK, Data
  <2>2. client' = [client EXCEPT ![c] = [client[c] EXCEPT !.connected = FALSE]]
    BY <1>2 DEF Disconnects
  <2>3. ~client'[c].connected /\ \A e \in Client \ {c} : client'[e] = client[e]
    BY <2>1, <2>2 DEF TypeOK, Connection
  <2> HIDE DEF c
  <2> QED BY <2>3 DEF OneOpen, NoneOpen, c
<1> QED BY <1>1, <1>2

LEMMA RepliesHolds ==
    ASSUME TypeOK, NEW u \in User, NEW s \in Slot, NEW then, NEW tidy, Replies(u, s, then, tidy),
           OneOpen(u)', tidy = "clear" => NoneOpen(u)'
    PROVE  ClientLeft(u, s)
  BY RepliesAt DEF ClientLeft, ClientFits

LEMMA PromptsHolds ==
    ASSUME TypeOK, NEW u \in User, NEW s \in Slot, NEW d, Prompts(u, s, d), OneOpen(u)'
    PROVE  ClientLeft(u, s)
  BY RepliesHolds DEF Prompts

LEMMA GreetsHolds ==
    ASSUME TypeOK, NEW u \in User, NEW s \in Slot, NEW owner, Greets(u, s, owner), NoneOpen(u)'
    PROVE  ClientLeft(u, s)
<1>1. OneOpen(u)'
  BY DEF OneOpen, NoneOpen
<1> QED BY <1>1, PromptsHolds, RepliesHolds DEF Greets

LEMMA ForgetsHolds ==
    ASSUME TypeOK, NEW u \in User, NEW s \in Slot, NEW p, Forgets(u, s, p), NoneOpen(u)'
    PROVE  ClientLeft(u, s)
<1>1. OneOpen(u)'
  BY DEF OneOpen, NoneOpen
<1> QED BY <1>1, ForgetsAt DEF ClientLeft, ClientFits

LEMMA WorksHolds ==
    ASSUME TypeOK, NEW u \in User, NEW s \in Slot, NEW h, GoesTo(u, s, h), OneOpen(u)',
           h.at \in {"greeting", "naming", "dropping", "signing", "checking", "cancelling",
                     "moved"},
           h.at \in {"naming", "moved"} \/ h.on = data'[u].client
    PROVE  ClientLeft(u, s)
<1>1. handler'[u][s] = h
  BY GoesToAt
<1> QED BY <1>1 DEF ClientLeft, ClientFits

LEMMA ErrsHolds ==
    ASSUME TypeOK, NEW u \in User, NEW s \in Slot, NEW from, Errs(u, s, from), OneOpen(u)',
           handler[u][s].on = data'[u].client
    PROVE  ClientLeft(u, s)
<1> DEFINE h == [handler[u][s] EXCEPT !.at = "quitting"]
<1>1. h.at = "quitting" /\ h.on = handler[u][s].on
  BY DEF TypeOK, Handler
<1>2. CASE GoesTo(u, s, h)
  <2> HIDE DEF h
  <2>1. handler'[u][s] = h
    BY <1>2, GoesToAt
  <2> QED BY <1>1, <2>1 DEF ClientLeft, ClientFits
<1>3. CASE Replies(u, s, "password", "keep")
  BY <1>3, RepliesHolds
<1> QED BY <1>2, <1>3 DEF Errs

LEMMA CompletesHolds ==
    ASSUME TypeOK, NEW u \in User, NEW s \in Slot, NEW from, NEW signed,
           Completes(u, s, from, signed), OneOpen(u)', UNCHANGED data,
           handler[u][s].on = data[u].client
    PROVE  ClientLeft(u, s)
<1> DEFINE h == [handler[u][s] EXCEPT !.at = "saving", !.login = data[u].client,
                    !.phone = data[u].phone, !.owner = Target(u, data[u]), !.then = from]
<1>1. h.at = "saving" /\ h.on = handler[u][s].on /\ h.login = data[u].client
  BY DEF TypeOK, Handler
<1>2. CASE GoesTo(u, s, h)
  <2> HIDE DEF h
  <2>1. handler'[u][s] = h
    BY <1>2, GoesToAt
  <2> QED BY <1>1, <2>1 DEF ClientLeft, ClientFits
<1>3. CASE Errs(u, s, from)
  BY <1>3, ErrsHolds
<1> QED BY <1>2, <1>3 DEF Completes

LEMMA IdleHolds ==
    ASSUME NEW u \in User, NEW s \in Slot, handler'[u][s].at = "idle", OneOpen(u)'
    PROVE  ClientLeft(u, s)
  BY DEF ClientLeft, ClientFits

\* The user's clients are as open as before.
LEMMA OpenAsBefore ==
    ASSUME NEW u \in User,
           \A c \in Client : /\ client'[c].by = client[c].by
                             /\ client'[c].connected => client[c].connected
    PROVE  /\ NoneOpen(u) => NoneOpen(u)' /\ OneOpen(u)'
           /\ OneOpen(u) /\ data'[u].client = data[u].client => OneOpen(u)'
  BY DEF OneOpen, NoneOpen

\* Updates that begin a handler
LEMMA BeginningHolds ==
    ASSUME TypeOK, NEW u \in User, NEW s \in Slot, OneOpen(u),
           Dispatched(u, s)
    PROVE  ClientLeft(u, s)
<1>0. data[u] \in Data /\ UNCHANGED client
  BY DEF TypeOK, Dispatched, Start, AddAccountStart, AddAccountChooseOwner,
         ReceiveTargetUserId, ReceivePhoneNumber, ReceivePhoneCode, ReceivePassword, Cancel
<1>1. /\ ~IsConnected(data[u].client) => NoneOpen(u)' /\ OneOpen(u)'
      /\ data'[u].client = data[u].client => OneOpen(u)'
  BY <1>0, NoneIfNotThatOne, OpenAsBefore
<1>2. ASSUME UNCHANGED data PROVE data'[u].client = data[u].client
  BY <1>2
<1>3. \A o \in User \cup {None} : [data[u] EXCEPT !.for = o].client = data[u].client
  BY <1>0 DEF Data
<1>4. ASSUME NEW o \in User \cup {None}, Keeps(u, [data[u] EXCEPT !.for = o])
      PROVE  data'[u].client = data[u].client
  BY <1>3, <1>4, KeepsAt
<1>5. ASSUME NEW owner \in User \cup {None}, Start(u, s, owner) PROVE ClientLeft(u, s)
  <2>1. CASE ~IsConnected(data[u].client)
    BY <1>1, <1>5, <2>1, GreetsHolds DEF Start
  <2>2. CASE IsConnected(data[u].client)
    <3> DEFINE h == [Idle EXCEPT !.at = "greeting", !.on = data[u].client, !.owner = owner]
    <3>1. h.at = "greeting" /\ h.on = data[u].client
      BY DEF Idle
    <3>2. GoesTo(u, s, h) /\ UNCHANGED data
      BY <1>5, <2>2 DEF Start
    <3> HIDE DEF h
    <3> QED BY <1>1, <1>2, <3>1, <3>2, WorksHolds
  <2> QED BY <2>1, <2>2
<1>6. CASE AddAccountStart(u, s)
  BY <1>1, <1>4, <1>6, RepliesHolds DEF AddAccountStart
<1>7. CASE AddAccountChooseOwner(u, s)
  <2>1. CASE Prompts(u, s, [data[u] EXCEPT !.for = None])
    BY <1>1, <1>4, <2>1, PromptsHolds DEF Prompts
  <2>2. CASE Replies(u, s, "target", "keep") /\ UNCHANGED data
    BY <1>1, <1>2, <2>2, RepliesHolds
  <2> QED BY <1>7, <2>1, <2>2 DEF AddAccountChooseOwner
<1>8. CASE ReceiveTargetUserId(u, s)
  <2>1. CASE Replies(u, s, "target", "keep") /\ UNCHANGED data
    BY <1>1, <1>2, <2>1, RepliesHolds
  <2>2. ASSUME NEW owner \in User \ {u}, Keeps(u, [data[u] EXCEPT !.for = owner]),
               GoesTo(u, s, [Idle EXCEPT !.at = "naming"])
        PROVE  ClientLeft(u, s)
    <3> DEFINE h == [Idle EXCEPT !.at = "naming"]
    <3>1. h.at = "naming"
      BY DEF Idle
    <3> HIDE DEF h
    <3>2. GoesTo(u, s, h) /\ OneOpen(u)'
      BY <1>1, <1>4, <2>2 DEF h
    <3> QED BY <3>1, <3>2, WorksHolds
  <2> QED BY <1>8, <2>1, <2>2 DEF ReceiveTargetUserId
<1>9. ASSUME NEW p \in Phone \cup {None}, ReceivePhoneNumber(u, s, p) PROVE ClientLeft(u, s)
  <2>1. CASE p = None
    BY <1>1, <1>2, <1>9, <2>1, RepliesHolds DEF ReceivePhoneNumber
  <2>2. CASE p # None /\ IsConnected(data[u].client)
    <3> DEFINE h == [Idle EXCEPT !.at = "dropping", !.on = data[u].client, !.phone = p]
    <3>1. h.at = "dropping" /\ h.on = data[u].client
      BY DEF Idle
    <3>2. GoesTo(u, s, h) /\ UNCHANGED data
      BY <1>9, <2>2 DEF ReceivePhoneNumber
    <3> HIDE DEF h
    <3> QED BY <1>1, <1>2, <3>1, <3>2, WorksHolds
  <2>3. CASE p # None /\ ~IsConnected(data[u].client)
    BY <1>1, <1>9, <2>3, ForgetsHolds DEF ReceivePhoneNumber
  <2> QED BY <2>1, <2>2, <2>3
<1>10. CASE ReceivePhoneCode(u, s)
  <2>1. OneOpen(u)' /\ data'[u].client = data[u].client
    BY <1>1, <1>2, <1>10 DEF ReceivePhoneCode
  <2>2. CASE Replies(u, s, "phone", "keep")
    BY <2>1, <2>2, RepliesHolds
  <2> DEFINE h == [Idle EXCEPT !.at = "signing", !.on = data[u].client, !.phone = data[u].phone]
  <2>3. h.at = "signing" /\ h.on = data[u].client
    BY DEF Idle
  <2>4. GoesTo(u, s, h) \/ Replies(u, s, "phone", "keep")
    BY <1>10 DEF ReceivePhoneCode
  <2> HIDE DEF h
  <2> QED BY <2>1, <2>2, <2>3, <2>4, WorksHolds
<1>11. CASE ReceivePassword(u, s)
  <2>1. OneOpen(u)' /\ data'[u].client = data[u].client
    BY <1>1, <1>2, <1>11 DEF ReceivePassword
  <2> DEFINE h == [Idle EXCEPT !.at = "checking", !.on = data[u].client]
  <2>2. h.at = "checking" /\ h.on = data[u].client
    BY DEF Idle
  <2>3. GoesTo(u, s, h) \/ (Replies(u, s, "end", "clear") /\ NoneOpen(u)')
    BY <1>1, <1>11 DEF ReceivePassword
  <2> HIDE DEF h
  <2> QED BY <2>1, <2>2, <2>3, WorksHolds, RepliesHolds
<1>12. CASE Cancel(u, s)
  <2>1. CASE ~IsConnected(data[u].client)
    BY <1>1, <1>12, <2>1, RepliesHolds DEF Cancel
  <2>2. CASE IsConnected(data[u].client)
    <3> DEFINE h == [Idle EXCEPT !.at = "cancelling", !.on = data[u].client]
    <3>1. h.at = "cancelling" /\ h.on = data[u].client
      BY DEF Idle
    <3>2. GoesTo(u, s, h) /\ UNCHANGED data
      BY <1>12, <2>2 DEF Cancel
    <3> HIDE DEF h
    <3> QED BY <1>1, <1>2, <3>1, <3>2, WorksHolds
  <2> QED BY <2>1, <2>2
<1> QED BY <1>5, <1>6, <1>7, <1>8, <1>9, <1>10, <1>11, <1>12 DEF Dispatched

LEMMA SignsInHolds ==
    ASSUME TypeOK, NEW u \in User, NEW s \in Slot, NEW from, SignsIn(u, s, from), UNCHANGED data,
           OneOpen(u), handler[u][s].on = data[u].client
    PROVE  ClientLeft(u, s)
<1> DEFINE e == handler[u][s].on
<1>1. client' = [client EXCEPT ![e].signed = "yes"]
  BY DEF SignsIn
<1>2. \A c \in Client : client'[c].by = client[c].by /\ client'[c].connected = client[c].connected
  BY <1>1 DEF TypeOK, Connection
<1>3. OneOpen(u)'
  BY <1>2, OpenAsBefore
<1> QED BY <1>3, CompletesHolds DEF SignsIn

\* Handlers that go on
LEMMA GoingOnHolds ==
    ASSUME TypeOK, NEW u \in User, NEW s \in Slot, OneOpen(u), ClientFits(u, s), GoesOn(u, s)
    PROVE  ClientLeft(u, s)
<1>0. data[u] \in Data /\ handler[u][s] \in Handler
  BY DEF TypeOK
<1>1. ASSUME UNCHANGED client
      PROVE  /\ NoneOpen(u) => NoneOpen(u)' /\ OneOpen(u)'
             /\ data'[u].client = data[u].client => OneOpen(u)'
  BY <1>1, OpenAsBefore
<1>2. ASSUME NoneOpen(u)' PROVE OneOpen(u)'
  BY <1>2 DEF NoneOpen, OneOpen
<1>3. CASE Replied(u, s)
  <2>1. handler'[u][s].at = "idle" /\ UNCHANGED client /\ handler[u][s].at = "replying"
    BY <1>3, ReturnsAt DEF Replied, Returns, At
  <2>2. CASE handler[u][s].tidy = "clear"
    BY <1>1, <2>1, <2>2, IdleHolds DEF ClientFits
  <2>3. CASE handler[u][s].tidy # "clear"
    <3>1. Keeps(u, data[u]) \/ Keeps(u, [data[u] EXCEPT !.for = None])
      BY <1>0, <1>3, <2>3 DEF Replied, Handler
    <3>2. [data[u] EXCEPT !.for = None].client = data[u].client
      BY <1>0 DEF Data
    <3>3. data'[u].client = data[u].client
      BY <3>1, <3>2, KeepsAt
    <3> QED BY <1>1, <2>1, <3>3, IdleHolds
  <2> QED BY <2>2, <2>3
<1>4. CASE ReplyFails(u, s)
  <2>1. handler'[u][s] = Idle /\ UNCHANGED <<client, data>>
    BY <1>4, GoesToAt DEF ReplyFails
  <2> QED BY <1>1, <2>1, IdleHolds DEF Idle
<1>5. CASE Greeted(u, s)
  <2>1. NoneOpen(u)'
    BY <1>5, DisconnectsAll DEF Greeted, At, ClientFits
  <2> QED BY <1>5, <2>1, GreetsHolds DEF Greeted
<1>6. CASE Named(u, s)
  <2>1. data'[u] = data[u] /\ UNCHANGED client
    BY <1>6, KeepsAt DEF Named, Prompts
  <2> QED BY <1>1, <1>6, <2>1, PromptsHolds DEF Named
<1>7. CASE Dropped(u, s)
  <2>1. NoneOpen(u)'
    BY <1>7, DisconnectsAll DEF Dropped, At, ClientFits
  <2> QED BY <1>7, <2>1, ForgetsHolds DEF Dropped
<1>8. CASE SendFails(u, s)
  <2>1. NoneOpen(u)' /\ OneOpen(u)'
    BY <1>1, <1>8 DEF SendFails, At, ClientFits
  <2> QED BY <1>8, <2>1, RepliesHolds DEF SendFails
<1>9. ASSUME NEW c \in Client, CodeSent(u, s, c) PROVE ClientLeft(u, s)
  <2>1. NoneOpen(u)
    BY <1>9 DEF CodeSent, At, ClientFits
  <2>2. Keeps(u, [data[u] EXCEPT !.client = c]) /\ Replies(u, s, "code", "keep")
    BY <1>9 DEF CodeSent
  <2>3. data'[u].client = c
    BY <1>0, <2>2, KeepsAt DEF Data
  <2>4. \A e \in Client \ {c} : client'[e] = client[e]
    BY <1>9 DEF CodeSent, TypeOK
  <2>5. OneOpen(u)'
    BY <2>1, <2>3, <2>4 DEF OneOpen, NoneOpen
  <2> QED BY <2>2, <2>5, RepliesHolds
<1>10. CASE SignInEnds(u, s)
  <2>1. handler[u][s].on = data[u].client /\ UNCHANGED data
    BY <1>10 DEF SignInEnds, At, ClientFits
  <2>2. data'[u].client = data[u].client
    BY <2>1
  <2>3. CASE SignsIn(u, s, "code")
    BY <2>1, <2>3, SignsInHolds
  <2>4. CASE /\ Replies(u, s, "password", "keep")
             /\ client' = [client EXCEPT ![handler[u][s].on].signed =
                                            IF @ = "yes" THEN @ ELSE "half"]
    <3>1. \A c \in Client : /\ client'[c].by = client[c].by
                            /\ client'[c].connected = client[c].connected
      BY <2>4 DEF TypeOK, Connection
    <3> QED BY <2>2, <2>4, <3>1, OpenAsBefore, RepliesHolds
  <2>5. CASE Replies(u, s, "code", "keep") /\ UNCHANGED client
    BY <1>1, <2>2, <2>5, RepliesHolds
  <2>6. CASE Errs(u, s, "code") /\ UNCHANGED client
    BY <1>1, <2>1, <2>2, <2>6, ErrsHolds
  <2> QED BY <1>10, <2>3, <2>4, <2>5, <2>6 DEF SignInEnds
<1>11. CASE PasswordEnds(u, s)
  <2>1. handler[u][s].on = data[u].client /\ UNCHANGED data
    BY <1>11 DEF PasswordEnds, At, ClientFits
  <2>2. data'[u].client = data[u].client
    BY <2>1
  <2>3. CASE SignsIn(u, s, "password")
    BY <2>1, <2>3, SignsInHolds
  <2>4. ASSUME NEW from \in {"code", "password"}, Errs(u, s, from), UNCHANGED client
        PROVE  ClientLeft(u, s)
    BY <1>1, <2>1, <2>2, <2>4, ErrsHolds
  <2> QED BY <1>11, <2>3, <2>4 DEF PasswordEnds
<1>12. CASE Saves(u, s)
  <2> DEFINE h == [handler[u][s] EXCEPT !.at = "telling"]
  <2>1. /\ handler[u][s].on = data[u].client /\ handler[u][s].login = data[u].client
        /\ Disconnects(handler[u][s].login) /\ GoesTo(u, s, h) /\ UNCHANGED data
    BY <1>12 DEF Saves, At, ClientFits
  <2>2. NoneOpen(u)'
    BY <2>1, DisconnectsAll
  <2>3. h.at = "telling" /\ h.on = handler[u][s].on
    BY <1>0 DEF Handler
  <2> HIDE DEF h
  <2>4. handler'[u][s] = h
    BY <2>1, GoesToAt
  <2> QED BY <1>2, <2>1, <2>2, <2>3, <2>4 DEF ClientLeft, ClientFits
<1>13. CASE Told(u, s)
  <2>1. handler[u][s].on = data[u].client /\ NoneOpen(u) /\ UNCHANGED client
    BY <1>13 DEF Told, At, ClientFits
  <2>2. CASE Returns(u, s, "end")
    BY <1>1, <2>1, <2>2, ReturnsAt, IdleHolds DEF Returns
  <2> QED BY <1>1, <1>13, <2>1, <2>2, ErrsHolds DEF Told
<1>14. CASE Quits(u, s)
  <2>1. NoneOpen(u)'
    BY <1>14, DisconnectsAll DEF Quits, At, ClientFits
  <2> QED BY <1>2, <1>14, <2>1, ReturnsAt, IdleHolds DEF Quits, Returns
<1>15. CASE Cancelled(u, s)
  <2>1. NoneOpen(u)'
    BY <1>15, DisconnectsAll DEF Cancelled, At, ClientFits
  <2> QED BY <1>2, <1>15, <2>1, RepliesHolds DEF Cancelled
<1>16. CASE Moved(u, s)
  <2>1. [data[u] EXCEPT !.moving = None].client = data[u].client
    BY <1>0 DEF Data
  <2>2. data'[u].client = data[u].client
    BY <1>16, <2>1, KeepsAt DEF Moved
  <2> QED BY <1>1, <1>16, <2>2, ReturnsAt, IdleHolds DEF Moved
<1> QED BY <1>3, <1>4, <1>5, <1>6, <1>7, <1>8, <1>9, <1>10, <1>11, <1>12, <1>13, <1>14, <1>15,
           <1>16 DEF GoesOn

-----------------------------------------------------------------------------
(***************************************************************************)
(* A handler moves, and nobody else's.                                     *)
(***************************************************************************)
\* Where a handler is moves only its own slot and the user's own state.
Moves(u, s) ==
    /\ \A r \in Slot \ {s} : handler'[u][r] = handler[u][r]
    /\ \A v \in User \ {u} : handler'[v] = handler[v] /\ conv'[v] = conv[v]

DataMine(u) == \A v \in User \ {u} : data'[v] = data[v]
AskedMine(u) == \A v \in User \ {u} : asked'[v] = asked[v]

LEMMA GoesToMoves ==
    ASSUME TypeOK, NEW u \in User, NEW s \in Slot, NEW h, GoesTo(u, s, h)
    PROVE  Moves(u, s)
  BY GoesToAt DEF Moves

LEMMA RepliesMoves ==
    ASSUME TypeOK, NEW u \in User, NEW s \in Slot, NEW then, NEW tidy, Replies(u, s, then, tidy)
    PROVE  Moves(u, s)
  BY RepliesAt DEF Moves

LEMMA ReturnsMoves ==
    ASSUME TypeOK, NEW u \in User, NEW s \in Slot, NEW then, Returns(u, s, then)
    PROVE  Moves(u, s)
<1>1. \A v \in User \ {u} : conv'[v] = conv[v]
  BY DEF Returns, TypeOK
<1> QED BY <1>1, ReturnsAt DEF Moves, Returns

LEMMA ErrsMoves ==
    ASSUME TypeOK, NEW u \in User, NEW s \in Slot, NEW from, Errs(u, s, from)
    PROVE  Moves(u, s)
  BY GoesToMoves, RepliesMoves DEF Errs

LEMMA CompletesMoves ==
    ASSUME TypeOK, NEW u \in User, NEW s \in Slot, NEW from, NEW c, Completes(u, s, from, c)
    PROVE  Moves(u, s)
  BY GoesToMoves, ErrsMoves DEF Completes

LEMMA KeepsMine ==
    ASSUME TypeOK, NEW u \in User, NEW d, Keeps(u, d)
    PROVE  DataMine(u)
  BY KeepsAt DEF DataMine

LEMMA SameMine ==
    ASSUME NEW u \in User
    PROVE  UNCHANGED data => DataMine(u)
  BY DEF DataMine

LEMMA PromptsMoves ==
    ASSUME TypeOK, NEW u \in User, NEW s \in Slot, NEW d, Prompts(u, s, d)
    PROVE  Moves(u, s) /\ DataMine(u) /\ AskedMine(u)
<1>1. AskedMine(u)
  BY DEF Prompts, AskedMine, TypeOK
<1> QED BY <1>1, RepliesMoves, KeepsMine DEF Prompts

LEMMA GreetsMoves ==
    ASSUME TypeOK, NEW u \in User, NEW s \in Slot, NEW owner, Greets(u, s, owner)
    PROVE  Moves(u, s) /\ DataMine(u) /\ AskedMine(u)
<1>1. CASE owner # None /\ Prompts(u, s, [NoData EXCEPT !.for = owner])
  BY <1>1, PromptsMoves
<1>2. CASE /\ Replies(u, s, "end", "keep") /\ UNCHANGED asked
           /\ Keeps(u, data[u]) \/ Keeps(u, NoData)
  BY <1>2, RepliesMoves, KeepsMine DEF AskedMine
<1> QED BY <1>1, <1>2 DEF Greets

LEMMA BeginsTurns ==
    ASSUME TypeOK, NEW u \in User, NEW s \in Slot, Begins(u, s), Moves(u, s), DataMine(u),
           AskedMine(u)
    PROVE  Turn(u, s) /\ OthersStay(u)
<1>1. \A v \in User \ {u} : disturbed'[v] = disturbed[v]
  BY DEF Begins, TypeOK
<1> QED BY <1>1 DEF Turn, OthersStay, Moves, DataMine, AskedMine

LEMMA BeginningTurns ==
    ASSUME TypeOK, NEW u \in User, NEW s \in Slot,
           Dispatched(u, s)
    PROVE  Turn(u, s) /\ OthersStay(u) /\ UNCHANGED client
<1>0. UNCHANGED asked => AskedMine(u)
  BY DEF AskedMine
<1>1. ASSUME NEW owner \in User \cup {None}, Start(u, s, owner)
      PROVE  Begins(u, s) /\ UNCHANGED client /\ Moves(u, s) /\ DataMine(u) /\ AskedMine(u)
  BY <1>0, <1>1, GreetsMoves, GoesToMoves, SameMine DEF Start
<1>2. CASE AddAccountStart(u, s)
  BY <1>0, <1>2, RepliesMoves, KeepsMine, BeginsTurns DEF AddAccountStart
<1>3. CASE AddAccountChooseOwner(u, s)
  BY <1>0, <1>3, PromptsMoves, RepliesMoves, SameMine, BeginsTurns DEF AddAccountChooseOwner
<1>4. CASE ReceiveTargetUserId(u, s)
  BY <1>0, <1>4, RepliesMoves, GoesToMoves, KeepsMine, SameMine, BeginsTurns
     DEF ReceiveTargetUserId
<1>5. ASSUME NEW p \in Phone \cup {None}, ReceivePhoneNumber(u, s, p)
      PROVE  Begins(u, s) /\ UNCHANGED client /\ Moves(u, s) /\ DataMine(u) /\ AskedMine(u)
  BY <1>0, <1>5, RepliesMoves, GoesToMoves, KeepsMine, SameMine
     DEF ReceivePhoneNumber, Forgets
<1>6. CASE ReceivePhoneCode(u, s)
  BY <1>0, <1>6, RepliesMoves, GoesToMoves, SameMine, BeginsTurns DEF ReceivePhoneCode
<1>7. CASE ReceivePassword(u, s)
  BY <1>0, <1>7, RepliesMoves, GoesToMoves, SameMine, BeginsTurns DEF ReceivePassword
<1>8. CASE Cancel(u, s)
  BY <1>0, <1>8, RepliesMoves, GoesToMoves, KeepsMine, SameMine, BeginsTurns DEF Cancel
<1> QED BY <1>1, <1>2, <1>3, <1>4, <1>5, <1>6, <1>7, <1>8, BeginsTurns
        DEF Dispatched, AddAccountStart, AddAccountChooseOwner, ReceiveTargetUserId,
            ReceivePhoneCode, ReceivePassword, Cancel

\* A handler that goes on connects a client for its user only.
LEMMA DisconnectsOpensNone ==
    ASSUME TypeOK, NEW u \in User, NEW c, Disconnects(c)
    PROVE  OpensOnlyFor(u)
  BY DEF Disconnects, OpensOnlyFor, TypeOK, Connection

LEMMA SignedOpensNone ==
    ASSUME TypeOK, NEW u \in User, NEW c, NEW signed,
           client' = [client EXCEPT ![c].signed = signed]
    PROVE  OpensOnlyFor(u)
  BY DEF OpensOnlyFor, TypeOK, Connection

LEMMA GoingOnTurns ==
    ASSUME TypeOK, NEW u \in User, NEW s \in Slot, GoesOn(u, s)
    PROVE  Turn(u, s) /\ OthersStay(u) /\ OpensOnlyFor(u)
<1>0. UNCHANGED client => OpensOnlyFor(u)
  BY DEF OpensOnlyFor
<1>1. UNCHANGED asked => AskedMine(u)
  BY DEF AskedMine
<1> DEFINE Fine == Moves(u, s) /\ DataMine(u) /\ AskedMine(u) /\ OpensOnlyFor(u)
<1>2. ASSUME Replied(u, s) PROVE Fine
  BY <1>0, <1>1, <1>2, ReturnsMoves, KeepsMine DEF Replied
<1>3. ASSUME ReplyFails(u, s) PROVE Fine
  BY <1>0, <1>1, <1>3, GoesToMoves, SameMine DEF ReplyFails
<1>4. ASSUME Greeted(u, s) PROVE Fine
  BY <1>4, GreetsMoves, DisconnectsOpensNone DEF Greeted
<1>5. ASSUME Named(u, s) PROVE Fine
  BY <1>0, <1>5, PromptsMoves DEF Named
<1>6. ASSUME Dropped(u, s) PROVE Fine
  BY <1>1, <1>6, GoesToMoves, KeepsMine, DisconnectsOpensNone DEF Dropped, Forgets
<1>7. ASSUME SendFails(u, s) PROVE Fine
  BY <1>0, <1>1, <1>7, RepliesMoves, KeepsMine, SameMine DEF SendFails
<1>8. ASSUME NEW c \in Client, CodeSent(u, s, c) PROVE Fine
  <2>1. OpensOnlyFor(u)
    BY <1>8 DEF CodeSent, OpensOnlyFor, TypeOK
  <2> QED BY <1>1, <1>8, <2>1, RepliesMoves, KeepsMine DEF CodeSent
<1>9. ASSUME SignInEnds(u, s) PROVE Fine
  <2>1. UNCHANGED <<data, asked>>
    BY <1>9 DEF SignInEnds
  <2>2. Moves(u, s)
    BY <1>9, RepliesMoves, ErrsMoves, CompletesMoves DEF SignInEnds, SignsIn
  <2>3. OpensOnlyFor(u)
    <3>1. CASE SignsIn(u, s, "code")
      BY <3>1, SignedOpensNone DEF SignsIn
    <3>2. CASE client' = [client EXCEPT ![handler[u][s].on].signed =
                                            IF @ = "yes" THEN @ ELSE "half"]
      BY <3>2 DEF OpensOnlyFor, TypeOK, Connection
    <3> QED BY <1>0, <1>9, <3>1, <3>2 DEF SignInEnds
  <2> QED BY <1>1, <2>1, <2>2, <2>3, SameMine
<1>10. ASSUME PasswordEnds(u, s) PROVE Fine
  <2>1. UNCHANGED <<data, asked>>
    BY <1>10 DEF PasswordEnds
  <2>2. Moves(u, s)
    BY <1>10, ErrsMoves, CompletesMoves DEF PasswordEnds, SignsIn
  <2>3. OpensOnlyFor(u)
    BY <1>0, <1>10, SignedOpensNone DEF PasswordEnds, SignsIn
  <2> QED BY <1>1, <2>1, <2>2, <2>3, SameMine
<1>11. ASSUME Saves(u, s) PROVE Fine
  BY <1>1, <1>11, GoesToMoves, SameMine, DisconnectsOpensNone DEF Saves
<1>12. ASSUME Told(u, s) PROVE Fine
  BY <1>0, <1>1, <1>12, ReturnsMoves, ErrsMoves, KeepsMine, SameMine DEF Told
<1>13. ASSUME Quits(u, s) PROVE Fine
  BY <1>1, <1>13, ReturnsMoves, KeepsMine, DisconnectsOpensNone DEF Quits
<1>14. ASSUME Cancelled(u, s) PROVE Fine
  BY <1>1, <1>14, RepliesMoves, KeepsMine, DisconnectsOpensNone DEF Cancelled
<1>15. ASSUME Moved(u, s) PROVE Fine
  <2>1. Moves(u, s)
    BY <1>15, ReturnsAt DEF Moved, Moves
  <2> QED BY <1>0, <1>1, <1>15, <2>1, KeepsMine DEF Moved
<1>16. Fine
  BY <1>2, <1>3, <1>4, <1>5, <1>6, <1>7, <1>8, <1>9, <1>10, <1>11, <1>12, <1>13, <1>14, <1>15
     DEF GoesOn
<1>17. handler[u][s].at # "idle"
  BY DEF GoesOn, Replied, ReplyFails, Greeted, Named, Dropped, SendFails, CodeSent,
         SignInEnds, PasswordEnds, Saves, Told, Quits, Cancelled, Moved, At
<1>18. disturbed[u] \subseteq disturbed'[u]
       /\ \A v \in User \ {u} : disturbed'[v] = disturbed[v]
  <2>1. CASE ReplyFails(u, s)
    BY <2>1 DEF ReplyFails, TypeOK
  <2>2. CASE ~ReplyFails(u, s)
    BY <2>2 DEF GoesOn, Replied, Greeted, Named, Dropped, SendFails, CodeSent,
                SignInEnds, PasswordEnds, Saves, Told, Quits, Cancelled, Moved, At
  <2> QED BY <2>1, <2>2
<1> HIDE DEF Fine
<1> QED BY <1>16, <1>17, <1>18 DEF Fine, Turn, OthersStay, Moves, DataMine, AskedMine

\* A turn that leaves its slot in order leaves everything in order.
LEMMA TurnKeepsCourse ==
    ASSUME TypeOK, CourseInv, NEW u \in User, NEW s \in Slot, Turn(u, s), OthersStay(u),
           OpensOnlyFor(u),
           AimFound(u, s) /\ disturbed'[u] = {} => AimLeft(u, s),
           ClientFound(u, s) => ClientLeft(u, s)
    PROVE  CourseInv'
<1> SUFFICES ASSUME NEW v \in User PROVE (OneHandler(v) /\ AimInv(v) /\ ClientInv(v))'
  BY DEF CourseInv
<1>0. OneHandler(v) /\ AimInv(v) /\ ClientInv(v)
  BY DEF CourseInv
<1>1. CASE v # u
  <2>1. /\ conv'[v] = conv[v] /\ data'[v] = data[v] /\ handler'[v] = handler[v]
        /\ asked'[v] = asked[v] /\ disturbed'[v] = disturbed[v]
    BY <1>1 DEF OthersStay
  <2>2. OneHandler(v)' /\ AimInv(v)'
    BY <1>0, <2>1 DEF OneHandler, AimInv, AimFits, Busy, Overlapped, Aimed, Target
  <2>3. (OneOpen(v) => OneOpen(v)') /\ (NoneOpen(v) => NoneOpen(v)')
    BY <1>1, <2>1 DEF OpensOnlyFor, OneOpen, NoneOpen
  <2>4. ClientInv(v)'
    BY <1>0, <2>1, <2>3 DEF ClientInv, ClientFits, Overlapped
  <2> QED BY <2>2, <2>4
<1>2. CASE v = u
  <2> SUFFICES ASSUME ~Overlapped(u)' PROVE (OneHandler(u) /\ AimInv(u) /\ ClientInv(u))'
    BY <1>2 DEF OneHandler, AimInv, ClientInv, Overlapped
  <2>1. disturbed[u] \subseteq disturbed'[u] /\ ~Overlapped(u)
    <3>1. Begins(u, s) => disturbed[u] \subseteq disturbed'[u]
      BY DEF Begins, TypeOK
    <3> QED BY <3>1 DEF Turn, Overlapped
  <2>2. \A r \in Slot \ {s} : handler[u][r].at = "idle"
    <3>1. CASE Begins(u, s)
      <4>1. Busy(u) = {}
        BY <3>1 DEF Begins, Overlapped, TypeOK
      <4> QED BY <4>1 DEF Busy
    <3>2. CASE handler[u][s].at # "idle"
      BY <1>0, <1>2, <2>1, <3>2 DEF OneHandler, Busy
    <3> QED BY <3>1, <3>2 DEF Turn
  <2>3. \A r \in Slot \ {s} : handler'[u][r].at = "idle"
    BY <2>2 DEF Turn
  <2>4. OneHandler(u)'
    BY <2>3 DEF OneHandler, Busy
  <2>5. handler[u][s].at = "idle" => Busy(u) = {}
    BY <2>2 DEF Busy
  <2>6. AimInv(u)'
    <3> SUFFICES ASSUME disturbed'[u] = {}
                 PROVE  /\ Busy(u)' = {} /\ conv'[u] \in Past => Aimed(u)'
                        /\ \A r \in Slot : AimFits(u, r)'
      BY DEF AimInv
    <3>1. AimLeft(u, s)
      BY <1>0, <1>2, <2>1, <2>5 DEF AimInv, AimFound
    <3>2. Busy(u)' = {} => handler'[u][s].at = "idle"
      BY DEF Busy
    <3>3. \A r \in Slot \ {s} : AimFits(u, r)'
      BY <2>3 DEF AimFits
    <3> QED BY <3>1, <3>2, <3>3 DEF AimLeft
  <2>7. ClientInv(u)'
    <3>1. ClientLeft(u, s)
      BY <1>0, <1>2, <2>1 DEF ClientInv, ClientFound
    <3>2. \A r \in Slot \ {s} : ClientFits(u, r)'
      BY <2>3 DEF ClientFits
    <3> QED BY <3>1, <3>2 DEF ClientInv, ClientLeft
  <2> QED BY <2>4, <2>6, <2>7
<1> QED BY <1>1, <1>2

\* Steps without a handler: a state may end, and what is about to be moved change.
LEMMA StillKeepsCourse ==
    ASSUME TypeOK, CourseInv, UNCHANGED <<handler, client, asked, disturbed>>,
           \A v \in User : /\ conv'[v] \in {conv[v], "end"}
                          /\ data'[v].for = data[v].for /\ data'[v].client = data[v].client
    PROVE  CourseInv'
<1> SUFFICES ASSUME NEW v \in User PROVE (OneHandler(v) /\ AimInv(v) /\ ClientInv(v))'
  BY DEF CourseInv
<1>0. OneHandler(v) /\ AimInv(v) /\ ClientInv(v)
  BY DEF CourseInv
<1>1. (Aimed(v) => Aimed(v)') /\ (conv'[v] \in Past => conv[v] \in Past)
  BY DEF Aimed, Target, Past
<1>2. (OneOpen(v) => OneOpen(v)') /\ (NoneOpen(v) => NoneOpen(v)')
  BY DEF OneOpen, NoneOpen
<1>3. OneHandler(v)'
  BY <1>0 DEF OneHandler, Overlapped, Busy
<1>4. AimInv(v)'
  BY <1>0, <1>1 DEF AimInv, AimFits, Busy
<1>5. ClientInv(v)'
  BY <1>0, <1>2 DEF ClientInv, ClientFits, Overlapped
<1> QED BY <1>3, <1>4, <1>5

LEMMA RecipientKeepsCourse ==
    ASSUME TypeOK, CourseInv, NEW u \in User, NEW s \in Slot, NEW recipient \in User,
           ReceiveTransferRecipient(u, s, recipient)
    PROVE  CourseInv'
<1>1. CASE UNCHANGED <<handler, conv, disturbed>>
  BY <1>1, StillKeepsCourse DEF ReceiveTransferRecipient
<1>2. CASE Begins(u, s) /\ GoesTo(u, s, [Idle EXCEPT !.at = "moved"])
  <2> DEFINE h == [Idle EXCEPT !.at = "moved"]
  <2>1. h.at = "moved"
    BY DEF Idle
  <2>2. GoesTo(u, s, h) /\ UNCHANGED <<data, client, asked>> /\ conv[u] \notin Past
    BY <1>2 DEF ReceiveTransferRecipient, TakesText, Past
  <2> HIDE DEF h
  <2>3. handler'[u][s].at = "moved" /\ conv' = conv
    BY <2>1, <2>2, GoesToAt
  <2>4. AimLeft(u, s)
    BY <2>2, <2>3 DEF AimLeft, AimFits
  <2>5. ClientFound(u, s) => ClientLeft(u, s)
    BY <2>2, <2>3 DEF ClientFound, ClientLeft, ClientFits, OneOpen
  <2>6. Turn(u, s) /\ OthersStay(u)
    BY <1>2, <2>2, GoesToMoves, SameMine, BeginsTurns DEF AskedMine
  <2>7. OpensOnlyFor(u)
    BY <2>2 DEF OpensOnlyFor
  <2> QED BY <2>4, <2>5, <2>6, <2>7, TurnKeepsCourse
<1> QED BY <1>1, <1>2 DEF ReceiveTransferRecipient

LEMMA NextKeepsCourse ==
    ASSUME TypeOK, CourseInv, [Next]_vars
    PROVE  CourseInv'
<1>1. ASSUME NEW u \in User, NEW s \in Slot,
             Dispatched(u, s)
      PROVE  CourseInv'
  <2>1. Turn(u, s) /\ OthersStay(u) /\ UNCHANGED client
    BY <1>1, BeginningTurns
  <2>2. OpensOnlyFor(u)
    BY <2>1 DEF OpensOnlyFor
  <2>3. ClientFound(u, s) => ClientLeft(u, s)
    BY <1>1, BeginningHolds DEF ClientFound
  <2>4. handler[u][s].at = "idle"
    <3>1. Begins(u, s)
      BY <1>1 DEF Dispatched, Start, AddAccountStart, AddAccountChooseOwner,
                  ReceiveTargetUserId, ReceivePhoneNumber, ReceivePhoneCode, ReceivePassword, Cancel
    <3> QED BY <3>1 DEF Begins, Busy
  <2>5. AimFound(u, s) => AimLeft(u, s)
    <3>1. AimFound(u, s) => (conv[u] \in Past => Aimed(u))
      BY <2>4 DEF AimFound
    <3> QED BY <1>1, <3>1, BeginningAims
  <2> QED BY <2>1, <2>2, <2>3, <2>5, TurnKeepsCourse
<1>2. ASSUME NEW u \in User, NEW s \in Slot, GoesOn(u, s)
      PROVE  CourseInv'
  <2>1. Turn(u, s) /\ OthersStay(u) /\ OpensOnlyFor(u)
    BY <1>2, GoingOnTurns
  <2>2. ClientFound(u, s) => ClientLeft(u, s)
    BY <1>2, GoingOnHolds DEF ClientFound
  <2>3. handler[u][s].at # "idle"
    BY <1>2 DEF GoesOn, Replied, ReplyFails, Greeted, Named, Dropped, SendFails, CodeSent,
                SignInEnds, PasswordEnds, Saves, Told, Quits, Cancelled, Moved, At
  <2>4. ReplyFails(u, s) => disturbed'[u] # {}
    BY DEF ReplyFails, TypeOK
  <2>5. AimFound(u, s) /\ disturbed'[u] = {} => AimLeft(u, s)
    BY <1>2, <2>3, <2>4, GoingOnAims DEF AimFound
  <2> QED BY <2>1, <2>2, <2>5, TurnKeepsCourse
<1>3. ASSUME NEW u \in User,
             (\E p \in Phone : TransferAccountStart(u, p)) \/ CancelTransfer(u)
      PROVE  CourseInv'
  <2>1. PICK p \in Phone \cup {None} : Keeps(u, [data[u] EXCEPT !.moving = p])
    BY <1>3 DEF TransferAccountStart, CancelTransfer
  <2>2. /\ [data[u] EXCEPT !.moving = p].for = data[u].for
        /\ [data[u] EXCEPT !.moving = p].client = data[u].client
    BY DEF TypeOK, Data
  <2>3. \A v \in User : data'[v].for = data[v].for /\ data'[v].client = data[v].client
    BY <2>1, <2>2, KeepsAt
  <2> QED BY <1>3, <2>3, StillKeepsCourse DEF TransferAccountStart, CancelTransfer
<1>4. ASSUME NEW u \in User, TimesOut(u) PROVE CourseInv'
  <2>1. \A v \in User : conv'[v] \in {conv[v], "end"}
    BY <1>4 DEF TimesOut, TypeOK
  <2> QED BY <1>4, <2>1, StillKeepsCourse DEF TimesOut
<1>5. CASE Restarts
  <2>1. /\ \A v \in User : \A s \in Slot : handler'[v][s].at = "idle"
        /\ \A v \in User : conv'[v] = "end"
        /\ \A c \in Client : ~client'[c].connected
    BY <1>5 DEF Restarts, Idle, NoConnection
  <2> QED BY <2>1 DEF CourseInv, OneHandler, Busy, AimInv, AimFits, ClientInv, ClientFits,
                      OneOpen, Past
<1>6. CASE UNCHANGED talkVars
  <2>1. UNCHANGED <<conv, data, handler, client, asked, disturbed>>
    BY <1>6 DEF talkVars
  <2>2. \A v \in User : conv'[v] = conv[v] /\ data'[v] = data[v]
    BY <2>1
  <2> QED BY <2>1, <2>2, StillKeepsCourse
<1>7. ASSUME NEW u \in User, Updates(u) PROVE CourseInv'
  <2>1. CASE \E s \in Slot, recipient \in User : ReceiveTransferRecipient(u, s, recipient)
    BY <2>1, RecipientKeepsCourse
  <2>2. CASE (\E p \in Phone : TransferAccountStart(u, p)) \/ CancelTransfer(u)
    BY <1>3, <2>2
  <2>3. CASE \E s \in Slot : Dispatched(u, s)
    BY <1>1, <2>3
  <2> QED BY <1>7, <2>1, <2>2, <2>3 DEF Updates, Dispatched
<1> QED BY <1>2, <1>4, <1>5, <1>6, <1>7 DEF Next, Happens, Elsewhere, vars

LEMMA CourseHolds == Spec => []CourseInv
<1>1. Init => CourseInv
  BY DEF Init, Idle, NoConnection, CourseInv, OneHandler, Busy, AimInv, AimFits, ClientInv,
         ClientFits, OneOpen, Past
<1>2. TypeOK /\ CourseInv /\ [Next]_vars => CourseInv'
  BY NextKeepsCourse
<1> QED BY <1>1, <1>2, TypeCorrect, PTL DEF Spec

\* The number is saved on the list the user was prompted for: the owner is read from
\* user_data long after the prompt that looked at his room (user_handlers.py:1203),
\* and nothing between them changes it as long as no two handlers of the user are in
\* flight together and none raises.
THEOREM NumbersAreSavedForThePrompted == Spec => []SavedForThePrompted
<1>1. CourseInv => SavedForThePrompted
  BY DEF CourseInv, AimInv, AimFits, SavedForThePrompted
<1> QED BY <1>1, CourseHolds, PTL

\* No login client of a user is left connected beside the one in user_data, whatever
\* raises or times out, until two of his handlers overlap: every way that forgets a
\* client has disconnected it.
THEOREM NoClientIsForgotten == Spec => []ConnectedClientsAreKept
<1>1. CourseInv => ConnectedClientsAreKept
  BY DEF CourseInv, ClientInv, OneOpen, Overlapped, ConnectedClientsAreKept
<1> QED BY <1>1, CourseHolds, PTL
=============================================================================
