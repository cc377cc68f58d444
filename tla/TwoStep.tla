------------------------------ MODULE TwoStep ------------------------------
(***************************************************************************)
(* The cloud password of the account, set in a conversation of the control *)
(* bot (user_handlers.py:1443-1723, two_step.py).  Updates are handled     *)
(* concurrently and a conversation changes its state when a handler has    *)
(* ended: while one works on the account, a second press or text is still  *)
(* handled in the old state.  Work on the account holds its lock, so that  *)
(* only another device changes the password in between.                    *)
(***************************************************************************)
EXTENDS AccountRights

CONSTANTS Password,     \* passwords that validate_two_step_password lets pass
          Typist,       \* bound: the users who change it
          Task          \* bound: handlers that work on the account at a time

ASSUME PasswordAssumption == None \notin Password
ASSUME TypistAssumption == Typist \subseteq User

\* TWO_STEP_NEW .. TWO_STEP_CONFIRM_CHANGE
Prompt == {"new", "confirm", "current", "new_change", "confirm_change"}

ASSUME PromptAssumption == None \notin Prompt

VARIABLES
    cloud,      \* the password Telegram asks for, None without one
    prompt,     \* user -> the state of his conversation
    typed,      \* user -> the two_step_ keys of his user_data
    work,       \* task -> the handler that waits for the account or for a reply
    last        \* history: user -> the last text his conversation read

twoStepVars == <<cloud, prompt, typed, work, last>>

Maybe == Password \cup {None}

Blank == [account |-> FALSE, new |-> None, current |-> None]

Handling == [user : User, at : {"status", "apply", "told", "wrong"}, new : Maybe,
             current : Maybe, twice : BOOLEAN]

TwoStepTypeOK ==
    /\ cloud \in Maybe
    /\ prompt \in [User -> Prompt \cup {None}]
    /\ \A u \in User : "password" \in waits[u] <=> prompt[u] # None
    /\ typed \in [User -> [account : BOOLEAN, new : Maybe, current : Maybe]]
    /\ work \in [Task -> Handling \cup {None}]
    /\ last \in [User -> Maybe]

TwoStepInit ==
    /\ cloud \in Maybe
    /\ prompt = [u \in User |-> None] /\ typed = [u \in User |-> Blank]
    /\ work = [t \in Task |-> None] /\ last = [u \in User |-> None]

Unused(t) == work[t] = None

\* A free task takes a handler up, the same one of them.
Works(h) == /\ \E t \in Task : Unused(t)
            /\ work' = [work EXCEPT ![CHOOSE t \in Task : Unused(t)] = h]

\* _clear_two_step_data
ClearsTyped(u) == typed' = [typed EXCEPT ![u] = Blank]

ConversationGoesTo(u, q) == prompt' = [prompt EXCEPT ![u] = q] /\ Asks(u, "password")

ConversationEnds(u) == prompt' = [prompt EXCEPT ![u] = None] /\ Drops(u, "password")

ConversationStays == UNCHANGED <<prompt, waits>>

-----------------------------------------------------------------------------
\* two_step_start up to the await of get_two_step_status
TwoStepStarts(u) ==
    /\ Owns(u) /\ prompt[u] = None
    /\ typed' = [typed EXCEPT ![u] = [Blank EXCEPT !.account = TRUE]]
    /\ Works([user |-> u, at |-> "status", new |-> None, current |-> None, twice |-> FALSE])
    /\ last' = [last EXCEPT ![u] = None]
    /\ UNCHANGED <<cloud, prompt, waits>>

\* and after it; an answer that cannot be shown leaves everything as it was.
StatusAnswers(t) ==
    /\ work[t] # None /\ work[t].at = "status"
    /\ LET u == work[t].user IN
       \/ /\ ConversationGoesTo(u, IF cloud # None THEN "current" ELSE "new")
          /\ UNCHANGED typed
       \/ ClearsTyped(u) /\ ConversationEnds(u)
       \/ ConversationStays /\ UNCHANGED typed
    /\ work' = [work EXCEPT ![t] = None]
    /\ UNCHANGED <<cloud, last>>

\* The prompt after an answer that is taken, and after a mismatch
After == [new |-> "confirm", current |-> "new_change", new_change |-> "confirm_change"]
Before == [confirm |-> "new", confirm_change |-> "new_change"]

\* two_step_receive_new, _new_change and _current; a reply may fail.
ReadsAnswer(u, p) ==
    /\ prompt[u] \in DOMAIN After
    /\ IF p = None THEN UNCHANGED <<typed, prompt, waits>>
       ELSE /\ typed' = IF prompt[u] = "current" THEN [typed EXCEPT ![u].current = p]
                                                 ELSE [typed EXCEPT ![u].new = p]
            /\ ConversationGoesTo(u, After[prompt[u]]) \/ ConversationStays
    /\ UNCHANGED work

\* Mutant: compared with nothing when user_data was cleared
LooseMatch(u, p) == typed[u].new \in {p, None}

SamePassword(u, p) == p # None /\ typed[u].new = p

\* two_step_receive_confirm, _confirm_change and the start of _two_step_apply_and_finish
ReadsConfirmation(u, p) ==
    /\ prompt[u] \in DOMAIN Before
    /\ \/ /\ ~SamePassword(u, p)
          /\ typed' = [typed EXCEPT ![u].new = None]
          /\ ConversationGoesTo(u, Before[prompt[u]]) \/ ConversationStays
          /\ UNCHANGED work
       \/ /\ SamePassword(u, p) /\ ~typed[u].account
          /\ ClearsTyped(u) /\ ConversationEnds(u)
          /\ UNCHANGED work
       \/ /\ SamePassword(u, p) /\ typed[u].account
          /\ Works([user |-> u, at |-> "apply", new |-> p, twice |-> last[u] = p,
                    current |-> IF prompt[u] = "confirm" THEN None ELSE typed[u].current])
          /\ ConversationStays /\ UNCHANGED typed

\* A text, or one that no password can be
ReadsPassword(u) ==
    /\ First(u, "password", Input)
    /\ \E p \in Maybe : /\ ReadsAnswer(u, p) \/ ReadsConfirmation(u, p)
                        /\ last' = [last EXCEPT ![u] = p]
    /\ UNCHANGED cloud
-----------------------------------------------------------------------------
\* What apply_two_step_password does to an account with or without a password; a call
\* that is answered too late has changed it all the same.
Applies(h) == /\ cloud # None => h.current = cloud
              /\ cloud' = h.new

WrongCurrent(h) == cloud # None /\ h.current \notin {None, cloud}

SetsPassword(t) ==
    /\ work[t] # None /\ work[t].at = "apply"
    /\ LET h == work[t] IN
       \/ /\ Applies(h) \/ UNCHANGED cloud
          /\ work' = [work EXCEPT ![t].at = "told"]
          /\ UNCHANGED typed
       \/ /\ WrongCurrent(h)
          /\ typed' = [typed EXCEPT ![h.user].new = None, ![h.user].current = None]
          /\ work' = [work EXCEPT ![t].at = "wrong"]
          /\ UNCHANGED cloud
    /\ UNCHANGED <<prompt, last, waits>>

\* The user is told and the handler ends, whatever became of the conversation; a reply
\* that fails ends the handler only.
TellsResult(t) ==
    /\ work[t] # None /\ work[t].at \in {"told", "wrong"}
    /\ LET u == work[t].user IN
       \/ work[t].at = "told" /\ ClearsTyped(u) /\ ConversationEnds(u)
       \/ work[t].at = "wrong" /\ ConversationGoesTo(u, "current") /\ UNCHANGED typed
       \/ ConversationStays /\ UNCHANGED typed
    /\ work' = [work EXCEPT ![t] = None]
    /\ UNCHANGED <<cloud, last>>

\* cancel_two_step and two_step_timeout
CancelsTwoStep(u) ==
    /\ prompt[u] # None
    /\ ClearsTyped(u) /\ ConversationEnds(u)
    /\ UNCHANGED <<cloud, work, last>>

\* user_data.clear() of start_handler, which leaves the conversation where it is
ForgetsTyped(u) == ClearsTyped(u) /\ UNCHANGED <<cloud, prompt, work, last>>

OtherDevice == cloud' \in Maybe \ {cloud} /\ UNCHANGED <<waits, prompt, typed, work, last>>

TwoStepStep ==
    \/ \E u \in Typist : TwoStepStarts(u) \/ ReadsPassword(u) \/ CancelsTwoStep(u)
    \/ \E t \in Task : StatusAnswers(t) \/ SetsPassword(t) \/ TellsResult(t)
    \/ OtherDevice
-----------------------------------------------------------------------------
\* "Please send the same password again to confirm" (user_handlers.py:1557): a password
\* that is set on the account is one the user has typed twice, the second time right
\* after the first, though several handlers of his may be at work, a cancelled or timed
\* out conversation comes back to life and a start link clears user_data in the middle.
PasswordsAreTypedTwice == \A t \in Task : work[t] # None /\ work[t].at = "apply" => work[t].twice
=============================================================================
