--------------------------- MODULE PendingInputs ---------------------------
(***************************************************************************)
(* What the control bot has asked a user to type, and which question the   *)
(* next text answers.  Every conversation keeps a state of its own and     *)
(* text_router.py two flags in user_data, so several questions may be open *)
(* at once; python-telegram-bot gives a text to the first handler, in the  *)
(* order of registration, that waits for one, whatever was asked last.     *)
(* (The questions of adding an account are in AccountConversations, those  *)
(* of a grant in GrantConversation.)                                       *)
(***************************************************************************)
EXTENDS Integers, FiniteSets

CONSTANTS User, None

\* main(): admin_handlers_list before user_handlers_list, the text router last
Turn == [plan |-> 1, field |-> 2, content |-> 3, password |-> 4, manager |-> 5, admin |-> 6,
         setting |-> 7]

Input == DOMAIN Turn

\* Those of a ConversationHandler, which /cancel ends
Conversation == {"plan", "field", "content", "password", "manager"}

VARIABLE waits      \* user -> the inputs that wait for a text of his

InputTypeOK == waits \in [User -> SUBSET Input]

InputInit == waits = [u \in User |-> {}]

Asks(u, i) == waits' = [waits EXCEPT ![u] = @ \cup {i}]

\* i is not waited for any more: answered, a button, /cancel or a timeout
Drops(u, i) == waits' = [waits EXCEPT ![u] = @ \ {i}]

\* Of those of "inputs" that wait, none stands before i
First(u, i, inputs) == i \in waits[u] /\ \A j \in waits[u] \cap inputs : Turn[i] <= Turn[j]

\* A text of u goes to i, which goes on waiting when "again"
Reads(u, i, again) == /\ First(u, i, Input)
                      /\ IF again THEN UNCHANGED waits ELSE Drops(u, i)

\* /cancel of u ends the first conversation that waits
Cancels(u, i) == First(u, i, Conversation) /\ Drops(u, i)
=============================================================================
