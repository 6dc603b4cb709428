--------------------------- MODULE ContractorWork ---------------------------
(***************************************************************************)
(* How a contractor works: the lists of tasks chanserv sends him, the      *)
(* buttons under them, and the rows they stand for, while listchecker      *)
(* gives the rows to contractors and takes them away.  With the sessions   *)
(* of SessionStore and the rosters of contractors both processes keep.     *)
(*                                                                         *)
(* A message is a position in the chat of its user.  A button may be       *)
(* pressed once more than its keyboard lasts: the press is on its way      *)
(* while the bot works.  Telegram refuses to replace a keyboard by an      *)
(* equal one ("message is not modified").                                  *)
(***************************************************************************)
EXTENDS SessionStore, Sequences, FiniteSets, Functions

CONSTANTS
    Issues,        \* the issues created
    First,         \* contractors in the table when the bot is installed
    Staff,         \* v_staff and the developer
    NoRow,         \* the row has been deleted
    Nobody,        \* the row names no contractor
    Menu,          \* what the message with the menu is about
    MaxMessages    \* bound: messages with buttons in the chat of a user

ASSUME WorkAssumption ==
    /\ IsFiniteSet(Issues)
    /\ First \subseteq Users
    /\ Staff \subseteq Users
    /\ {NoRow, Nobody} \cap Users = {}
    /\ NoRow # Nobody
    /\ Menu \notin Issues
    /\ MaxMessages \in [Users -> Nat]

VARIABLES
    chat,             \* per user: the messages with buttons sent to him
    clicked_msg_id,   \* per user: user_dispatcher::clicked_msg_id
    recent_msg_ids,   \* per user: the messages of his last list of tasks
    issues,           \* per issue: contractor_id of its row
    contractors,      \* table contractors
    v_allowed_contractors,  \* the ids chanserv knows
    v_contractors,    \* the contractors listchecker knows
    unannounced,      \* history: contractors chanserv was not told to reload
    unsure,           \* history: messages sent or edited without an answer
                      \* of Telegram, since the last list or restart
    started,          \* history: the user was given the button "finish" for
                      \* the issue, and it was not taken away since
    again             \* history: staff was told that the user has finished
                      \* an issue he had not started since the last time

rosters == <<contractors, v_allowed_contractors, v_contractors, unannounced>>
memory  == <<clicked_msg_id, recent_msg_ids>>
history == <<unsure, started, again>>
vars    == <<sessions, chat, memory, issues, rosters, history>>

Keyboards == {"kb_consumer", "kb_contractor", "kb_staff",
              "kb_start_solving", "kb_task_closing", "kb_task_done"}

Message == [about: Issues \cup {Menu}, kb: Keyboards]

Messages(u) == 1 .. Len(chat[u])

Init ==
    /\ InitSessions
    /\ chat = [u \in Users |-> <<>>]
    /\ clicked_msg_id = [u \in Users |-> 0]
    /\ recent_msg_ids = [u \in Users |-> {}]
    /\ issues = [i \in Issues |-> Nobody]
    /\ contractors = First
    /\ v_allowed_contractors = First
    /\ v_contractors = First
    /\ unannounced = {}
    /\ unsure = [u \in Users |-> {}]
    /\ started = {}
    /\ again = {}

-----------------------------------------------------------------------------
(* Messages *)

(* A message of u: the evicted, and u if he had no session, start with     *)
(* empty ones.                                                             *)
Remembered(f, u, empty) ==
    [v \in Users |->
       IF v \in Evicted \/ (v = u /\ ~HasSession(u)) THEN empty ELSE f[v]]

OtherMessage(u) ==
    /\ Dispatch(u)
    /\ clicked_msg_id' = Remembered(clicked_msg_id, u, 0)
    /\ recent_msg_ids' = Remembered(recent_msg_ids, u, {})
    /\ UNCHANGED <<chat, issues, rosters, history>>

MenuOf(u) ==
    CASE u \in Staff -> "kb_staff"
      [] u \in v_allowed_contractors \ Staff -> "kb_contractor"
      [] OTHER -> "kb_consumer"

MenuSent(u) ==
    /\ Len(chat[u]) < MaxMessages[u]
    /\ chat' = [chat EXCEPT ![u] =
                  Append(@, [about |-> Menu, kb |-> MenuOf(u)])]

(* on_start_command.  If the menu cannot be sent, the handler has done     *)
(* what OtherMessage does.                                                 *)
Start(u) ==
    /\ Dispatch(u)
    /\ MenuSent(u)
    /\ clicked_msg_id' = [Remembered(clicked_msg_id, u, 0)
                            EXCEPT ![u] = Len(chat[u]) + 1]
    /\ recent_msg_ids' = Remembered(recent_msg_ids, u, {})
    /\ UNCHANGED <<issues, rosters, history>>

(* The menu is sent and the answer lost: the exception leaves the handler  *)
(* before the id is stored, and an older menu stays the clicked one.       *)
MenuUnanswered(u) ==
    /\ Dispatch(u)
    /\ MenuSent(u)
    /\ clicked_msg_id' = Remembered(clicked_msg_id, u, 0)
    /\ recent_msg_ids' = Remembered(recent_msg_ids, u, {})
    /\ unsure' = [unsure EXCEPT ![u] = @ \cup {Len(chat[u]) + 1}]
    /\ UNCHANGED <<issues, rosters, started, again>>

(* reload_contractors_list adds to the ids chanserv knows. *)
Reloaded == v_allowed_contractors \cup contractors'

(* Mutation: the list is read before the row is written. *)
Announced_ReloadFirst(u, sent) ==
    /\ v_allowed_contractors' = v_allowed_contractors \cup contractors
    /\ unannounced' = IF sent THEN {} ELSE unannounced \cup {u}

(* The answer to the one who adds a contractor comes before the list is    *)
(* read again, if the answer can be sent and the list can be read.         *)
Announced(u, sent) ==
    /\ v_allowed_contractors' = IF sent THEN Reloaded
                                ELSE v_allowed_contractors
    /\ unannounced' = IF sent THEN {} ELSE unannounced \cup {u}

(* staff_add_new_contractor: a message of s, who is at that step of his    *)
(* dialogue (module Dialogue), adds u.                                     *)
AddContractor(s, u, sent) ==
    /\ s \in Staff
    /\ HasSession(s) /\ s \notin Evicted
    /\ u \notin contractors
    /\ Dispatch(s)
    /\ clicked_msg_id' = Remembered(clicked_msg_id, s, 0)
    /\ recent_msg_ids' = Remembered(recent_msg_ids, s, {})
    /\ contractors' = contractors \cup {u}
    /\ Announced(u, sent)
    /\ UNCHANGED <<chat, issues, v_contractors, history>>

-----------------------------------------------------------------------------
(* Buttons *)

(* A press that changes no more than the age of the session: somebody      *)
(* else's button, an old menu, a task of an earlier list, "more photos".   *)
PressWithoutEffect(u) ==
    /\ Press(u)
    /\ UNCHANGED <<chat, memory, issues, rosters, history>>

KeyDecision(p, r) ==
    /\ p \in Staff
    /\ Decide(p, r)
    /\ UNCHANGED <<chat, memory, issues, rosters, history>>

(* new_task, new_family: the menu is used up (the rest is Dialogue). *)
OpenDialogue(u) ==
    /\ Press(u)
    /\ clicked_msg_id[u] \in Messages(u)
    /\ chat[u][clicked_msg_id[u]].about = Menu
    /\ clicked_msg_id' = [clicked_msg_id EXCEPT ![u] = 0]
    /\ UNCHANGED <<chat, recent_msg_ids, issues, rosters, history>>

(* SELECT without ORDER BY. *)
Orders(S) == {list \in [1 .. Cardinality(S) -> S] : IsInjective(list)}

ListOf(list) ==
    [n \in DOMAIN list |-> [about |-> list[n], kb |-> "kb_start_solving"]]

(* my_tasks and get_my_issues: the rows of the contractor, a message each, *)
(* in the place of the last list; none if the statement fails.  A message  *)
(* that cannot be sent ends the process (Restart): it is sent in a thread. *)
MyTasks(u) ==
    /\ Press(u)
    /\ clicked_msg_id[u] \in Messages(u)
    /\ chat[u][clicked_msg_id[u]].kb \in {"kb_contractor", "kb_staff"}
    /\ \E list \in Orders({i \in Issues : issues[i] = u}) \cup {<<>>} :
          /\ Len(chat[u]) + Len(list) <= MaxMessages[u]
          /\ chat' = [chat EXCEPT ![u] = @ \o ListOf(list)]
          /\ recent_msg_ids' = [recent_msg_ids EXCEPT ![u] =
                {Len(chat[u]) + n : n \in DOMAIN list}]
    /\ clicked_msg_id' = [clicked_msg_id EXCEPT ![u] = 0]
    /\ unsure' = [unsure EXCEPT ![u] = {}]
    /\ UNCHANGED <<issues, rosters, started, again>>

(* Mutation: the pressed message is not looked for in the last list. *)
Selected_AnyMessage(u, m) == m \in Messages(u) /\ chat[u][m].about # Menu

(* get_selected_issue_id: the message is one of the last list. *)
Selected(u, m) == m \in Messages(u) /\ m \in recent_msg_ids[u]

ShowKeyboard(u, m, kb) == chat' = [chat EXCEPT ![u][m].kb = kb]

(* Telegram refuses to replace a keyboard by an equal one. *)
Replaceable(u, m, kb) == chat[u][m].kb # kb

(* start_solving, pressed at a message of the last list whatever button it *)
(* shows by now: "finish" comes back to a task that is done.               *)
CanStart(u, m) ==
    /\ Press(u)
    /\ Selected(u, m)
    /\ clicked_msg_id[u] = 0
    /\ Replaceable(u, m, "kb_task_closing")
    /\ ShowKeyboard(u, m, "kb_task_closing")
    /\ started' = started \cup {<<u, chat[u][m].about>>}

(* The button becomes "finish", and the message the clicked one.  The      *)
(* colour of the card is left out.                                         *)
StartSolving(u, m) ==
    /\ CanStart(u, m)
    /\ clicked_msg_id' = [clicked_msg_id EXCEPT ![u] = m]
    /\ UNCHANGED <<recent_msg_ids, issues, rosters, unsure, again>>

(* The edit is made and its answer lost; the exception is swallowed.  A    *)
(* refused edit changes nothing.                                           *)
StartUnanswered(u, m) ==
    /\ CanStart(u, m)
    /\ UNCHANGED <<memory, issues, rosters, unsure, again>>

(* A press of "finish" needs a message that has had that button. *)
CanClose(u, m) ==
    /\ Press(u)
    /\ Selected(u, m)
    /\ chat[u][m].kb \in {"kb_task_closing", "kb_task_done"}
    /\ clicked_msg_id[u] # 0

(* The button becomes "done". *)
ShowDone(u, m) ==
    /\ ShowKeyboard(u, m, "kb_task_done")
    /\ started' = started \ {<<u, chat[u][m].about>>}

(* Staff is told; whether the row was there does not matter.               *)
Told(u, i) ==
    again' = IF <<u, i>> \in started THEN again ELSE again \cup {<<u, i>>}

(* Mutation: the clicked message is kept. *)
TaskClosing_ClickedKept(u, m, deleted) ==
    LET i == chat[u][m].about
    IN  /\ CanClose(u, m)
        /\ Replaceable(u, m, "kb_task_done")
        /\ ShowDone(u, m)
        /\ issues' = IF deleted THEN [issues EXCEPT ![i] = NoRow] ELSE issues
        /\ Told(u, i)
        /\ UNCHANGED <<memory, rosters, unsure>>

(* Mutation: an exception of the edit is swallowed, as that of start is. *)
TaskClosing_RefusalSwallowed(u, m, deleted) ==
    LET i == chat[u][m].about
    IN  /\ CanClose(u, m)
        /\ ShowDone(u, m)
        /\ clicked_msg_id' = [clicked_msg_id EXCEPT ![u] = 0]
        /\ issues' = IF deleted THEN [issues EXCEPT ![i] = NoRow] ELSE issues
        /\ Told(u, i)
        /\ UNCHANGED <<recent_msg_ids, rosters, unsure>>

(* task_closing: the button becomes "done", staff is told, the card is     *)
(* archived and the row deleted, whoever it belongs to now.                *)
TaskClosing(u, m, deleted) ==
    LET i == chat[u][m].about
    IN  /\ CanClose(u, m)
        /\ Replaceable(u, m, "kb_task_done")
        /\ ShowDone(u, m)
        /\ clicked_msg_id' = [clicked_msg_id EXCEPT ![u] = 0]
        /\ issues' = IF deleted THEN [issues EXCEPT ![i] = NoRow] ELSE issues
        /\ Told(u, i)
        /\ UNCHANGED <<recent_msg_ids, rosters, unsure>>

(* The box "you have finished the task" cannot be sent: nothing after it   *)
(* is done.                                                                *)
ClosingNotAnswered(u, m) ==
    /\ CanClose(u, m)
    /\ Replaceable(u, m, "kb_task_done")
    /\ ShowDone(u, m)
    /\ clicked_msg_id' = [clicked_msg_id EXCEPT ![u] = 0]
    /\ UNCHANGED <<recent_msg_ids, issues, rosters, unsure, again>>

(* The edit is made and its answer lost. *)
ClosingUnanswered(u, m) ==
    /\ CanClose(u, m)
    /\ Replaceable(u, m, "kb_task_done")
    /\ ShowDone(u, m)
    /\ unsure' = [unsure EXCEPT ![u] = @ \cup {m}]
    /\ UNCHANGED <<memory, issues, rosters, again>>

-----------------------------------------------------------------------------
(* The processes and the board *)

(* supervisord starts chanserv again: memory is empty, rosters are read. *)
Restart ==
    /\ ForgetSessions
    /\ clicked_msg_id' = [u \in Users |-> 0]
    /\ recent_msg_ids' = [u \in Users |-> {}]
    /\ v_allowed_contractors' = contractors
    /\ unannounced' = {}
    /\ unsure' = [u \in Users |-> {}]
    /\ UNCHANGED <<chat, issues, contractors, v_contractors, started, again>>

(* listchecker reads the table when it starts, and not again. *)
CheckerRestart ==
    /\ v_contractors' = contractors
    /\ UNCHANGED <<sessions, chat, memory, issues, contractors,
                   v_allowed_contractors, unannounced, history>>

(* What listchecker does with a row (module ListChecker). *)
RowAssigned(i, u) ==
    /\ issues[i] = Nobody
    /\ u \in v_contractors
    /\ issues' = [issues EXCEPT ![i] = u]

RowTakenBack(i) ==
    /\ issues[i] \in Users
    /\ issues' = [issues EXCEPT ![i] = Nobody]

RowRemoved(i) ==
    /\ issues[i] # NoRow
    /\ issues' = [issues EXCEPT ![i] = NoRow]

Board(i) ==
    /\ \/ \E u \in Users : RowAssigned(i, u)
       \/ RowTakenBack(i)
       \/ RowRemoved(i)
    /\ UNCHANGED <<sessions, chat, memory, rosters, history>>

Time ==
    /\ TimePasses(1)
    /\ UNCHANGED <<chat, memory, issues, rosters, history>>

ContractorMessage(u) ==
    \/ OtherMessage(u)
    \/ Start(u)
    \/ MenuUnanswered(u)
    \/ \E v \in Users, sent \in BOOLEAN : AddContractor(u, v, sent)

ContractorButton(u) ==
    \/ PressWithoutEffect(u)
    \/ \E r \in Users : KeyDecision(u, r)
    \/ OpenDialogue(u)
    \/ MyTasks(u)
    \/ \E m \in Messages(u) :
          \/ StartSolving(u, m)
          \/ StartUnanswered(u, m)
          \/ \E deleted \in BOOLEAN : TaskClosing(u, m, deleted)
          \/ ClosingNotAnswered(u, m)
          \/ ClosingUnanswered(u, m)

Next ==
    \/ \E u \in Users : ContractorMessage(u) \/ ContractorButton(u)
    \/ \E i \in Issues : Board(i)
    \/ Time
    \/ Restart
    \/ CheckerRestart

Spec == Init /\ [][Next]_vars

-----------------------------------------------------------------------------
(* Properties *)

TypeOK ==
    /\ SessionsTypeOK
    /\ chat \in [Users -> Seq(Message)]
    /\ clicked_msg_id \in [Users -> Nat]
    /\ recent_msg_ids \in [Users -> SUBSET Nat]
    /\ issues \in [Issues -> Users \cup {Nobody, NoRow}]
    /\ contractors \subseteq Users
    /\ v_allowed_contractors \subseteq Users
    /\ v_contractors \subseteq Users
    /\ unannounced \subseteq Users
    /\ unsure \in [Users -> SUBSET Nat]
    /\ started \subseteq Users \X Issues
    /\ again \subseteq Users \X Issues

(* The menu at message m is the newest one in the chat, but for menus      *)
(* whose answer was lost.                                                  *)
NewestMenu(u, m) ==
    /\ chat[u][m].about = Menu
    /\ \A n \in Messages(u) :
          n > m /\ chat[u][n].about = Menu => n \in unsure[u]

(* The one field clicked_msg_id serves menus and tasks: it is the newest   *)
(* menu or a task of the last list, so a button of an old menu or an old   *)
(* list does not meet its guard (comment at callbacks.cpp:70).  If         *)
(* Telegram's answer to a menu was lost, the one before it stays current.  *)
ClickedIsCurrent ==
    \A u \in Users :
        clicked_msg_id[u] # 0 =>
            /\ clicked_msg_id[u] \in Messages(u)
            /\ \/ NewestMenu(u, clicked_msg_id[u])
               \/ clicked_msg_id[u] \in recent_msg_ids[u]

(* A task that blocks the others can be finished: while a task is the      *)
(* clicked one its message shows "finish", unless Telegram's answer to an  *)
(* edit was lost.  Otherwise no other task could be started (line 197).    *)
BlockingTaskCanBeFinished ==
    \A u \in Users :
        LET m == clicked_msg_id[u]
        IN  m \in recent_msg_ids[u] /\ m \notin unsure[u]
               => chat[u][m].kb = "kb_task_closing"

(* However often "finish" is pressed, and whatever else is pressed and     *)
(* sent in between, staff is told that a contractor has finished a task    *)
(* only once for each time he has started it.  It is a promise to each     *)
(* contractor's messages: two who have both had the task in their lists    *)
(* can each finish it (callbacks.cpp:268-291 asks neither the row nor its  *)
(* contractor).                                                            *)
FinishedOncePerStart == again = {}

(* Whoever listchecker gives a task to gets the menu with "my tasks",      *)
(* although the two processes read the table at different times; only      *)
(* after an answer to staff that failed is he unknown to chanserv.         *)
AssignedCanList ==
    \A i \in Issues :
        issues[i] \in Users
            => issues[i] \in v_allowed_contractors \cup unannounced

(* The table as listchecker keeps it (ListChecker!ImplementsIssueTable);   *)
(* here all issues have been created.                                      *)
Table == INSTANCE IssueTable WITH
            Tasks <- Issues, Workers <- Users,
            raised <- Issues, worker <- issues

ImplementsIssueTable == Table!Spec
=============================================================================
