---------------------------- MODULE ListChecker ----------------------------
(***************************************************************************)
(* The Trello board, table issues, and the two processes that keep them    *)
(* together: listchecker, which every 30 seconds goes once over the cards  *)
(* of the table, and chanserv, which adds an issue and closes it when its  *)
(* contractor has finished.  People move, archive and delete cards at any  *)
(* time.                                                                   *)
(*                                                                         *)
(* The two processes share only the table and the board, so one action is  *)
(* what one process does between two points where the other can be seen.   *)
(* An exception of Telegram or Trello leaves the timer's slot and ends     *)
(* listchecker; supervisord starts it again.                               *)
(***************************************************************************)
EXTENDS Naturals, FiniteSets

CONSTANTS
    Cards,              \* issues, each with the card it was created with
    ContractorLists,    \* trello_list of the contractors
    distribution_list,  \* the column of new cards
    rework_list,        \* the column "rework"
    NoList,             \* no column: '' or NULL in the table
    DbFails,            \* may a single UPDATE or DELETE fail?
    MaxFailures         \* bound: failures of any kind in one behaviour

ASSUME ListCheckerAssumption ==
    /\ IsFiniteSet(Cards)
    /\ {distribution_list, rework_list, NoList} \cap ContractorLists = {}
    /\ distribution_list # rework_list
    /\ NoList \notin {distribution_list, rework_list}
    /\ DbFails \in BOOLEAN
    /\ MaxFailures \in Nat

Lists == ContractorLists \cup {distribution_list, rework_list}

(* A row of table issues.  The contractor_* columns are written together;  *)
(* contractor_list stands for them.                                        *)
Row == [card_status: {"pending", "underway"},
        idCard_list: Lists \cup {NoList},
        contractor_list: ContractorLists \cup {NoList}]

NoRow == [card_status |-> "none", idCard_list |-> NoList,
          contractor_list |-> NoList]

NewRow == [card_status |-> "pending", idCard_list |-> NoList,
           contractor_list |-> NoList]

OpenIn(l) == [state |-> "open", list |-> l]
Missing   == [state |-> "missing", list |-> NoList]

VARIABLES
    board,    \* per card: its column, and whether it is open, closed or
              \* missing (never created, or deleted)
    issues,   \* per card: its row
    raised,   \* the issues users have created so far
    pc,       \* where check_the_list is
    v_id_cards_,          \* the cards the pass has still to look at
    v_cards_to_delete_,   \* the closed cards the pass has met
    card,     \* the card in hand
    seen,     \* trello_card_list_id, the column get_card has returned
    db_card_list_id,      \* the column sync_distributed_card has returned
    cached,   \* per card: the contractors with the card in pgdb_issues
    closing,  \* the cards chanserv has archived and not yet deleted
    told,     \* history: how often "you have a new task" was sent to the
              \* contractor since the card was last without one
    failures  \* history: how many failures there have been

inHand  == <<card, seen, db_card_list_id>>
work    == <<v_id_cards_, v_cards_to_delete_, inHand>>
checker == <<pc, work>>
bot     == <<raised, cached, closing>>
vars    == <<board, issues, checker, bot, told, failures>>

Init ==
    /\ board = [c \in Cards |-> Missing]
    /\ issues = [c \in Cards |-> NoRow]
    /\ raised = {}
    /\ pc = "idle"
    /\ v_id_cards_ = {}
    /\ v_cards_to_delete_ = {}
    /\ card \in Cards
    /\ seen = NoList
    /\ db_card_list_id = NoList
    /\ cached = [c \in Cards |-> {}]
    /\ closing = {}
    /\ told = [c \in Cards |-> 0]
    /\ failures = 0

Present(c) == issues[c] # NoRow
Gone(c)    == board[c].state # "open"

(* Something failed, if failures are left. *)
Fail == failures < MaxFailures /\ failures' = failures + 1

Unless(ok) == IF ok THEN failures' = failures ELSE Fail

(* A statement of the database either works, or fails where it may. *)
Statement(ok) ==
    IF ok THEN failures' = failures ELSE DbFails /\ Fail

-----------------------------------------------------------------------------
(* listchecker: one pass *)

(* checks_bootstrap: nothing to do without rows. *)
SelectCards ==
    /\ pc = "idle"
    /\ v_id_cards_' = {c \in Cards : Present(c)}
    /\ pc' = IF v_id_cards_' = {} THEN "idle" ELSE "pass"
    /\ UNCHANGED <<board, issues, v_cards_to_delete_, inHand, bot, told,
                   failures>>

(* SELECT without ORDER BY: the next card is any card not yet looked at. *)
Take(c) ==
    /\ pc = "pass"
    /\ c \in v_id_cards_
    /\ v_id_cards_' = v_id_cards_ \ {c}
    /\ card' = c

GetCard(c) ==
    /\ Take(c)
    /\ board[c].state # "missing"
    /\ seen' = board[c].list
    /\ v_cards_to_delete_' = IF board[c].state = "closed"
                             THEN v_cards_to_delete_ \cup {c}
                             ELSE v_cards_to_delete_
    /\ pc' = "sync"
    /\ UNCHANGED <<board, issues, db_card_list_id, bot, told, failures>>

(* Error 404: the row goes at once. *)
CardNotFound(c, ok) ==
    /\ Take(c)
    /\ board[c].state = "missing"
    /\ issues' = IF ok THEN [issues EXCEPT ![c] = NoRow] ELSE issues
    /\ Statement(ok)
    /\ UNCHANGED <<board, pc, v_cards_to_delete_, seen, db_card_list_id, bot,
                   told>>

(* request_failed, request_invalid or unknown: the card is left alone. *)
RequestFailed(c) ==
    /\ Take(c)
    /\ Fail
    /\ UNCHANGED <<board, issues, pc, v_cards_to_delete_, seen,
                   db_card_list_id, bot, told>>

(* Mutation: nothing is done about the contractor. *)
Synced_Kept(row) == row

(* Mutation: the status is reset, the contractor stays. *)
Synced_ContractorStays(row) ==
    IF row.idCard_list = distribution_list /\ row.contractor_list # NoList
    THEN [row EXCEPT !.card_status = "pending"]
    ELSE row

(* sync_distributed_card: a card that is back in the first column loses    *)
(* its contractor.                                                         *)
Synced(row) ==
    IF row.idCard_list = distribution_list /\ row.contractor_list # NoList
    THEN [row EXCEPT !.card_status = "pending", !.contractor_list = NoList]
    ELSE row

(* Mutation: the status of the row is not looked at. *)
NextStep_StatusIgnored(row) ==
    IF seen \in ContractorLists THEN "assign"
    ELSE IF row.idCard_list = rework_list THEN "rework" ELSE "pass"

(* What the rest of sync_n_manage_contractors_and_cards does with the row. *)
NextStep(row) ==
    IF row.card_status # "pending" THEN "pass"
    ELSE IF seen \in ContractorLists THEN "assign"
    ELSE IF row.idCard_list = rework_list THEN "rework" ELSE "pass"

(* UPDATE idCard_list and sync_distributed_card, and the SELECTs between   *)
(* them.  chanserv only ever deletes the row; a row that is gone answers   *)
(* every SELECT with an empty string.                                      *)
SyncCard(stored, cleared) ==
    LET listed == IF stored /\ Present(card)
                  THEN [issues[card] EXCEPT !.idCard_list = seen]
                  ELSE issues[card]
        row    == IF cleared THEN Synced(listed) ELSE listed
    IN  /\ pc = "sync"
        /\ Statement(stored /\ cleared)
        /\ cleared \/ Synced(listed) # listed
        /\ IF Present(card)
           THEN /\ issues' = [issues EXCEPT ![card] = row]
                /\ told' = IF row.contractor_list = NoList
                           THEN [told EXCEPT ![card] = 0] ELSE told
                /\ pc' = NextStep(row)
           ELSE /\ pc' = "pass"
                /\ UNCHANGED <<issues, told>>
        /\ db_card_list_id' = row.idCard_list
        /\ UNCHANGED <<board, v_id_cards_, v_cards_to_delete_, card, seen,
                       bot>>

(* After the assignment the pass still looks for the column "rework". *)
AfterAssignment ==
    IF db_card_list_id = rework_list THEN "rework" ELSE "pass"

(* Mutation: the UPDATE forgets the status. *)
Assigned_StatusStays(row) == [row EXCEPT !.contractor_list = seen]

Assigned(row) == [row EXCEPT !.card_status = "underway",
                             !.contractor_list = seen]

(* assign_contractor_to_card up to the commit. *)
AssignContractor(ok) ==
    /\ pc = "assign"
    /\ Statement(ok)
    /\ issues' = IF ok /\ Present(card)
                 THEN [issues EXCEPT ![card] = Assigned(@)] ELSE issues
    /\ pc' = IF ok THEN "tellConsumer" ELSE AfterAssignment
    /\ UNCHANGED <<board, work, bot, told>>

(* "<name> will do your task", to the consumer the row names. *)
TellConsumer ==
    /\ pc = "tellConsumer"
    /\ Present(card)
    /\ pc' = "tellContractor"
    /\ UNCHANGED <<board, issues, work, bot, told, failures>>

TellContractor ==
    /\ pc = "tellContractor"
    /\ told' = [told EXCEPT ![card] = IF @ < 2 THEN @ + 1 ELSE @]
    /\ pc' = AfterAssignment
    /\ UNCHANGED <<board, issues, work, bot, failures>>

(* rework_card_and_notify: the consumer is told to create a new task, ... *)
AskForNewTask ==
    /\ pc = "rework"
    /\ Present(card)
    /\ pc' = "archive"
    /\ UNCHANGED <<board, issues, work, bot, told, failures>>

Archived(c, ok) ==
    [board EXCEPT ![c] = IF ok /\ @.state = "open"
                         THEN [@ EXCEPT !.state = "closed"] ELSE @]

(* ... the card is archived, whatever Trello answers, ... *)
ArchiveReworked(ok) ==
    /\ pc = "archive"
    /\ board' = Archived(card, ok)
    /\ Unless(ok)
    /\ pc' = "remove"
    /\ UNCHANGED <<issues, work, bot, told>>

(* ... and the row is deleted. *)
RemoveReworked(ok) ==
    /\ pc = "remove"
    /\ issues' = IF ok THEN [issues EXCEPT ![card] = NoRow] ELSE issues
    /\ Statement(ok)
    /\ pc' = "pass"
    /\ UNCHANGED <<board, work, bot, told>>

(* Mutation: the cards are collected, and the rows stay. *)
DeleteCards_RowsStay(kept) ==
    /\ pc = "pass"
    /\ v_id_cards_ = {}
    /\ kept \subseteq v_cards_to_delete_
    /\ Statement(kept = {})
    /\ v_cards_to_delete_' = {}
    /\ pc' = "idle"
    /\ UNCHANGED <<board, issues, v_id_cards_, inHand, bot, told>>

(* delete_cards, at the end of the pass; kept are the rows whose DELETE    *)
(* failed.                                                                 *)
DeleteCards(kept) ==
    /\ pc = "pass"
    /\ v_id_cards_ = {}
    /\ kept \subseteq v_cards_to_delete_
    /\ Statement(kept = {})
    /\ issues' = [c \in Cards |-> IF c \in v_cards_to_delete_ \ kept
                                  THEN NoRow ELSE issues[c]]
    /\ v_cards_to_delete_' = {}
    /\ pc' = "idle"
    /\ UNCHANGED <<board, v_id_cards_, inHand, bot, told>>

Restarted ==
    /\ pc' = "idle"
    /\ v_id_cards_' = {}
    /\ v_cards_to_delete_' = {}
    /\ UNCHANGED <<board, issues, inHand, bot, told>>

(* The process is stopped, or something in the pass throws; a message that *)
(* Telegram refuses is the case at "tellConsumer", "tellContractor" and    *)
(* "rework".                                                               *)
Crash ==
    /\ Fail
    /\ Restarted

(* The row went away under the pass: the consumer's id is '' and the       *)
(* message to chat 0 throws.                                               *)
ConsumerUnknown ==
    /\ pc \in {"tellConsumer", "rework"}
    /\ ~Present(card)
    /\ Restarted
    /\ UNCHANGED failures

-----------------------------------------------------------------------------
(* chanserv *)

(* create_new_issue: the card, then the row.  Without a card the row has   *)
(* an empty idCard, for which Trello knows no card.                        *)
CreateIssue(c, cardOk, rowOk) ==
    /\ c \notin raised
    /\ Unless(cardOk /\ rowOk)
    /\ raised' = raised \cup {c}
    /\ board' = IF cardOk
                THEN [board EXCEPT ![c] = OpenIn(distribution_list)] ELSE board
    /\ issues' = IF rowOk THEN [issues EXCEPT ![c] = NewRow] ELSE issues
    /\ UNCHANGED <<checker, cached, closing, told>>

(* get_my_issues: the contractor's last list of tasks is replaced. *)
MyTasks(l) ==
    /\ cached' = [c \in Cards |-> IF issues[c].contractor_list = l
                                  THEN cached[c] \cup {l}
                                  ELSE cached[c] \ {l}]
    /\ UNCHANGED <<board, issues, raised, closing, checker, told, failures>>

(* task_closing: the card is archived, whatever Trello answers.  The task  *)
(* is taken from the contractor's list as it was when it was shown.        *)
TaskClosing(l, c, ok) ==
    /\ l \in cached[c]
    /\ closing = {}
    /\ closing' = {c}
    /\ cached' = [cached EXCEPT ![c] = @ \ {l}]
    /\ board' = Archived(c, ok)
    /\ Unless(ok)
    /\ UNCHANGED <<issues, raised, checker, told>>

DeleteClosed(c, ok) ==
    /\ c \in closing
    /\ closing' = {}
    /\ issues' = IF ok THEN [issues EXCEPT ![c] = NoRow] ELSE issues
    /\ Statement(ok)
    /\ UNCHANGED <<board, raised, cached, checker, told>>

BotRestart ==
    /\ Fail
    /\ cached' = [c \in Cards |-> {}]
    /\ closing' = {}
    /\ UNCHANGED <<board, issues, raised, checker, told>>

-----------------------------------------------------------------------------
(* People at the board *)

MoveCard(c, l) ==
    /\ ~Gone(c)
    /\ board' = [board EXCEPT ![c] = OpenIn(l)]

CloseCard(c) ==
    /\ ~Gone(c)
    /\ board' = [board EXCEPT ![c].state = "closed"]

ReopenCard(c) ==
    /\ board[c].state = "closed"
    /\ board' = [board EXCEPT ![c].state = "open"]

DeleteCard(c) ==
    /\ board[c].state = "closed"
    /\ board' = [board EXCEPT ![c] = Missing]

People ==
    /\ \E c \in Cards : \/ \E l \in Lists : MoveCard(c, l)
                        \/ CloseCard(c)
                        \/ ReopenCard(c)
                        \/ DeleteCard(c)
    /\ UNCHANGED <<issues, checker, bot, told, failures>>

-----------------------------------------------------------------------------
Checker ==
    \/ SelectCards
    \/ \E c \in Cards : \/ GetCard(c)
                        \/ \E ok \in BOOLEAN : CardNotFound(c, ok)
                        \/ RequestFailed(c)
    \/ \E stored, cleared \in BOOLEAN : SyncCard(stored, cleared)
    \/ \E ok \in BOOLEAN : AssignContractor(ok)
    \/ TellConsumer
    \/ TellContractor
    \/ AskForNewTask
    \/ \E ok \in BOOLEAN : ArchiveReworked(ok)
    \/ \E ok \in BOOLEAN : RemoveReworked(ok)
    \/ \E kept \in SUBSET Cards : DeleteCards(kept)
    \/ ConsumerUnknown

Bot ==
    \/ \E c \in Cards, cardOk, rowOk \in BOOLEAN :
          CreateIssue(c, cardOk, rowOk)
    \/ \E l \in ContractorLists : MyTasks(l)
    \/ \E l \in ContractorLists, c \in Cards, ok \in BOOLEAN :
          TaskClosing(l, c, ok)
    \/ \E c \in Cards, ok \in BOOLEAN : DeleteClosed(c, ok)
    \/ BotRestart

Next == Checker \/ Crash \/ Bot \/ People

(* The timer fires every 30 seconds and a pass goes on until it ends or    *)
(* throws.  Nothing is assumed of people or of chanserv; that failures are *)
(* finitely many is the bound MaxFailures.                                 *)
Spec == Init /\ [][Next]_vars /\ WF_vars(Checker)

-----------------------------------------------------------------------------
(* Properties *)

TypeOK ==
    /\ board \in [Cards -> [state: {"open", "closed", "missing"},
                            list: Lists \cup {NoList}]]
    /\ issues \in [Cards -> Row \cup {NoRow}]
    /\ raised \subseteq Cards
    /\ pc \in {"idle", "pass", "sync", "assign", "tellConsumer",
               "tellContractor", "rework", "archive", "remove"}
    /\ v_id_cards_ \subseteq Cards
    /\ v_cards_to_delete_ \subseteq Cards
    /\ card \in Cards
    /\ seen \in Lists \cup {NoList}
    /\ db_card_list_id \in Lists \cup {NoList}
    /\ cached \in [Cards -> SUBSET ContractorLists]
    /\ closing \subseteq Cards
    /\ told \in [Cards -> 0 .. 2]
    /\ failures \in 0 .. MaxFailures

(* A row waits for a contractor exactly when it names none, although four  *)
(* statements of two processes write the two columns.                      *)
PendingMeansUnassigned ==
    \A c \in Cards :
        Present(c) => (issues[c].card_status = "pending"
                         <=> issues[c].contractor_list = NoList)

(* A contractor hears of a task at most once until it is taken away again, *)
(* also when the pass dies between the commit and the message and the next *)
(* pass meets the same card (listchecker.cxx:50-77).                       *)
ToldOnce == \A c \in Cards : told[c] <= 1

(* The pass never archives, and never deletes as badly described, a task   *)
(* that has a contractor, as long as the column it has read back from the  *)
(* table is the one Trello named: after a failed UPDATE of the column the  *)
(* table's "rework" may be an old one (listchecker.cxx:156, 189-193).      *)
WorkIsNotThrownAway ==
    (/\ pc \in {"rework", "archive", "remove"}
     /\ Present(card)
     /\ db_card_list_id = seen)
        => issues[card].contractor_list = NoList

(* However the passes of listchecker and the buttons of chanserv mix, the  *)
(* table is what IssueTable promises: the UPDATE of an assignment asks for *)
(* neither status nor contractor (listchecker.cxx:38), and still no task   *)
(* goes from one contractor straight to another, and none comes back.      *)
ContractorOf == [c \in Cards |-> IF Present(c) THEN issues[c].contractor_list
                                 ELSE NoRow]

Table == INSTANCE IssueTable WITH
            Tasks <- Cards, Workers <- ContractorLists, Nobody <- NoList,
            worker <- ContractorOf

ImplementsIssueTable == Table!Spec

(* The row of a card that has been archived or deleted on the board goes,  *)
(* unless the card is taken back.                                          *)
GoneCardsLeaveTheTable ==
    \A c \in Cards :
        Present(c) /\ Gone(c) ~> ~Present(c) \/ ~Gone(c)

(* The row follows the card, although the column is read before the row    *)
(* is written and the card may move in between (listchecker.cxx:242-269):  *)
(* a pending card that stays with the contractors gets one of them, and a  *)
(* card that stays in the first column gets rid of its contractor.  It may *)
(* be the wrong contractor: of a card that moves from one contractor to    *)
(* another the code only ever corrects the first column.                   *)
RowFollowsTheCard ==
    \A c \in Cards :
        LET WithContractors == /\ ~Gone(c)
                               /\ board[c].list \in ContractorLists
            InFirstColumn   == board[c] = OpenIn(distribution_list)
            HasContractor   == issues[c].contractor_list # NoList
        IN  /\ Present(c) /\ WithContractors
                  ~> ~Present(c) \/ HasContractor \/ ~WithContractors
            /\ Present(c) /\ InFirstColumn
                  ~> ~Present(c) \/ ~HasContractor \/ ~InFirstColumn

(* "После завершения задачи, задача будет недоступна, и отправится в       *)
(* архив" (chanserv_callbacks.cpp:208): when chanserv has deleted the row  *)
(* of a finished task, its card is in the archive.                         *)
FinishedTaskIsArchived ==
    [][\A c \in closing :
          Present(c) /\ c \notin closing' /\ issues'[c] = NoRow
             => Gone(c)]_vars
=============================================================================
