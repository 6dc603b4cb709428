--------------------------- MODULE IssueCreation ---------------------------
(***************************************************************************)
(* create_new_issue: what becomes of a finished dialogue.  The thread that *)
(* runs it is joined by the main thread, so issues are created one after   *)
(* another; each needs a card at the Trello board, a row of table issues   *)
(* and an issue in Jira, and each of the three may fail by itself.  An     *)
(* exception outside the try blocks leaves the thread and ends the process.*)
(*                                                                         *)
(* Dialogues are numbered as they begin; one that is left unfinished stays *)
(* in the session's task, and becomes no issue.                            *)
(*                                                                         *)
(* An issue of type FAMILY is created as one of type BIMTASK is.           *)
(***************************************************************************)
EXTENDS Naturals, Sequences, FiniteSets

CONSTANTS
    MaxIssues,     \* bound: dialogues of one behaviour
    MaxPhotos,     \* bound: pictures sent in one dialogue
    JiraStart      \* how many issues a Jira project may have at first

ASSUME IssueCreationAssumption ==
    /\ MaxIssues \in Nat
    /\ MaxPhotos \in Nat
    /\ JiraStart \subseteq Nat

Types    == {"BIMTASK", "TEKLA"}
Projects == {"USERTASKS", "TEKLA"}

(* An issue goes by the number of its dialogue; so does its card, if it    *)
(* has one.                                                                *)
Numbers  == 1 .. MaxIssues
NoCard   == 0
Pictures == Numbers \X (1 .. MaxPhotos)     \* of which dialogue, and which

VARIABLES
    pc,       \* where create_new_issue is
    issue,    \* the number of the issue in hand, or of the last dialogue
    jira_task,        \* the dialogue's task: type, id_card, pictures
    created_card_id,  \* of the session; outlives a task
    left,     \* the pictures the loop in hand has still to attach
    res_issue_num,    \* what create_task has returned
    rows,     \* table issues: the issue of a row and its idCard
    jira,     \* per project and number of Jira: whose issue it is; 0 is
              \* somebody else's
    onCards, inJira,  \* pictures attached to a card, to an issue of Jira
    kinds,    \* history: the type of each issue
    reported, \* history: failures support was told of, per issue
    misread,  \* history: issues whose answer from Jira was no JSON
    accepted, \* history: issues whose user was told that work has begun
    finished, \* history: issues create_new_issue has returned from
    abandoned \* history: dialogues left before their last step

session == <<jira_task, created_card_id>>
local   == <<left, res_issue_num>>
outside == <<rows, jira, onCards, inJira>>
history == <<kinds, reported, misread, accepted, finished, abandoned>>
vars    == <<pc, issue, session, local, outside, history>>

EmptyTask == [type |-> "BIMTASK", id_card |-> NoCard,
              v_local_file_paths |-> {}]

Init ==
    /\ pc = "idle" /\ issue = 0
    /\ jira_task = EmptyTask /\ created_card_id = NoCard
    /\ left = {} /\ res_issue_num = 0
    /\ rows = {} /\ onCards = {} /\ inJira = {}
    /\ \E k \in JiraStart : jira = [p \in Projects |-> [i \in 1 .. k |-> 0]]
    /\ kinds = [n \in Numbers |-> "BIMTASK"]
    /\ reported = {} /\ misread = {} /\ accepted = {} /\ finished = {}
    /\ abandoned = {}

Report(what) == reported' = reported \cup {<<issue, what>>}

-----------------------------------------------------------------------------
(* Card, row and pictures; an issue of Tekla has none of them *)

(* The task of a dialogue with its pictures.  The buttons new_task and     *)
(* new_family have cleared the task, tekla_general_issue has not: it takes *)
(* over what a dialogue left in it.                                        *)
TaskAtEnd(type, photos) ==
    LET begun == IF type = "TEKLA" THEN jira_task ELSE EmptyTask
    IN  [begun EXCEPT !.type = type, !.v_local_file_paths = @ \cup photos]

(* The user sends pictures and answers the dialogue no further.            *)
LeaveDialogue(type, n) ==
    /\ pc = "idle" /\ issue < MaxIssues
    /\ issue' = issue + 1
    /\ jira_task' = TaskAtEnd(type, {issue + 1} \X (1 .. n))
    /\ abandoned' = abandoned \cup {issue + 1}
    /\ UNCHANGED <<pc, created_card_id, local, outside, kinds, reported,
                   misread, accepted, finished>>

(* /start and /help clear the task. *)
StartOver ==
    /\ pc = "idle"
    /\ jira_task' = EmptyTask
    /\ UNCHANGED <<pc, issue, created_card_id, local, outside, history>>

(* Mutation: created_card_id is not cleared before the next issue. *)
CreateNewIssue_CardIdStays(type, n) ==
    /\ pc = "idle" /\ issue < MaxIssues
    /\ issue' = issue + 1
    /\ jira_task' = TaskAtEnd(type, {issue + 1} \X (1 .. n))
    /\ pc' = IF type = "TEKLA" THEN "tell" ELSE "card"
    /\ kinds' = [kinds EXCEPT ![issue + 1] = type]
    /\ UNCHANGED <<created_card_id, local, outside, reported, misread,
                   accepted, finished, abandoned>>

CreateNewIssue(type, n) ==
    /\ pc = "idle" /\ issue < MaxIssues
    /\ issue' = issue + 1
    /\ jira_task' = TaskAtEnd(type, {issue + 1} \X (1 .. n))
    /\ created_card_id' = NoCard
    /\ pc' = IF type = "TEKLA" THEN "tell" ELSE "card"
    /\ kinds' = [kinds EXCEPT ![issue + 1] = type]
    /\ UNCHANGED <<local, outside, reported, misread, accepted, finished,
                   abandoned>>

CardCreated ==
    /\ pc = "card"
    /\ created_card_id' = issue
    /\ jira_task' = [jira_task EXCEPT !.id_card = issue]
    /\ pc' = "row"
    /\ UNCHANGED <<issue, local, outside, history>>

(* An error, or an answer without the card's id.  Support is told, from    *)
(* the try block or from its handler.                                      *)
CardFailed ==
    /\ pc = "card"
    /\ Report("card")
    /\ jira_task' = [jira_task EXCEPT !.id_card = created_card_id]
    /\ pc' = "row"
    /\ UNCHANGED <<issue, created_card_id, local, outside, kinds, misread,
                   accepted, finished, abandoned>>

RowDone(written) ==
    /\ pc = "row"
    /\ rows' = IF written
               THEN rows \cup {[of |-> issue, idCard |-> jira_task.id_card]}
               ELSE rows
    /\ left' = IF created_card_id # NoCard
               THEN jira_task.v_local_file_paths ELSE {}
    /\ pc' = "pictures"

RowWritten ==
    /\ RowDone(TRUE)
    /\ UNCHANGED <<issue, session, res_issue_num, jira, onCards, inJira,
                   history>>

(* The INSERT or the COMMIT has failed; after the latter the row may be    *)
(* there.                                                                  *)
RowFailed ==
    /\ \E there \in BOOLEAN : RowDone(there)
    /\ Report("row")
    /\ UNCHANGED <<issue, session, res_issue_num, jira, onCards, inJira,
                   kinds, misread, accepted, finished, abandoned>>

(* The loop looks at no result of add_img_to_card. *)
AddImgToCard ==
    /\ pc = "pictures"
    /\ \E p \in left, ok \in BOOLEAN :
          /\ left' = left \ {p}
          /\ onCards' = IF ok THEN onCards \cup {<<created_card_id, p>>}
                        ELSE onCards
    /\ UNCHANGED <<pc, issue, session, res_issue_num, rows, jira, inJira,
                   history>>

(* The loop is over; staff is told, member by member. *)
NotifyStaff ==
    /\ pc = "pictures" /\ left = {}
    /\ pc' = "tell"
    /\ UNCHANGED <<issue, session, local, outside, history>>

(* "Ваша задача поступила в работу" *)
TellUser ==
    /\ pc = "tell"
    /\ accepted' = accepted \cup {issue}
    /\ pc' = "jira"
    /\ UNCHANGED <<issue, session, local, outside, kinds, reported, misread,
                   finished, abandoned>>

-----------------------------------------------------------------------------
(* Jira's part *)

Project == IF jira_task.type = "TEKLA" THEN "TEKLA" ELSE "USERTASKS"
WithNewIssue == [jira EXCEPT ![Project] = Append(@, issue)]

(* Mutation: only 0 counts as an error. *)
IsError_Zero(res) == res = 0

(* The caller takes 1 and 2 for errors and all the rest for the number of  *)
(* the new issue.                                                          *)
IsError(res) == res < 3

TakeResult(res) ==
    /\ res_issue_num' = res
    /\ IF IsError(res)
       THEN Report("jira") /\ left' = {} /\ pc' = "clear"
       ELSE /\ left' = jira_task.v_local_file_paths
            /\ pc' = "attach"
            /\ UNCHANGED reported
    /\ UNCHANGED <<issue, session, rows, onCards, inJira, kinds, accepted,
                   finished, abandoned>>

JiraCreated ==
    /\ pc = "jira"
    /\ jira' = WithNewIssue
    /\ TakeResult(Len(jira[Project]) + 1)
    /\ UNCHANGED misread

(* No request (1), no answer or a status that is not 2xx (2), an answer    *)
(* without key (0).  After a request Jira may have created the issue.      *)
JiraFailed ==
    /\ pc = "jira"
    /\ \E res \in {0, 1, 2} :
          /\ TakeResult(res)
          /\ \/ jira' = jira
             \/ res # 1 /\ jira' = WithNewIssue
    /\ UNCHANGED misread

(* A 2xx answer that is no JSON: create_task returns 3. *)
JiraAnswerUnreadable ==
    /\ pc = "jira"
    /\ jira' \in {jira, WithNewIssue}
    /\ TakeResult(3)
    /\ misread' = misread \cup {issue}

(* add_attach says nothing of the status of the answer, and the loop would *)
(* not listen.                                                             *)
AddAttach ==
    /\ pc = "attach"
    /\ \E p \in left, ok \in BOOLEAN :
          /\ left' = left \ {p}
          /\ inJira' = IF ok /\ res_issue_num <= Len(jira[Project])
                       THEN inJira \cup {<<Project, res_issue_num, p>>}
                       ELSE inJira
    /\ UNCHANGED <<pc, issue, session, res_issue_num, rows, jira, onCards,
                   history>>

(* Tekla's administrator is told; if that fails, support is, as if Jira    *)
(* had no issue.                                                           *)
JiraDone ==
    /\ pc = "attach" /\ left = {}
    /\ \/ UNCHANGED reported
       \/ jira_task.type = "TEKLA" /\ Report("jira")
    /\ pc' = "clear"
    /\ UNCHANGED <<issue, session, local, outside, kinds, misread, accepted,
                   finished, abandoned>>

(* Mutation: the task is not cleared. *)
Clear_TaskStays ==
    /\ pc = "clear"
    /\ finished' = finished \cup {issue}
    /\ res_issue_num' = 0
    /\ pc' = "idle"
    /\ UNCHANGED <<issue, session, left, outside, kinds, reported, misread,
                   accepted, abandoned>>

Clear ==
    /\ pc = "clear"
    /\ jira_task' = EmptyTask
    /\ finished' = finished \cup {issue}
    /\ res_issue_num' = 0
    /\ pc' = "idle"
    /\ UNCHANGED <<issue, created_card_id, left, outside, kinds, reported,
                   misread, accepted, abandoned>>

(* A message that is sent outside the try blocks, or in one of their       *)
(* handlers, throws; or the process dies.  The sessions are gone.          *)
ProcessEnds ==
    /\ pc' = "idle"
    /\ jira_task' = EmptyTask
    /\ created_card_id' = NoCard
    /\ left' = {} /\ res_issue_num' = 0
    /\ UNCHANGED <<issue, outside, history>>

TrelloPart == \/ CardCreated \/ CardFailed \/ RowWritten \/ RowFailed
              \/ AddImgToCard \/ NotifyStaff \/ TellUser

JiraPart == \/ JiraCreated \/ JiraFailed \/ JiraAnswerUnreadable
            \/ AddAttach \/ JiraDone \/ Clear

Next == \/ \E type \in Types, n \in 0 .. MaxPhotos : CreateNewIssue(type, n)
        \/ \E type \in Types, n \in 0 .. MaxPhotos : LeaveDialogue(type, n)
        \/ StartOver
        \/ TrelloPart
        \/ JiraPart
        \/ ProcessEnds

Spec == Init /\ [][Next]_vars

-----------------------------------------------------------------------------
(* Properties *)

TypeOK ==
    /\ pc \in {"idle", "card", "row", "pictures", "tell", "jira", "attach",
               "clear"}
    /\ issue \in 0 .. MaxIssues
    /\ jira_task \in [type: Types, id_card: 0 .. MaxIssues,
                      v_local_file_paths: SUBSET Pictures]
    /\ created_card_id \in 0 .. MaxIssues
    /\ left \subseteq Pictures
    /\ res_issue_num \in Nat
    /\ rows \subseteq [of: Numbers, idCard: 0 .. MaxIssues]
    /\ jira \in [Projects -> Seq(0 .. MaxIssues)]
    /\ onCards \subseteq (0 .. MaxIssues) \X Pictures
    /\ inJira \subseteq Projects \X Nat \X Pictures
    /\ kinds \in [Numbers -> Types]
    /\ reported \subseteq Numbers \X {"card", "row", "jira"}
    /\ misread \subseteq Numbers
    /\ accepted \subseteq Numbers
    /\ finished \subseteq Numbers
    /\ abandoned \subseteq Numbers

(* A row names the card of its own issue or, if Trello gave none, none     *)
(* (structures.h:122), whatever issues the session has created before.     *)
RowNamesItsCard == \A r \in rows : r.idCard \in {r.of, NoCard}

(* "Аттачим все присланные изображения в задачу Jira" (chanserv.cpp:312):  *)
(* a picture hangs at the Jira issue of the issue it was sent for.         *)
AttachedToTheNewIssue == \A a \in inJira : jira[a[1]][a[2]] = a[3][1]

(* Issue n is the one dialogue d was held for, or a Tekla issue before     *)
(* which d and everything since was left unfinished: tekla_general_issue   *)
(* does not clear the task (callbacks.cpp:158-167).                        *)
MayCarry(n, d) ==
    \/ d = n
    \/ kinds[n] = "TEKLA" /\ d < n /\ d .. (n - 1) \subseteq abandoned

(* The same of Trello and Jira together: whatever was created or left      *)
(* unfinished before in the session and whatever failed, a picture hangs   *)
(* at the card of its own issue only, and in Jira at an issue that may     *)
(* carry it: its own or, since the code does not prevent that, the Tekla   *)
(* issue that took over its dialogue.  A finished issue's pictures reach   *)
(* no later one.  The exception is an answer of Jira that is no JSON,      *)
(* which sends the pictures of its issue to number 3.                      *)
PicturesStayWithTheirIssue ==
    /\ \A c \in onCards : c[1] = c[2][1]
    /\ \A a \in inJira :
          \/ /\ jira[a[1]][a[2]] \in Numbers
             /\ MayCarry(jira[a[1]][a[2]], a[3][1])
          \/ \E n \in misread : a[2] = 3 /\ MayCarry(n, a[3][1])

RowAccounted(n) ==
    \/ <<n, "row">> \in reported
    \/ [of |-> n, idCard |-> n] \in rows
    \/ /\ <<n, "card">> \in reported
       /\ [of |-> n, idCard |-> NoCard] \in rows

JiraHas(n) == \E p \in Projects : \E k \in DOMAIN jira[p] : jira[p][k] = n

(* Of an issue whose user was told that work has begun, support knows if   *)
(* it has no row, or a row without its card; and when create_new_issue has *)
(* returned, support knows if Jira has no issue, unless it was misled.     *)
NothingFailsInSilence ==
    /\ \A n \in accepted : kinds[n] = "TEKLA" \/ RowAccounted(n)
    /\ \A n \in finished \ misread : <<n, "jira">> \in reported \/ JiraHas(n)
=============================================================================
