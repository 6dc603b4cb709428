------------------------------ MODULE Dialogue ------------------------------
(***************************************************************************)
(* The chat dialogue of chanserv: the session table, the question wizards  *)
(* of a new task, a family and a Tekla issue, the service steps of staff   *)
(* and developer, and the request, approval and rejection of a Revit key.  *)
(*                                                                         *)
(* Every handler runs in the main thread, so a handler is one action.  A   *)
(* handler assigns a field, calls Telegram and only then moves stat_; the  *)
(* call may throw, and the parameter "sent" says whether it did not.  A    *)
(* worker thread of a handler (in_thread) is joined before the handler     *)
(* returns.  An exception that escapes it ends the process: that is        *)
(* Restart, taken after the effects the handler had until then.            *)
(***************************************************************************)
EXTENDS Access, FiniteSets

CONSTANTS
    Users,       \* Telegram users that talk to the bot
    Staff,       \* v_staff, the ids in table staff
    Developer,   \* the user whose id is support_TgID
    Offered,     \* per user, the callback data of the keyboards in reach
    Reasons,     \* texts a user may give as the reason of a key request
    nullptr      \* no session

(* The empty string, the texts the code itself puts into a field, and a    *)
(* message that is no keyboard of the running bot.                         *)
Empty         == 0
TeklaSubject  == 1   \* "Tekla"
FamilySubject == 2   \* "Создать семейство"
TeklaSection  == 3   \* "Проблемы"

(* An answer is represented by the step at which the user gave it.         *)
Answers == Steps \cup {Empty, TeklaSubject, FamilySubject, TeklaSection}

Types == {"", "BIMTASK", "FAMILY", "TEKLA", "DEVELOPER", "STAFF"}

Task == [type: Types, stat_: Steps,
         section: Answers, project: Answers, subj: Answers,
         category: Answers, description: Answers, consumer_name: Answers,
         photos: BOOLEAN, key_reason: Reasons \cup {Empty}]

(* clicked_msg_id matters only in comparisons with the pressed message:    *)
(* "menu" is the id of the last menu whose answer arrived, "none" any      *)
(* other value.                                                            *)
Session == [jira_task: Task, clicked_msg_id: {"none", "menu"}]

ASSUME DialogueAssumption ==
    /\ IsFiniteSet(Users)
    /\ DOMAIN Offered = Users
    /\ Reasons \subseteq Nat \ {Empty}
    /\ nullptr \notin Users
    /\ nullptr \notin Session

EmptyTask == [type |-> "", stat_ |-> NoStep,
              section |-> Empty, project |-> Empty, subj |-> Empty,
              category |-> Empty, description |-> Empty,
              consumer_name |-> Empty, photos |-> FALSE,
              key_reason |-> Empty]

NewSession == [jira_task |-> EmptyTask, clicked_msg_id |-> "none"]

(* Before a request is broadcast. *)
NobodyAsked == [s \in Staff |-> "not_yet"]

VARIABLES
    m_sessions,  \* session_store::m_sessions
    uD,          \* the user whose session the member pointer uD points to
    openKeys,    \* rows of master_keys with is_activated = 0, per user
    asked,       \* history: how each member of staff was asked to decide
                 \* on the last reason a user typed
    closed       \* history: users whose last typed reason has been decided

vars == <<m_sessions, uD, openKeys, asked, closed>>

Init ==
    /\ m_sessions = [u \in Users |-> nullptr]
    /\ uD = nullptr
    /\ openKeys = [u \in Users |-> 0]
    /\ asked = [u \in Users |-> NobodyAsked]
    /\ closed = {}

-----------------------------------------------------------------------------
(* Sessions *)

Live(u) == m_sessions[u] # nullptr

(* uniq_data: the session of a user, or none. *)
Found(u) == IF Live(u) THEN u ELSE nullptr

HasRole(u, role) == IsAllowed(role, u \in Staff, u = Developer)

(* evict_idle_sessions.  Which sessions are idle is the clock's choice. *)
EvictIdle(idle) ==
    [v \in Users |-> IF v \in idle THEN nullptr ELSE m_sessions[v]]

(* session_dispatcher: the idle sessions go, the sender has one. *)
Dispatched(u, idle) ==
    [EvictIdle(idle) EXCEPT ![u] = IF @ = nullptr THEN NewSession ELSE @]

(* The task of the sender when the message reaches its handler. *)
TaskOf(u, idle) == Dispatched(u, idle)[u].jira_task

(* Mutation: the handler uses the session the last handler left in uD. *)
Reply_NoLookUp(u, idle, t) ==
    /\ m_sessions' = [Dispatched(u, idle) EXCEPT ![u].jira_task = t]
    /\ uD' = uD

(* The handler leaves the sender's task at t. *)
Reply(u, idle, t) ==
    /\ m_sessions' = [Dispatched(u, idle) EXCEPT ![u].jira_task = t]
    /\ uD' = u

-----------------------------------------------------------------------------
(* Commands *)

Help(u, idle) ==
    /\ Reply(u, idle, EmptyTask)
    /\ UNCHANGED <<openKeys, asked, closed>>

(* The menu becomes the clicked message only if Telegram returned its id.  *)
Start(u, idle, sent) ==
    /\ m_sessions' =
         [Dispatched(u, idle) EXCEPT
            ![u] = [jira_task |-> EmptyTask,
                    clicked_msg_id |-> IF sent THEN "menu"
                                       ELSE @.clicked_msg_id]]
    /\ uD' = u
    /\ UNCHANGED <<openKeys, asked, closed>>

-----------------------------------------------------------------------------
(* Text and photo messages: handle_small_talk *)

QuestionSteps == TaskSteps \cup FamilySteps \cup {shared_firstname_step5}

(* The field the question of this step fills.  The text sent at the photo  *)
(* step falls through to the case of family_project_step4.                 *)
Answered(t, answer) ==
    [t EXCEPT
       !.section     = IF t.stat_ \in {task_section_step1, family_unit_step1}
                       THEN answer ELSE @,
       !.project     = IF t.stat_ \in {task_project_step2,
                                       family_project_step4,
                                       shared_firstname_step5}
                       THEN answer ELSE @,
       !.subj        = IF t.stat_ = task_subj_step3 THEN answer ELSE @,
       !.category    = IF t.stat_ = family_category_step2 THEN answer ELSE @,
       !.description = IF t.stat_ \in {task_descr_step4, family_descr_step3}
                       THEN answer ELSE @]

(* Mutation: the photo step is skipped, the next step is the final one. *)
NextStep_PhotosSkipped(stat) ==
    CASE stat = task_subj_step3 -> task_descr_step4
      [] OTHER                  -> 607

NextStep(stat) ==
    CASE stat = task_section_step1    -> task_project_step2
      [] stat = task_project_step2    -> task_subj_step3
      [] stat = task_subj_step3       -> task_descr_step4
      [] stat = family_unit_step1     -> family_category_step2
      [] stat = family_category_step2 -> family_descr_step3
      [] stat = family_descr_step3    -> family_project_step4
      [] OTHER                        -> shared_firstname_step5

(* A photo or a sticker has an empty text: outside the photo step it       *)
(* answers the question with an empty string.                              *)
AnswerQuestion(u, idle, hasText, sent) ==
    LET t      == TaskOf(u, idle)
        answer == IF hasText THEN t.stat_ ELSE Empty
    IN  /\ t.stat_ \in QuestionSteps
        /\ t.stat_ = shared_firstname_step5 => hasText
        /\ Reply(u, idle,
                 IF sent
                 THEN [Answered(t, answer) EXCEPT !.stat_ = NextStep(t.stat_)]
                 ELSE Answered(t, answer))
        /\ UNCHANGED <<openKeys, asked, closed>>

(* receive_photos catches every exception; stored says whether getFile     *)
(* and the download left anything in the task.                             *)
ReceivePhotos(u, idle, stored) ==
    LET t == TaskOf(u, idle)
    IN  /\ t.stat_ = shared_firstname_step5
        /\ Reply(u, idle, [t EXCEPT !.photos = @ \/ stored])
        /\ UNCHANGED <<openKeys, asked, closed>>

(* The name is the last answer: create_new_issue runs in the same handler  *)
(* and clears the task, whatever Trello, the database and Jira answered.   *)
GiveName(u, idle) ==
    /\ TaskOf(u, idle).stat_ = shared_separate_tekla_from_bim_step6
    /\ Reply(u, idle, EmptyTask)
    /\ UNCHANGED <<openKeys, asked, closed>>

GiveKeyReason(u, idle, reason, sent) ==
    LET t == TaskOf(u, idle)
    IN  /\ t.stat_ = revit_master_key_reason_step1
        /\ Reply(u, idle,
                 [t EXCEPT !.key_reason = reason,
                           !.stat_ = IF sent
                                     THEN revit_master_key_firstname_step2
                                     ELSE @])
        /\ asked' = [asked EXCEPT ![u] = NobodyAsked]
        /\ closed' = IF reason = Empty THEN closed ELSE closed \ {u}
        /\ UNCHANGED openKeys

(* Mutation: one try around the loop, which ends with the first refusal. *)
Broadcast_OneTryForAll(no) ==
    [s \in Staff |-> IF no = {} THEN "shown"
                     ELSE IF s \in no THEN "refused" ELSE "not_yet"]

(* send_msg_to_staff: Telegram refuses the message to the members in "no"  *)
(* ("bot was blocked by the user"); the loop goes on to the others.        *)
Broadcast(no) == [s \in Staff |-> IF s \in no THEN "refused" ELSE "shown"]

(* The broadcast to staff runs in a thread beside the reply to the user;   *)
(* a reply that throws still joins it, and leaves the step where it is.    *)
(* Whom it reached, nobody included, makes no difference to the handler.   *)
GiveKeyName(u, idle, hasText, sent, no) ==
    LET t == TaskOf(u, idle)
    IN  /\ t.stat_ = revit_master_key_firstname_step2
        /\ Reply(u, idle,
                 [t EXCEPT !.consumer_name = IF hasText THEN t.stat_
                                             ELSE Empty,
                           !.stat_ = IF sent THEN NoStep ELSE @])
        /\ asked' = [asked EXCEPT ![u] = Broadcast(no)]
        /\ UNCHANGED <<openKeys, closed>>

(* A message at a service step.  The right is checked again; the host      *)
(* command and the unfinished GPT mode keep their step.                    *)
ServiceStep(u, idle, done) ==
    LET t     == TaskOf(u, idle)
        stays == t.stat_ \in {developer_run_host_command,
                              developer_send_msg_to_gpt}
    IN  /\ t.stat_ \in DeveloperSteps \cup StaffSteps
        /\ Reply(u, idle,
                 IF HasRole(u, RoleForStep(t.stat_)) /\ (stays \/ ~done)
                 THEN t ELSE EmptyTask)
        /\ UNCHANGED <<openKeys, asked, closed>>

(* A command the bot does not know, at any step; or no question is open;   *)
(* or a name was expected and no text came.                                *)
OtherMessage(u, idle) ==
    /\ Reply(u, idle, TaskOf(u, idle))
    /\ UNCHANGED <<openKeys, asked, closed>>

-----------------------------------------------------------------------------
(* Buttons: on_callback_query.  Menus of an earlier run or an earlier      *)
(* /start keep their buttons, so "the pressed message is clicked_msg_id"   *)
(* is a guard of the buttons whose handler compares the two.               *)

Press(u, data) ==
    /\ data \in Offered[u]
    /\ HasRole(u, RoleForCallback(data))
    /\ Live(u)
    /\ uD' = u
    /\ UNCHANGED <<openKeys, asked, closed>>

OnCurrentMenu(u) == m_sessions[u].clicked_msg_id = "menu"

SetTask(u, t) == m_sessions' = [m_sessions EXCEPT ![u].jira_task = t]

(* Mutation: the dispatcher of buttons creates a missing session. *)
PressWithoutEffect_Creates(u) ==
    /\ uD' = u
    /\ m_sessions' = IF Live(u) THEN m_sessions
                     ELSE [m_sessions EXCEPT ![u] = NewSession]
    /\ UNCHANGED <<openKeys, asked, closed>>

(* The handler's guards refuse the press, or its branch changes no session *)
(* state (send_file, reboot_host); the session was looked up all the same. *)
PressWithoutEffect(u) ==
    /\ uD' = Found(u)
    /\ UNCHANGED <<m_sessions, openKeys, asked, closed>>

ReqMasterKey(u, sent) ==
    /\ Press(u, "req_master_key")
    /\ OnCurrentMenu(u)
    /\ SetTask(u, [EmptyTask EXCEPT
                     !.stat_ = IF sent THEN revit_master_key_reason_step1
                               ELSE NoStep])

DeveloperStep(data) ==
    CASE data = "msg_as_bot" -> developer_send_msg_as_bot
      [] data = "msg_to_gpt" -> developer_send_msg_to_gpt
      [] OTHER               -> developer_run_host_command

(* No branch looks at the pressed message; a failed prompt changes nothing. *)
DeveloperButton(u, data) ==
    /\ Press(u, data)
    /\ SetTask(u, [m_sessions[u].jira_task EXCEPT
                     !.type = "DEVELOPER", !.stat_ = DeveloperStep(data)])

StaffButton(u, data) ==
    /\ Press(u, data)
    /\ OnCurrentMenu(u)
    /\ SetTask(u, [m_sessions[u].jira_task EXCEPT
                     !.type = "STAFF",
                     !.stat_ = IF data = "add_new_contractor"
                               THEN staff_add_new_contractor
                               ELSE staff_set_new_msi_version])

NoMorePhotos(u) ==
    /\ Press(u, "no_more_photos")
    /\ m_sessions[u].jira_task.stat_ = shared_firstname_step5
    /\ SetTask(u, [m_sessions[u].jira_task EXCEPT
                     !.stat_ = shared_separate_tekla_from_bim_step6])

MyTasks(u) ==
    /\ Press(u, "my_tasks")
    /\ OnCurrentMenu(u)
    /\ m_sessions' = [m_sessions EXCEPT ![u].jira_task = EmptyTask,
                                        ![u].clicked_msg_id = "none"]

TeklaEnterMenu(u) ==
    /\ Press(u, "tekla_enter_menu")
    /\ OnCurrentMenu(u)
    /\ SetTask(u, [m_sessions[u].jira_task EXCEPT !.subj = TeklaSubject])

(* Mutation: the kind of the issue is not set. *)
TeklaGeneralIssue_KindNotSet(u) ==
    /\ Press(u, "tekla_general_issue")
    /\ SetTask(u, [m_sessions[u].jira_task EXCEPT
                     !.section = TeklaSection, !.stat_ = task_subj_step3])

(* Neither the pressed message nor the state of the task is looked at, and *)
(* the task is not cleared: a dialogue in progress turns into a Tekla one. *)
TeklaGeneralIssue(u) ==
    /\ Press(u, "tekla_general_issue")
    /\ SetTask(u, [m_sessions[u].jira_task EXCEPT
                     !.type = "TEKLA", !.section = TeklaSection,
                     !.stat_ = task_subj_step3])

TeklaBack(u) ==
    /\ Press(u, "tekla_back")
    /\ OnCurrentMenu(u)
    /\ SetTask(u, EmptyTask)

(* Finishing a task forgets the clicked message, the newest menu included. *)
(* What it does to the task is module ListChecker.                         *)
TaskClosing(u) ==
    /\ Press(u, "task_closing")
    /\ m_sessions' = [m_sessions EXCEPT ![u].clicked_msg_id = "none"]

(* Mutation: the menu stays the clicked message when the dialogue opens. *)
OpenDialogue_MenuStaysCurrent(u, t) ==
    m_sessions' = [m_sessions EXCEPT ![u].jira_task = t]

(* new_task and new_family use up the menu and start from an empty task. *)
OpenDialogue(u, t) ==
    m_sessions' = [m_sessions EXCEPT ![u].jira_task = t,
                                     ![u].clicked_msg_id = "none"]

(* Mutation: the task is not cleared first. *)
NewTask_TaskNotCleared(u, sent) ==
    /\ Press(u, "new_task")
    /\ OnCurrentMenu(u)
    /\ OpenDialogue(u, [m_sessions[u].jira_task EXCEPT
                          !.type = "BIMTASK",
                          !.stat_ = IF sent THEN task_section_step1
                                    ELSE NoStep])

NewTask(u, sent) ==
    /\ Press(u, "new_task")
    /\ OnCurrentMenu(u)
    /\ OpenDialogue(u, [EmptyTask EXCEPT
                          !.type = "BIMTASK",
                          !.stat_ = IF sent THEN task_section_step1
                                    ELSE NoStep])

NewFamily(u, sent) ==
    /\ Press(u, "new_family")
    /\ OnCurrentMenu(u)
    /\ OpenDialogue(u, [EmptyTask EXCEPT
                          !.type = "FAMILY", !.subj = FamilySubject,
                          !.stat_ = IF sent THEN family_unit_step1
                                    ELSE NoStep])

-----------------------------------------------------------------------------
(* The two buttons of a key request, pressed by p for the requester r.     *)

(* Mutation: the decision clears the whole task, as the other buttons do. *)
Decided_WholeTask(s) == [s EXCEPT !.jira_task = EmptyTask]

(* Mutation: the decision leaves the reason in place. *)
Decided_ReasonStays(s) == s

(* "Clearing request" *)
Decided(s) == [s EXCEPT !.jira_task.key_reason = Empty]

Pending(r) == Live(r) /\ m_sessions[r].jira_task.key_reason # Empty

PressDecision(p, data) ==
    /\ data \in Offered[p]
    /\ HasRole(p, RoleForCallback(data))

(* There is nothing to decide.  A lost session is answered by a notice; if *)
(* the notice is sent the handler returns with uD still null.              *)
DecisionWithoutRequest(p, r, data) ==
    /\ PressDecision(p, data)
    /\ ~Pending(r)
    /\ uD' \in {Found(p)} \cup (IF Live(r) THEN {} ELSE {nullptr})
    /\ UNCHANGED <<m_sessions, openKeys, asked, closed>>

(* Mutation: insert_revit_key_to_db does not look for an open key first. *)
KeyInserted_NoOpenKeyLookup(r) == [openKeys EXCEPT ![r] = @ + 1]

(* insert_revit_key_to_db returns the open key of the user if there is one. *)
KeyInserted(r) == [openKeys EXCEPT ![r] = IF @ > 0 THEN @ ELSE 1]

(* The key exists, the requester has been told, the request is cleared. *)
Approve(p, r) ==
    /\ PressDecision(p, "approve_key_request")
    /\ Pending(r)
    /\ openKeys' = KeyInserted(r)
    /\ m_sessions' = [m_sessions EXCEPT ![r] = Decided(@)]
    /\ closed' = closed \cup {r}
    /\ uD' = Found(p)
    /\ UNCHANGED asked

(* Telling the requester threw: the exception is swallowed, and the        *)
(* request stays open although the key is in the table.                    *)
ApproveNotDelivered(p, r) ==
    /\ PressDecision(p, "approve_key_request")
    /\ Pending(r)
    /\ openKeys' = KeyInserted(r)
    /\ uD' = Found(p)
    /\ UNCHANGED <<m_sessions, asked, closed>>

(* The insert failed: support is told, and if that works the request is    *)
(* cleared without a key.                                                  *)
ApproveInsertFailed(p, r, told) ==
    /\ PressDecision(p, "approve_key_request")
    /\ Pending(r)
    /\ m_sessions' = IF told THEN [m_sessions EXCEPT ![r] = Decided(@)]
                     ELSE m_sessions
    /\ closed' = IF told THEN closed \cup {r} ELSE closed
    /\ uD' = Found(p)
    /\ UNCHANGED <<openKeys, asked>>

(* The rejection is outside the try block: a failed message leaves uD at   *)
(* the requester and the request open.                                     *)
Reject(p, r, sent) ==
    /\ PressDecision(p, "_reject_key_request")
    /\ Pending(r)
    /\ m_sessions' = IF sent THEN [m_sessions EXCEPT ![r] = Decided(@)]
                     ELSE m_sessions
    /\ closed' = IF sent THEN closed \cup {r} ELSE closed
    /\ uD' = IF sent THEN Found(p) ELSE r
    /\ UNCHANGED <<openKeys, asked>>

-----------------------------------------------------------------------------
(* The Revit plug-in takes the key (outside the repository). *)
KeyActivated(u) ==
    /\ openKeys[u] > 0
    /\ openKeys' = [openKeys EXCEPT ![u] = 0]
    /\ UNCHANGED <<m_sessions, uD, asked, closed>>

(* The process ends (SIGTERM, reboot, an exception that escapes a thread)  *)
(* and starts anew: the sessions exist in memory only.                     *)
Restart ==
    /\ m_sessions' = [u \in Users |-> nullptr]
    /\ uD' = nullptr
    /\ UNCHANGED <<openKeys, asked, closed>>

Message(u, idle) ==
    \/ Help(u, idle)
    \/ \E sent \in BOOLEAN : Start(u, idle, sent)
    \/ \E hasText, sent \in BOOLEAN : AnswerQuestion(u, idle, hasText, sent)
    \/ \E stored \in BOOLEAN : ReceivePhotos(u, idle, stored)
    \/ GiveName(u, idle)
    \/ \E reason \in Reasons \cup {Empty}, sent \in BOOLEAN :
          GiveKeyReason(u, idle, reason, sent)
    \/ \E hasText, sent \in BOOLEAN, no \in SUBSET Staff :
          GiveKeyName(u, idle, hasText, sent, no)
    \/ \E done \in BOOLEAN : ServiceStep(u, idle, done)
    \/ OtherMessage(u, idle)

Button(u) ==
    \/ PressWithoutEffect(u)
    \/ \E sent \in BOOLEAN : ReqMasterKey(u, sent)
    \/ \E data \in {"msg_as_bot", "msg_to_gpt", "run_command"} :
          DeveloperButton(u, data)
    \/ \E data \in {"add_new_contractor", "set_new_msi_version"} :
          StaffButton(u, data)
    \/ NoMorePhotos(u)
    \/ MyTasks(u)
    \/ TeklaEnterMenu(u)
    \/ TeklaGeneralIssue(u)
    \/ TeklaBack(u)
    \/ TaskClosing(u)
    \/ \E sent \in BOOLEAN : NewTask(u, sent)
    \/ \E sent \in BOOLEAN : NewFamily(u, sent)

Decision(p, r) ==
    \/ \E data \in {"approve_key_request", "_reject_key_request"} :
          DecisionWithoutRequest(p, r, data)
    \/ Approve(p, r)
    \/ ApproveNotDelivered(p, r)
    \/ \E told \in BOOLEAN : ApproveInsertFailed(p, r, told)
    \/ \E sent \in BOOLEAN : Reject(p, r, sent)

Next ==
    \/ \E u \in Users, idle \in SUBSET Users : Message(u, idle)
    \/ \E u \in Users : Button(u)
    \/ \E p, r \in Users : Decision(p, r)
    \/ \E u \in Users : KeyActivated(u)
    \/ Restart

Spec == Init /\ [][Next]_vars

-----------------------------------------------------------------------------
(* Properties *)

TypeOK ==
    /\ m_sessions \in [Users -> Session \cup {nullptr}]
    /\ uD \in Users \cup {nullptr}
    /\ openKeys \in [Users -> Nat]
    /\ asked \in [Users -> [Staff -> {"not_yet", "shown", "refused"}]]
    /\ closed \in SUBSET Users

(* The member pointer uD never points to a session that has been erased    *)
(* (comment at chanserv.cpp:406).                                          *)
NoDanglingSession == uD # nullptr => Live(uD)

(* Only a user who has the role is ever at a step that needs it, so the    *)
(* second check in handle_small_talk (line 86) never has to refuse.        *)
ServiceStepNeedsRole ==
    \A u \in Users :
        Live(u) => HasRole(u, RoleForStep(m_sessions[u].jira_task.stat_))

(* A menu that is still current and an open task or family dialogue        *)
(* exclude each other: no button of a live menu can reset, retitle or      *)
(* restart a dialogue the user is in.                                      *)
MenuExcludesDialogue ==
    \A u \in Users :
        Live(u) /\ OnCurrentMenu(u)
            => m_sessions[u].jira_task.type \notin {"BIMTASK", "FAMILY"}

(* One user has at most one key that is not activated, whoever approves,   *)
(* however often, with failures and restarts in between (410-451).         *)
AtMostOneOpenKey == \A u \in Users : openKeys[u] <= 1

(* A decided reason is gone: the other staff member's button, or a second  *)
(* press, finds nothing to decide until the user types a new reason.       *)
DecidedOnce == \A u \in closed : ~Pending(u)

(* Once a key dialogue has been answered to its end, each member of staff  *)
(* has been shown the very reason that is pending, or Telegram refused to  *)
(* deliver it to him: one who blocked the bot takes no request away from   *)
(* the others (comment at support.cpp:496), and a reply that fails neither *)
(* skips the broadcast nor keeps an older reason in it.  Nothing is said   *)
(* while the name is still asked, nor after a button that opens another    *)
(* dialogue without clearing the task (callbacks.cpp:82-124, 158); and a   *)
(* request that every send refused stays pending although nobody saw it.   *)
RequestReachesStaff ==
    \A u \in Users :
        Pending(u) =>
            LET t == m_sessions[u].jira_task
            IN  t.type = "" /\ t.stat_ = NoStep
                    => \A s \in Staff : asked[u][s] # "not_yet"

(* Whatever the buttons write into sessions, they make none: a user whose  *)
(* session is gone finds none, and a decision about his request does not   *)
(* bring it back (find, session_store.h:18).                               *)
ButtonsMakeNoSession ==
    [][(\E u \in Users : Live(u)' /\ ~Live(u))
          => ~ \/ \E u \in Users : Button(u)
               \/ \E p, r \in Users : Decision(p, r)]_vars

(* An update of one user changes no other user's session, except that a    *)
(* decision clears the requester's reason and that idle sessions go.       *)
OthersKeepTheirDialogue ==
    [][\A u \in Users :
          u # uD' /\ m_sessions'[u] # nullptr =>
              /\ Live(u)
              /\ m_sessions'[u] \in
                    {m_sessions[u],
                     [m_sessions[u] EXCEPT !.jira_task.key_reason = Empty]}
      ]_vars

At(t, steps) == t.stat_ \in steps

(* Which answers a new-task dialogue may hold: each field only the answer  *)
(* to its own question, and nothing before the question has been asked.    *)
(* The project is the exception the photo step makes (line 329).           *)
TaskAnswers(t) ==
    /\ t.section \in {Empty, task_section_step1}
    /\ t.project \in {Empty, task_project_step2, shared_firstname_step5}
    /\ t.subj \in {Empty, task_subj_step3}
    /\ t.category = Empty
    /\ t.description \in {Empty, task_descr_step4}
    /\ t.consumer_name = Empty
    /\ At(t, {task_section_step1}) => t.project = Empty
    /\ At(t, {task_section_step1, task_project_step2}) => t.subj = Empty
    /\ At(t, TaskSteps \ {task_descr_step4})
          => t.description = Empty
    /\ At(t, TaskSteps) => ~t.photos /\ t.project # shared_firstname_step5
    /\ At(t, TaskSteps \cup SharedSteps \cup {NoStep})

(* The same of a family dialogue. *)
FamilyAnswers(t) ==
    /\ t.section \in {Empty, family_unit_step1}
    /\ t.project \in {Empty, family_project_step4, shared_firstname_step5}
    /\ t.subj = FamilySubject
    /\ t.category \in {Empty, family_category_step2}
    /\ t.description \in {Empty, family_descr_step3}
    /\ t.consumer_name = Empty
    /\ At(t, {family_unit_step1}) => t.category = Empty
    /\ At(t, {family_unit_step1, family_category_step2})
          => t.description = Empty
    /\ At(t, FamilySteps \ {family_project_step4}) => t.project = Empty
    /\ At(t, FamilySteps) => ~t.photos /\ t.project # shared_firstname_step5
    /\ At(t, FamilySteps \cup SharedSteps \cup {NoStep})

(* Whatever the user, failures, old buttons and evictions did in between,  *)
(* the issue a dialogue ends in holds the answers to its own questions.    *)
AnswersInPlace ==
    \A u \in Users :
        Live(u) =>
            LET t == m_sessions[u].jira_task
            IN  /\ t.type = "BIMTASK" => TaskAnswers(t)
                /\ t.type = "FAMILY" => FamilyAnswers(t)

(* An issue is filed under a kind create_new_issue knows: at the name      *)
(* question the dialogue is a task, a family or a Tekla issue (206-330).   *)
IssueKindKnown ==
    \A u \in Users :
        Live(u) =>
            LET t == m_sessions[u].jira_task
            IN  At(t, SharedSteps) => t.type \in {"BIMTASK", "FAMILY", "TEKLA"}

(* The project of a new task is what the user answered to "по какому       *)
(* проекту вопрос?" (lines 306-313).                                       *)
ProjectIsTheOneAskedFor ==
    \A u \in Users :
        Live(u) =>
            LET t == m_sessions[u].jira_task
            IN  t.type = "BIMTASK" => t.project # shared_firstname_step5
=============================================================================
