--------------------------- MODULE DialogueProofs ---------------------------
(* What every instance of Dialogue keeps, proved for all values of the     *)
(* constants.                                                              *)
EXTENDS Dialogue, TLAPS

USE DEF Empty, TeklaSubject, FamilySubject, TeklaSection

(* The steps a task may rest at, and the fixed answers, are answers. *)
LEMMA StepsTyped ==
    /\ Steps \subseteq Answers
    /\ {Empty, TeklaSubject, FamilySubject, TeklaSection} \subseteq Answers
    /\ {NoStep, revit_master_key_reason_step1,
        revit_master_key_firstname_step2, task_subj_step3,
        task_section_step1, family_unit_step1,
        shared_separate_tekla_from_bim_step6} \subseteq Steps
    /\ DeveloperSteps \subseteq Steps /\ StaffSteps \subseteq Steps
    /\ QuestionSteps \subseteq Steps
BY DEF Answers, Steps, KeySteps, TaskSteps, FamilySteps, SharedSteps,
       QuestionSteps

(* The empty task and the session made for a newcomer have their types. *)
LEMMA NewSessionTyped == EmptyTask \in Task /\ NewSession \in Session
BY DEF EmptyTask, NewSession, Session, Task, Types, Answers, Steps, NoStep

(* After the dispatcher the sender has a session, and every session there  *)
(* is was there before or is new.                                          *)
LEMMA DispatchedSessions ==
    ASSUME m_sessions \in [Users -> Session \cup {nullptr}],
           NEW u \in Users, NEW idle \in SUBSET Users
    PROVE  /\ Dispatched(u, idle) \in [Users -> Session \cup {nullptr}]
           /\ Dispatched(u, idle)[u] \in {m_sessions[u], NewSession} \ {nullptr}
           /\ Dispatched(u, idle)[u] \in Session
           /\ \A v \in Users \ {u} :
                 Dispatched(u, idle)[v] \in {m_sessions[v], nullptr}
<1>1. EvictIdle(idle) \in [Users -> Session \cup {nullptr}]
  BY DEF EvictIdle
<1>2. NewSession \in Session /\ NewSession # nullptr
  BY NewSessionTyped, DialogueAssumption
<1> QED
  BY <1>1, <1>2 DEF Dispatched, EvictIdle

(* The task a message is answered with is a task. *)
LEMMA TaskOfTyped ==
    ASSUME TypeOK, NEW u \in Users, NEW idle \in SUBSET Users
    PROVE  TaskOf(u, idle) \in Task
BY DispatchedSessions DEF TaskOf, TypeOK, Session

(* A reply stores the sender's new task, and may have evicted others. *)
LEMMA ReplyTyped ==
    ASSUME TypeOK, NEW u \in Users, NEW idle \in SUBSET Users,
           NEW t \in Task, Reply(u, idle, t)
    PROVE  /\ m_sessions' \in [Users -> Session \cup {nullptr}]
           /\ uD' \in Users \cup {nullptr}
           /\ m_sessions'[u] = [Dispatched(u, idle)[u] EXCEPT !.jira_task = t]
           /\ m_sessions'[u] # nullptr
           /\ \A v \in Users \ {u} : m_sessions'[v] \in {m_sessions[v], nullptr}
<1>1. [Dispatched(u, idle)[u] EXCEPT !.jira_task = t] \in Session
  <2>1. Dispatched(u, idle)[u] \in Session
    BY DispatchedSessions DEF TypeOK
  <2> QED
    BY <2>1 DEF Session
<1>2. /\ Dispatched(u, idle) \in [Users -> Session \cup {nullptr}]
      /\ \A v \in Users \ {u} :
            Dispatched(u, idle)[v] \in {m_sessions[v], nullptr}
  BY DispatchedSessions DEF TypeOK
<1>3. /\ m_sessions' = [Dispatched(u, idle) EXCEPT
             ![u] = [Dispatched(u, idle)[u] EXCEPT !.jira_task = t]]
      /\ uD' = u
  BY DEF Reply
<1>4. m_sessions'[u] = [Dispatched(u, idle)[u] EXCEPT !.jira_task = t]
  BY <1>2, <1>3
<1> QED
  BY <1>1, <1>2, <1>3, <1>4, DialogueAssumption

(* A button that sets the task of the presser. *)
LEMMA SetTaskTyped ==
    ASSUME TypeOK, NEW u \in Users, Live(u), NEW t \in Task, SetTask(u, t)
    PROVE  m_sessions' \in [Users -> Session \cup {nullptr}]
<1>1. [m_sessions[u] EXCEPT !.jira_task = t] \in Session
  BY DEF TypeOK, Session, Live
<1> QED
  BY <1>1 DEF SetTask, TypeOK

(* A session that was found holds a task. *)
LEMMA LiveSession ==
    ASSUME TypeOK, NEW u \in Users, Live(u)
    PROVE  m_sessions[u] \in Session /\ m_sessions[u].jira_task \in Task
BY DEF TypeOK, Live, Session

(* A button that opens a dialogue stores a session of the presser's. *)
LEMMA OpenDialogueTyped ==
    ASSUME TypeOK, NEW u \in Users, Live(u), NEW t \in Task, OpenDialogue(u, t)
    PROVE  m_sessions' \in [Users -> Session \cup {nullptr}]
<1>1. [m_sessions[u] EXCEPT !.jira_task = t, !.clicked_msg_id = "none"]
        \in Session
  BY DEF TypeOK, Session, Live
<1> QED
  BY <1>1 DEF OpenDialogue, TypeOK

(* A decision stores a session of the requester. *)
LEMMA DecidedTyped ==
    ASSUME TypeOK, NEW r \in Users, Live(r)
    PROVE  [m_sessions EXCEPT ![r] = Decided(@)]
              \in [Users -> Session \cup {nullptr}]
<1>1. Decided(m_sessions[r]) \in Session
  BY LiveSession DEF Decided, Session, Task
<1> QED
  BY <1>1 DEF TypeOK

-----------------------------------------------------------------------------
(* Type correctness. *)

(* Storing an answer in a field keeps the task a task. *)
LEMMA AnsweredTyped ==
    ASSUME NEW t \in Task, NEW answer \in Answers
    PROVE  Answered(t, answer) \in Task
BY DEF Answered, Task

(* After a question comes a question. *)
LEMMA NextStepTyped ==
    ASSUME NEW stat \in Steps
    PROVE  NextStep(stat) \in QuestionSteps /\ QuestionSteps \subseteq Steps
BY DEF NextStep, Steps, QuestionSteps, TaskSteps, FamilySteps, SharedSteps,
       task_section_step1, task_project_step2, task_subj_step3,
       task_descr_step4, family_unit_step1, family_category_step2,
       family_descr_step3, family_project_step4, shared_firstname_step5

(* No message of a user takes a variable out of its type. *)
LEMMA MessageTyped ==
    ASSUME TypeOK, NEW u \in Users, NEW idle \in SUBSET Users,
           Message(u, idle)
    PROVE  TypeOK'
<1> DEFINE t == TaskOf(u, idle)
<1>0. t \in Task
  BY TaskOfTyped
<1>1. CASE Help(u, idle)
  BY <1>1, ReplyTyped, NewSessionTyped DEF Help, TypeOK
<1>2. ASSUME NEW sent \in BOOLEAN, Start(u, idle, sent)
      PROVE  TypeOK'
  <2>1. Dispatched(u, idle)[u] \in Session
    BY DispatchedSessions DEF TypeOK
  <2>2. [jira_task |-> EmptyTask,
         clicked_msg_id |-> IF sent THEN "menu"
                            ELSE Dispatched(u, idle)[u].clicked_msg_id]
            \in Session
    BY <2>1, NewSessionTyped DEF Session
  <2> QED
    BY <1>2, <2>2, DispatchedSessions DEF Start, TypeOK
<1>3. ASSUME NEW hasText \in BOOLEAN, NEW sent \in BOOLEAN,
             AnswerQuestion(u, idle, hasText, sent)
      PROVE  TypeOK'
  <2> DEFINE answer == IF hasText THEN t.stat_ ELSE Empty
             a      == Answered(t, answer)
  <2>1. answer \in Answers
    BY <1>0, StepsTyped DEF Task
  <2>2. a \in Task
    BY <1>0, <2>1, AnsweredTyped
  <2>3. [a EXCEPT !.stat_ = NextStep(t.stat_)] \in Task
    <3>1. NextStep(t.stat_) \in Steps
      BY <1>0, NextStepTyped DEF Task
    <3> QED
      BY <2>2, <3>1 DEF Task
  <2>4. (IF sent THEN [a EXCEPT !.stat_ = NextStep(t.stat_)] ELSE a) \in Task
    BY <2>2, <2>3
  <2>5. Reply(u, idle,
              IF sent THEN [a EXCEPT !.stat_ = NextStep(t.stat_)] ELSE a)
    BY <1>3 DEF AnswerQuestion
  <2> QED
    BY <1>3, <2>4, <2>5, ReplyTyped DEF AnswerQuestion, TypeOK
<1>4. ASSUME NEW stored \in BOOLEAN, ReceivePhotos(u, idle, stored)
      PROVE  TypeOK'
  <2>1. [t EXCEPT !.photos = @ \/ stored] \in Task
    BY <1>0 DEF Task
  <2> QED
    BY <1>4, <2>1, ReplyTyped DEF ReceivePhotos, TypeOK
<1>5. CASE GiveName(u, idle)
  BY <1>5, ReplyTyped, NewSessionTyped DEF GiveName, TypeOK
<1>6. ASSUME NEW reason \in Reasons \cup {Empty}, NEW sent \in BOOLEAN,
             GiveKeyReason(u, idle, reason, sent)
      PROVE  TypeOK'
  <2>1. [t EXCEPT !.key_reason = reason,
                  !.stat_ = IF sent THEN revit_master_key_firstname_step2
                            ELSE @] \in Task
    BY <1>0, StepsTyped DEF Task
  <2>2. NobodyAsked \in [Staff -> {"not_yet", "shown", "refused"}]
    BY DEF NobodyAsked
  <2> QED
    BY <1>6, <2>1, <2>2, ReplyTyped DEF GiveKeyReason, TypeOK
<1>7. ASSUME NEW hasText \in BOOLEAN, NEW sent \in BOOLEAN,
             NEW no \in SUBSET Staff,
             GiveKeyName(u, idle, hasText, sent, no)
      PROVE  TypeOK'
  <2>1. [t EXCEPT !.consumer_name = IF hasText THEN t.stat_ ELSE Empty,
                  !.stat_ = IF sent THEN NoStep ELSE @] \in Task
    <3>1. (IF hasText THEN t.stat_ ELSE Empty) \in Answers
      BY <1>0, StepsTyped DEF Task
    <3>2. (IF sent THEN NoStep ELSE t.stat_) \in Steps
      BY <1>0, StepsTyped DEF Task
    <3> QED
      BY <1>0, <3>1, <3>2 DEF Task
  <2>2. Broadcast(no) \in [Staff -> {"not_yet", "shown", "refused"}]
    BY DEF Broadcast
  <2> QED
    BY <1>7, <2>1, <2>2, ReplyTyped DEF GiveKeyName, TypeOK
<1>8. ASSUME NEW done \in BOOLEAN, ServiceStep(u, idle, done)
      PROVE  TypeOK'
  <2>1. PICK n \in Task : Reply(u, idle, n)
    BY <1>0, <1>8, NewSessionTyped DEF ServiceStep
  <2> QED
    BY <1>8, <2>1, ReplyTyped DEF ServiceStep, TypeOK
<1>9. CASE OtherMessage(u, idle)
  BY <1>0, <1>9, ReplyTyped DEF OtherMessage, TypeOK
<1> QED
  BY <1>1, <1>2, <1>3, <1>4, <1>5, <1>6, <1>7, <1>8, <1>9 DEF Message

(* No button of a wizard or a menu takes a variable out of its type. *)
LEMMA ButtonTyped ==
    ASSUME TypeOK, NEW u \in Users, Button(u)
    PROVE  TypeOK'
<1> USE DEF Press
<1> DEFINE t == m_sessions[u].jira_task
<1>0. Live(u) => t \in Task
  BY LiveSession
<1>1. CASE PressWithoutEffect(u)
  BY <1>1 DEF PressWithoutEffect, Found, TypeOK
<1>2. ASSUME NEW n \in Task, SetTask(u, n), Live(u), uD' = u,
             UNCHANGED <<openKeys, asked, closed>>
      PROVE  TypeOK'
  BY <1>2, SetTaskTyped DEF TypeOK
<1>3. ASSUME NEW sent \in BOOLEAN, ReqMasterKey(u, sent)
      PROVE  TypeOK'
  <2>1. [EmptyTask EXCEPT !.stat_ = IF sent THEN revit_master_key_reason_step1
                                    ELSE NoStep] \in Task
    BY NewSessionTyped, StepsTyped DEF Task
  <2> QED
    BY <1>2, <1>3, <2>1 DEF ReqMasterKey
<1>4. ASSUME NEW data \in {"msg_as_bot", "msg_to_gpt", "run_command"},
             DeveloperButton(u, data)
      PROVE  TypeOK'
  <2>1. [t EXCEPT !.type = "DEVELOPER", !.stat_ = DeveloperStep(data)] \in Task
    BY <1>0, <1>4, StepsTyped
    DEF DeveloperButton, DeveloperStep, Task, Types, DeveloperSteps
  <2> QED
    BY <1>2, <1>4, <2>1 DEF DeveloperButton
<1>5. ASSUME NEW data \in {"add_new_contractor", "set_new_msi_version"},
             StaffButton(u, data)
      PROVE  TypeOK'
  <2>1. [t EXCEPT !.type = "STAFF",
                  !.stat_ = IF data = "add_new_contractor"
                            THEN staff_add_new_contractor
                            ELSE staff_set_new_msi_version] \in Task
    BY <1>0, <1>5, StepsTyped DEF StaffButton, Task, Types, StaffSteps
  <2> QED
    BY <1>2, <1>5, <2>1 DEF StaffButton
<1>6. CASE NoMorePhotos(u)
  <2>1. [t EXCEPT !.stat_ = shared_separate_tekla_from_bim_step6] \in Task
    BY <1>0, <1>6, StepsTyped DEF NoMorePhotos, Task
  <2> QED
    BY <1>2, <1>6, <2>1 DEF NoMorePhotos
<1>7. CASE MyTasks(u)
  <2>1. OpenDialogue(u, EmptyTask)
    BY <1>7 DEF MyTasks, OpenDialogue
  <2> QED
    BY <1>7, <2>1, OpenDialogueTyped, NewSessionTyped DEF MyTasks, TypeOK
<1>8. CASE TeklaEnterMenu(u)
  <2>1. [t EXCEPT !.subj = TeklaSubject] \in Task
    BY <1>0, <1>8, StepsTyped DEF TeklaEnterMenu, Task
  <2> QED
    BY <1>2, <1>8, <2>1 DEF TeklaEnterMenu
<1>9. CASE TeklaGeneralIssue(u)
  <2>1. [t EXCEPT !.type = "TEKLA", !.section = TeklaSection,
                  !.stat_ = task_subj_step3] \in Task
    BY <1>0, <1>9, StepsTyped DEF TeklaGeneralIssue, Task, Types
  <2> QED
    BY <1>2, <1>9, <2>1 DEF TeklaGeneralIssue
<1>10. CASE TeklaBack(u)
  BY <1>2, <1>10, NewSessionTyped DEF TeklaBack
<1>11. ASSUME NEW sent \in BOOLEAN, NewTask(u, sent)
       PROVE  TypeOK'
  <2>1. [EmptyTask EXCEPT !.type = "BIMTASK",
                          !.stat_ = IF sent THEN task_section_step1
                                    ELSE NoStep] \in Task
    BY NewSessionTyped, StepsTyped DEF Task, Types
  <2> QED
    BY <1>11, <2>1, OpenDialogueTyped DEF NewTask, TypeOK
<1>12. ASSUME NEW sent \in BOOLEAN, NewFamily(u, sent)
       PROVE  TypeOK'
  <2>1. [EmptyTask EXCEPT !.type = "FAMILY", !.subj = FamilySubject,
                          !.stat_ = IF sent THEN family_unit_step1
                                    ELSE NoStep] \in Task
    BY NewSessionTyped, StepsTyped DEF Task, Types
  <2> QED
    BY <1>12, <2>1, OpenDialogueTyped DEF NewFamily, TypeOK
<1>13. CASE TaskClosing(u)
  <2>1. OpenDialogue(u, t)
    BY <1>13 DEF TaskClosing, OpenDialogue, Live, TypeOK, Session
  <2> QED
    BY <1>0, <1>13, <2>1, OpenDialogueTyped DEF TaskClosing, TypeOK
<1> QED
  BY <1>1, <1>3, <1>4, <1>5, <1>6, <1>7, <1>8, <1>9, <1>10, <1>11, <1>12,
     <1>13
  DEF Button

(* No decision about a key takes a variable out of its type. *)
LEMMA DecisionTyped ==
    ASSUME TypeOK, NEW p \in Users, NEW r \in Users, Decision(p, r)
    PROVE  TypeOK'
<1> USE DEF Found, Pending
<1>1. KeyInserted(r) \in [Users -> Nat]
  BY DEF KeyInserted, TypeOK
<1>2. ASSUME NEW data \in {"approve_key_request", "_reject_key_request"},
             DecisionWithoutRequest(p, r, data)
      PROVE  TypeOK'
  BY <1>2 DEF DecisionWithoutRequest, TypeOK
<1>3. CASE Approve(p, r)
  BY <1>1, <1>3, DecidedTyped DEF Approve, TypeOK
<1>4. CASE ApproveNotDelivered(p, r)
  BY <1>1, <1>4 DEF ApproveNotDelivered, TypeOK
<1>5. ASSUME NEW told \in BOOLEAN, ApproveInsertFailed(p, r, told)
      PROVE  TypeOK'
  BY <1>5, DecidedTyped DEF ApproveInsertFailed, TypeOK
<1>6. ASSUME NEW sent \in BOOLEAN, Reject(p, r, sent)
      PROVE  TypeOK'
  BY <1>6, DecidedTyped DEF Reject, TypeOK
<1> QED
  BY <1>2, <1>3, <1>4, <1>5, <1>6 DEF Decision

(* Every variable keeps its type: the step numbers a task reaches are the  *)
(* resting steps of the dialogue, 607 never being one of them.             *)
THEOREM TypeCorrect == Spec => []TypeOK
<1>1. Init => TypeOK
  BY DEF Init, TypeOK, NobodyAsked
<1>2. TypeOK /\ [Next]_vars => TypeOK'
  <2> SUFFICES ASSUME TypeOK, [Next]_vars
               PROVE  TypeOK'
    OBVIOUS
  <2>1. ASSUME NEW u \in Users, NEW idle \in SUBSET Users, Message(u, idle)
        PROVE  TypeOK'
    BY <2>1, MessageTyped
  <2>2. ASSUME NEW u \in Users, Button(u)
        PROVE  TypeOK'
    BY <2>2, ButtonTyped
  <2>3. ASSUME NEW p \in Users, NEW r \in Users, Decision(p, r)
        PROVE  TypeOK'
    BY <2>3, DecisionTyped
  <2>4. ASSUME NEW u \in Users, KeyActivated(u)
        PROVE  TypeOK'
    BY <2>4 DEF KeyActivated, TypeOK
  <2>5. CASE Restart
    BY <2>5 DEF Restart, TypeOK
  <2>6. CASE UNCHANGED vars
    BY <2>6 DEF vars, TypeOK
  <2> QED
    BY <2>1, <2>2, <2>3, <2>4, <2>5, <2>6 DEF Next
<1> QED
  BY <1>1, <1>2, PTL DEF Spec

-----------------------------------------------------------------------------
(* The requests of Revit keys and the pointer uD.                          *)

KeyInv == TypeOK /\ NoDanglingSession /\ DecidedOnce /\ AtMostOneOpenKey

(* The sender's task holds no reason if the last one was decided. *)
LEMMA DecidedReason ==
    ASSUME KeyInv, NEW u \in closed, NEW idle \in SUBSET Users
    PROVE  TaskOf(u, idle).key_reason = Empty
<1>1. u \in Users
  BY DEF KeyInv, TypeOK
<1>2. NewSession.jira_task.key_reason = Empty
  BY DEF NewSession, EmptyTask
<1> QED
  BY <1>1, <1>2, DispatchedSessions
  DEF KeyInv, TypeOK, TaskOf, DecidedOnce, Pending, Live

(* A reply leaves no session dangling, and no decided reason alive.        *)
LEMMA ReplyKeepsKeyInv ==
    ASSUME KeyInv, NEW u \in Users, NEW idle \in SUBSET Users,
           NEW t \in Task, Reply(u, idle, t), TypeOK',
           closed' \subseteq closed, u \in closed' => t.key_reason = Empty,
           openKeys' = openKeys
    PROVE  KeyInv'
<1>1. /\ m_sessions'[u] = [Dispatched(u, idle)[u] EXCEPT !.jira_task = t]
      /\ m_sessions'[u] # nullptr
      /\ \A v \in Users \ {u} : m_sessions'[v] \in {m_sessions[v], nullptr}
      /\ Dispatched(u, idle)[u] \in Session
  <2>1. TypeOK
    BY DEF KeyInv
  <2>2. Dispatched(u, idle)[u] \in Session
    BY <2>1, DispatchedSessions DEF TypeOK
  <2> QED
    BY <2>1, <2>2, ReplyTyped
<1>2. uD' = u
  BY DEF Reply
<1>3. m_sessions'[u].jira_task = t
  BY <1>1 DEF Session
<1>4. NoDanglingSession'
  BY <1>1, <1>2 DEF NoDanglingSession, Live
<1>5. DecidedOnce'
  <2> SUFFICES ASSUME NEW v \in closed'
               PROVE  ~Pending(v)'
    BY DEF DecidedOnce
  <2>1. v \in Users /\ v \in closed
    BY DEF KeyInv, TypeOK
  <2>2. CASE v = u
    BY <1>3, <2>2 DEF Pending
  <2>3. CASE v # u
    BY <1>1, <2>1, <2>3 DEF KeyInv, DecidedOnce, Pending, Live
  <2> QED
    BY <2>2, <2>3
<1> QED
  BY <1>4, <1>5 DEF KeyInv, AtMostOneOpenKey

(* No message breaks the invariant of the key requests: a reason typed anew *)
(* reopens the request, and any other answer keeps what was decided.       *)
LEMMA MessageKeepsKeyInv ==
    ASSUME KeyInv, NEW u \in Users, NEW idle \in SUBSET Users,
           Message(u, idle)
    PROVE  KeyInv'
<1> DEFINE t == TaskOf(u, idle)
<1>a. TypeOK /\ TypeOK' /\ closed \subseteq Users
  BY MessageTyped DEF KeyInv, TypeOK
<1>b. t \in Task /\ (u \in closed => t.key_reason = Empty)
  BY <1>a, TaskOfTyped, DecidedReason
<1>c. EmptyTask \in Task /\ EmptyTask.key_reason = Empty
  BY NewSessionTyped DEF EmptyTask
<1>1. CASE Help(u, idle)
  BY <1>1, <1>a, <1>c, ReplyKeepsKeyInv DEF Help
<1>2. ASSUME NEW sent \in BOOLEAN, Start(u, idle, sent)
      PROVE  KeyInv'
  <2> DEFINE n == [jira_task |-> EmptyTask,
                   clicked_msg_id |->
                      IF sent THEN "menu"
                      ELSE Dispatched(u, idle)[u].clicked_msg_id]
  <2>1. /\ Dispatched(u, idle) \in [Users -> Session \cup {nullptr}]
        /\ \A v \in Users \ {u} :
              Dispatched(u, idle)[v] \in {m_sessions[v], nullptr}
    BY <1>a, DispatchedSessions DEF TypeOK
  <2>2. m_sessions' = [Dispatched(u, idle) EXCEPT ![u] = n]
    BY <1>2 DEF Start
  <2>3. m_sessions'[u] = n
    BY <2>1, <2>2
  <2>4. \A v \in Users \ {u} : m_sessions'[v] \in {m_sessions[v], nullptr}
    BY <2>1, <2>2
  <2>5. n # nullptr
    <3>1. n \in Session
      BY <1>a, <1>c, DispatchedSessions DEF TypeOK, Session
    <3> QED
      BY <3>1, DialogueAssumption
  <2>6. NoDanglingSession'
    BY <1>2, <2>3, <2>5 DEF Start, NoDanglingSession, Live
  <2>7. DecidedOnce'
    BY <1>2, <1>a, <1>c, <2>3, <2>4
    DEF Start, KeyInv, DecidedOnce, Pending, Live
  <2> QED
    BY <1>2, <1>a, <2>6, <2>7 DEF Start, KeyInv, AtMostOneOpenKey
<1>3. ASSUME NEW hasText \in BOOLEAN, NEW sent \in BOOLEAN,
             AnswerQuestion(u, idle, hasText, sent)
      PROVE  KeyInv'
  <2> DEFINE answer == IF hasText THEN t.stat_ ELSE Empty
             a      == Answered(t, answer)
             n      == IF sent THEN [a EXCEPT !.stat_ = NextStep(t.stat_)]
                       ELSE a
  <2>1. answer \in Answers /\ NextStep(t.stat_) \in Steps
    BY <1>b, StepsTyped, NextStepTyped DEF Task
  <2>2. a \in Task
    BY <1>b, <2>1, AnsweredTyped
  <2>3. a.key_reason = t.key_reason
    BY <1>b DEF Answered, Task
  <2>4. n \in Task
    BY <2>1, <2>2 DEF Task
  <2>5. n.key_reason = t.key_reason
    BY <2>2, <2>3 DEF Task
  <2>6. Reply(u, idle, n) /\ UNCHANGED <<openKeys, asked, closed>>
    BY <1>3 DEF AnswerQuestion
  <2> HIDE DEF n
  <2> QED
    BY <1>a, <1>b, <2>4, <2>5, <2>6, ReplyKeepsKeyInv
<1>4. ASSUME NEW stored \in BOOLEAN, ReceivePhotos(u, idle, stored)
      PROVE  KeyInv'
  <2> DEFINE n == [t EXCEPT !.photos = @ \/ stored]
  <2>1. n \in Task /\ n.key_reason = t.key_reason
    BY <1>b DEF Task
  <2>2. Reply(u, idle, n) /\ UNCHANGED <<openKeys, asked, closed>>
    BY <1>4 DEF ReceivePhotos
  <2> HIDE DEF n
  <2> QED
    BY <1>a, <1>b, <2>1, <2>2, ReplyKeepsKeyInv
<1>5. CASE GiveName(u, idle)
  BY <1>5, <1>a, <1>c, ReplyKeepsKeyInv DEF GiveName
<1>6. ASSUME NEW reason \in Reasons \cup {Empty}, NEW sent \in BOOLEAN,
             GiveKeyReason(u, idle, reason, sent)
      PROVE  KeyInv'
  <2> DEFINE n == [t EXCEPT !.key_reason = reason,
                            !.stat_ = IF sent
                                      THEN revit_master_key_firstname_step2
                                      ELSE @]
  <2>1. n \in Task /\ n.key_reason = reason
    BY <1>b, StepsTyped DEF Task
  <2>2. Reply(u, idle, n) /\ UNCHANGED openKeys
    BY <1>6 DEF GiveKeyReason
  <2>3. closed' \subseteq closed /\ (u \in closed' => reason = Empty)
    BY <1>6 DEF GiveKeyReason
  <2> HIDE DEF n
  <2> QED
    BY <1>a, <2>1, <2>2, <2>3, ReplyKeepsKeyInv
<1>7. ASSUME NEW hasText \in BOOLEAN, NEW sent \in BOOLEAN,
             NEW no \in SUBSET Staff,
             GiveKeyName(u, idle, hasText, sent, no)
      PROVE  KeyInv'
  <2> DEFINE name == IF hasText THEN t.stat_ ELSE Empty
             stat == IF sent THEN NoStep ELSE t.stat_
             n    == [t EXCEPT !.consumer_name = name, !.stat_ = stat]
  <2>1. name \in Answers /\ stat \in Steps
    BY <1>b, StepsTyped DEF Task
  <2>2. Reply(u, idle, n) /\ UNCHANGED <<openKeys, closed>>
    BY <1>7 DEF GiveKeyName
  <2> HIDE DEF name, stat
  <2>3. n \in Task /\ n.key_reason = t.key_reason
    BY <1>b, <2>1 DEF Task
  <2> HIDE DEF n
  <2> QED
    BY <1>a, <1>b, <2>2, <2>3, ReplyKeepsKeyInv
<1>8. ASSUME NEW done \in BOOLEAN, ServiceStep(u, idle, done)
      PROVE  KeyInv'
  <2>1. PICK n \in {t, EmptyTask} : Reply(u, idle, n)
    BY <1>8 DEF ServiceStep
  <2> QED
    BY <1>8, <1>a, <1>b, <1>c, <2>1, ReplyKeepsKeyInv DEF ServiceStep
<1>9. CASE OtherMessage(u, idle)
  BY <1>9, <1>a, <1>b, ReplyKeepsKeyInv DEF OtherMessage
<1> QED
  BY <1>1, <1>2, <1>3, <1>4, <1>5, <1>6, <1>7, <1>8, <1>9 DEF Message

(* A button changes the presser's session only, and types no reason.       *)
LEMMA PressKeepsKeyInv ==
    ASSUME KeyInv, NEW u \in Users, Live(u), NEW s \in Session,
           m_sessions' = [m_sessions EXCEPT ![u] = s], uD' = u,
           s.jira_task.key_reason \in
              {Empty, m_sessions[u].jira_task.key_reason},
           UNCHANGED <<openKeys, asked, closed>>
    PROVE  KeyInv'
<1>1. m_sessions'[u] = s /\ s # nullptr
  BY DialogueAssumption DEF KeyInv, TypeOK
<1>2. \A v \in Users \ {u} : m_sessions'[v] = m_sessions[v]
  BY DEF KeyInv, TypeOK
<1>3. TypeOK'
  BY DEF KeyInv, TypeOK
<1>4. NoDanglingSession'
  BY <1>1 DEF NoDanglingSession, Live
<1>5. DecidedOnce'
  BY <1>1, <1>2 DEF KeyInv, TypeOK, DecidedOnce, Pending, Live
<1> QED
  BY <1>3, <1>4, <1>5 DEF KeyInv, AtMostOneOpenKey

(* A button that replaces the presser's task keeps the invariant if the new *)
(* task holds the old reason or none.                                      *)
LEMMA SetTaskKeepsKeyInv ==
    ASSUME KeyInv, NEW u \in Users, Live(u), NEW n \in Task, SetTask(u, n),
           n.key_reason \in {Empty, m_sessions[u].jira_task.key_reason},
           uD' = u, UNCHANGED <<openKeys, asked, closed>>
    PROVE  KeyInv'
<1> DEFINE s == [m_sessions[u] EXCEPT !.jira_task = n]
<1>1. m_sessions[u] \in Session
  BY LiveSession DEF KeyInv
<1>2. s \in Session /\ s.jira_task = n
  BY <1>1 DEF Session
<1>3. m_sessions' = [m_sessions EXCEPT ![u] = s]
  BY DEF SetTask, KeyInv, TypeOK
<1> HIDE DEF s
<1> QED
  BY <1>2, <1>3, PressKeepsKeyInv

(* So does a button that opens a dialogue. *)
LEMMA OpenDialogueKeepsKeyInv ==
    ASSUME KeyInv, NEW u \in Users, Live(u), NEW n \in Task,
           OpenDialogue(u, n),
           n.key_reason \in {Empty, m_sessions[u].jira_task.key_reason},
           uD' = u, UNCHANGED <<openKeys, asked, closed>>
    PROVE  KeyInv'
<1> DEFINE s == [m_sessions[u] EXCEPT !.jira_task = n,
                                      !.clicked_msg_id = "none"]
<1>1. m_sessions[u] \in Session
  BY LiveSession DEF KeyInv
<1>2. s \in Session /\ s.jira_task = n
  BY <1>1 DEF Session
<1>3. m_sessions' = [m_sessions EXCEPT ![u] = s]
  BY DEF OpenDialogue, KeyInv, TypeOK
<1> HIDE DEF s
<1> QED
  BY <1>2, <1>3, PressKeepsKeyInv

(* No button of a wizard or a menu breaks the invariant of the key requests. *)
LEMMA ButtonKeepsKeyInv ==
    ASSUME KeyInv, NEW u \in Users, Button(u)
    PROVE  KeyInv'
<1> USE DEF Press
<1> DEFINE t == m_sessions[u].jira_task
<1>0. Live(u) => t \in Task
  BY LiveSession DEF KeyInv
<1>e. EmptyTask \in Task /\ EmptyTask.key_reason = Empty
  BY NewSessionTyped DEF EmptyTask
<1>1. CASE PressWithoutEffect(u)
  BY <1>1 DEF PressWithoutEffect, Found, KeyInv, TypeOK, NoDanglingSession,
              Live, DecidedOnce, Pending, AtMostOneOpenKey
<1>3. ASSUME NEW sent \in BOOLEAN, ReqMasterKey(u, sent)
      PROVE  KeyInv'
  <2> DEFINE n == [EmptyTask EXCEPT
                     !.stat_ = IF sent THEN revit_master_key_reason_step1
                               ELSE NoStep]
  <2>1. n \in Task /\ n.key_reason = Empty
    BY <1>e, StepsTyped DEF Task
  <2> HIDE DEF n
  <2> QED
    BY <1>3, <2>1, SetTaskKeepsKeyInv DEF ReqMasterKey, n
<1>4. ASSUME NEW data \in {"msg_as_bot", "msg_to_gpt", "run_command"},
             DeveloperButton(u, data)
      PROVE  KeyInv'
  <2> DEFINE n == [t EXCEPT !.type = "DEVELOPER",
                            !.stat_ = DeveloperStep(data)]
  <2>1. n \in Task /\ n.key_reason = t.key_reason
    BY <1>0, <1>4, StepsTyped
    DEF DeveloperButton, DeveloperStep, Task, Types, DeveloperSteps
  <2>2. SetTask(u, n)
    BY <1>4 DEF DeveloperButton
  <2> HIDE DEF n
  <2> QED
    BY <1>4, <2>1, <2>2, SetTaskKeepsKeyInv DEF DeveloperButton
<1>5. ASSUME NEW data \in {"add_new_contractor", "set_new_msi_version"},
             StaffButton(u, data)
      PROVE  KeyInv'
  <2> DEFINE n == [t EXCEPT !.type = "STAFF",
                            !.stat_ = IF data = "add_new_contractor"
                                      THEN staff_add_new_contractor
                                      ELSE staff_set_new_msi_version]
  <2>1. n \in Task /\ n.key_reason = t.key_reason
    BY <1>0, <1>5, StepsTyped DEF StaffButton, Task, Types, StaffSteps
  <2>2. SetTask(u, n)
    BY <1>5 DEF StaffButton
  <2> HIDE DEF n
  <2> QED
    BY <1>5, <2>1, <2>2, SetTaskKeepsKeyInv DEF StaffButton
<1>6. CASE NoMorePhotos(u)
  <2> DEFINE n == [t EXCEPT !.stat_ = shared_separate_tekla_from_bim_step6]
  <2>1. n \in Task /\ n.key_reason = t.key_reason
    BY <1>0, <1>6, StepsTyped DEF NoMorePhotos, Task
  <2>2. SetTask(u, n)
    BY <1>6 DEF NoMorePhotos
  <2> HIDE DEF n
  <2> QED
    BY <1>6, <2>1, <2>2, SetTaskKeepsKeyInv DEF NoMorePhotos
<1>7. CASE MyTasks(u)
  <2>1. OpenDialogue(u, EmptyTask)
    BY <1>7 DEF MyTasks, OpenDialogue
  <2> QED
    BY <1>7, <1>e, <2>1, OpenDialogueKeepsKeyInv DEF MyTasks
<1>8. CASE TeklaEnterMenu(u)
  <2> DEFINE n == [t EXCEPT !.subj = TeklaSubject]
  <2>1. n \in Task /\ n.key_reason = t.key_reason
    BY <1>0, <1>8, StepsTyped DEF TeklaEnterMenu, Task
  <2>2. SetTask(u, n)
    BY <1>8 DEF TeklaEnterMenu
  <2> HIDE DEF n
  <2> QED
    BY <1>8, <2>1, <2>2, SetTaskKeepsKeyInv DEF TeklaEnterMenu
<1>9. CASE TeklaGeneralIssue(u)
  <2> DEFINE n == [t EXCEPT !.type = "TEKLA", !.section = TeklaSection,
                            !.stat_ = task_subj_step3]
  <2>1. n \in Task /\ n.key_reason = t.key_reason
    BY <1>0, <1>9, StepsTyped DEF TeklaGeneralIssue, Task, Types
  <2>2. SetTask(u, n)
    BY <1>9 DEF TeklaGeneralIssue
  <2> HIDE DEF n
  <2> QED
    BY <1>9, <2>1, <2>2, SetTaskKeepsKeyInv DEF TeklaGeneralIssue
<1>10. CASE TeklaBack(u)
  BY <1>10, <1>e, SetTaskKeepsKeyInv DEF TeklaBack
<1>11. ASSUME NEW sent \in BOOLEAN, NewTask(u, sent)
       PROVE  KeyInv'
  <2> DEFINE n == [EmptyTask EXCEPT
                     !.type = "BIMTASK",
                     !.stat_ = IF sent THEN task_section_step1 ELSE NoStep]
  <2>1. n \in Task /\ n.key_reason = Empty
    BY <1>e, StepsTyped DEF Task, Types
  <2>2. OpenDialogue(u, n)
    BY <1>11 DEF NewTask
  <2> HIDE DEF n
  <2> QED
    BY <1>11, <2>1, <2>2, OpenDialogueKeepsKeyInv DEF NewTask
<1>12. ASSUME NEW sent \in BOOLEAN, NewFamily(u, sent)
       PROVE  KeyInv'
  <2> DEFINE n == [EmptyTask EXCEPT
                     !.type = "FAMILY", !.subj = FamilySubject,
                     !.stat_ = IF sent THEN family_unit_step1 ELSE NoStep]
  <2>1. n \in Task /\ n.key_reason = Empty
    BY <1>e, StepsTyped DEF Task, Types
  <2>2. OpenDialogue(u, n)
    BY <1>12 DEF NewFamily
  <2> HIDE DEF n
  <2> QED
    BY <1>12, <2>1, <2>2, OpenDialogueKeepsKeyInv DEF NewFamily
<1>13. CASE TaskClosing(u)
  <2>1. OpenDialogue(u, t)
    BY <1>13 DEF TaskClosing, OpenDialogue, Live, KeyInv, TypeOK, Session
  <2> QED
    BY <1>0, <1>13, <2>1, OpenDialogueKeepsKeyInv DEF TaskClosing
<1> QED
  BY <1>1, <1>3, <1>4, <1>5, <1>6, <1>7, <1>8, <1>9, <1>10, <1>11, <1>12,
     <1>13
  DEF Button

(* A key is added only where none is open, and a decision leaves no reason.*)
LEMMA DecisionKeepsKeyInv ==
    ASSUME KeyInv, NEW p \in Users, NEW r \in Users, Decision(p, r)
    PROVE  KeyInv'
<1> DEFINE decided == [m_sessions EXCEPT ![r] = Decided(@)]
<1>a. TypeOK /\ TypeOK'
  BY DecisionTyped DEF KeyInv
<1>b. ASSUME KeyInserted(r) = openKeys'
      PROVE  AtMostOneOpenKey'
  BY <1>b DEF KeyInserted, KeyInv, TypeOK, AtMostOneOpenKey
<1>c. Found(p) # nullptr => Live(Found(p))
  BY DEF Found
<1>d. ASSUME Live(r)
      PROVE  /\ \A v \in Users :
                   decided[v] = nullptr <=> m_sessions[v] = nullptr
             /\ decided[r].jira_task.key_reason = Empty
             /\ \A v \in Users \ {r} : decided[v] = m_sessions[v]
  <2>1. m_sessions[r] \in Session
    BY <1>a, <1>d, LiveSession
  <2>2. /\ Decided(m_sessions[r]) \in Session
        /\ Decided(m_sessions[r]).jira_task.key_reason = Empty
    BY <2>1 DEF Decided, Session, Task
  <2> QED
    BY <1>a, <2>1, <2>2, DialogueAssumption DEF TypeOK
<1>1. ASSUME NEW data \in {"approve_key_request", "_reject_key_request"},
             DecisionWithoutRequest(p, r, data)
      PROVE  KeyInv'
  BY <1>1, <1>a, <1>c
  DEF DecisionWithoutRequest, KeyInv, NoDanglingSession, DecidedOnce,
      Pending, Live, AtMostOneOpenKey
<1>2. CASE Approve(p, r)
  <2>1. Live(r) /\ m_sessions' = decided /\ closed' = closed \cup {r}
        /\ uD' = Found(p) /\ KeyInserted(r) = openKeys'
    BY <1>2 DEF Approve, Pending
  <2> HIDE DEF decided
  <2>2. NoDanglingSession'
    BY <1>c, <1>d, <2>1 DEF NoDanglingSession, Live, Found
  <2>3. DecidedOnce'
    BY <1>a, <1>d, <2>1 DEF KeyInv, TypeOK, DecidedOnce, Pending, Live
  <2> QED
    BY <1>a, <1>b, <2>1, <2>2, <2>3 DEF KeyInv
<1>3. CASE ApproveNotDelivered(p, r)
  BY <1>3, <1>a, <1>b, <1>c
  DEF ApproveNotDelivered, KeyInv, NoDanglingSession, DecidedOnce, Pending,
      Live
<1>4. ASSUME NEW told \in BOOLEAN, ApproveInsertFailed(p, r, told)
      PROVE  KeyInv'
  <2>1. Live(r) /\ uD' = Found(p) /\ openKeys' = openKeys
        /\ \/ m_sessions' = decided /\ closed' = closed \cup {r}
           \/ m_sessions' = m_sessions /\ closed' = closed
    BY <1>4 DEF ApproveInsertFailed, Pending
  <2> HIDE DEF decided
  <2>2. NoDanglingSession'
    BY <1>c, <1>d, <2>1 DEF NoDanglingSession, Live, Found
  <2>3. DecidedOnce'
    BY <1>a, <1>d, <2>1 DEF KeyInv, TypeOK, DecidedOnce, Pending, Live
  <2> QED
    BY <1>a, <2>1, <2>2, <2>3 DEF KeyInv, AtMostOneOpenKey
<1>5. ASSUME NEW sent \in BOOLEAN, Reject(p, r, sent)
      PROVE  KeyInv'
  <2>1. Live(r) /\ uD' \in {Found(p), r} /\ openKeys' = openKeys
        /\ \/ m_sessions' = decided /\ closed' = closed \cup {r}
           \/ m_sessions' = m_sessions /\ closed' = closed
    BY <1>5 DEF Reject, Pending
  <2> HIDE DEF decided
  <2>2. NoDanglingSession'
    BY <1>c, <1>d, <2>1 DEF NoDanglingSession, Live, Found
  <2>3. DecidedOnce'
    BY <1>a, <1>d, <2>1 DEF KeyInv, TypeOK, DecidedOnce, Pending, Live
  <2> QED
    BY <1>a, <2>1, <2>2, <2>3 DEF KeyInv, AtMostOneOpenKey
<1> QED
  BY <1>1, <1>2, <1>3, <1>4, <1>5 DEF Decision

(* The invariant of the key requests holds in every reachable state. *)
LEMMA KeyInvInductive == Spec => []KeyInv
<1>1. Init => KeyInv
  BY DEF Init, NobodyAsked, KeyInv, TypeOK, NoDanglingSession, DecidedOnce,
         Pending, Live, AtMostOneOpenKey
<1>2. KeyInv /\ [Next]_vars => KeyInv'
  <2> SUFFICES ASSUME KeyInv, [Next]_vars
               PROVE  KeyInv'
    OBVIOUS
  <2> USE DEF KeyInv, NoDanglingSession, DecidedOnce, Pending, Live,
              AtMostOneOpenKey
  <2>1. ASSUME NEW u \in Users, NEW idle \in SUBSET Users, Message(u, idle)
        PROVE  KeyInv'
    BY <2>1, MessageKeepsKeyInv
  <2>2. ASSUME NEW u \in Users, Button(u)
        PROVE  KeyInv'
    BY <2>2, ButtonKeepsKeyInv
  <2>3. ASSUME NEW p \in Users, NEW r \in Users, Decision(p, r)
        PROVE  KeyInv'
    BY <2>3, DecisionKeepsKeyInv
  <2>4. ASSUME NEW u \in Users, KeyActivated(u)
        PROVE  KeyInv'
    BY <2>4 DEF KeyActivated, TypeOK
  <2>5. CASE Restart
    BY <2>5 DEF Restart, TypeOK
  <2>6. CASE UNCHANGED vars
    BY <2>6 DEF vars, TypeOK
  <2> QED
    BY <2>1, <2>2, <2>3, <2>4, <2>5, <2>6 DEF Next
<1> QED
  BY <1>1, <1>2, PTL DEF Spec

(* uD never points to an erased session, although evict_idle runs at the   *)
(* start of every message and decisions look up another user's session.    *)
THEOREM PointerSafe == Spec => []NoDanglingSession
BY KeyInvInductive, PTL DEF KeyInv

(* A key request is decided once: after an approval or a rejection no      *)
(* button acts on it again before a new reason has been typed.             *)
THEOREM RequestDecidedOnce == Spec => []DecidedOnce
BY KeyInvInductive, PTL DEF KeyInv

(* However many approvals, failures and restarts, a user has at most one   *)
(* key that is not activated.                                              *)
THEOREM OneOpenKey == Spec => []AtMostOneOpenKey
BY KeyInvInductive, PTL DEF KeyInv

-----------------------------------------------------------------------------
(* What every session holds, whatever messages, buttons, failures,         *)
(* evictions and restarts went before.                                     *)

USE DEF NoStep, developer_send_msg_as_bot, developer_send_msg_to_gpt,
        developer_run_host_command, staff_set_new_msi_version,
        staff_add_new_contractor, task_section_step1, task_project_step2,
        task_subj_step3, task_descr_step4, family_unit_step1,
        family_category_step2, family_descr_step3, family_project_step4,
        shared_firstname_step5, shared_separate_tekla_from_bim_step6,
        revit_master_key_reason_step1, revit_master_key_firstname_step2

(* What holds of the task of user u, on whose reason staff was asked to    *)
(* decide as ask says.  The kind of an issue is known from its first question on,  *)
(* or the buttons of the photo step would meet a task without one.         *)
RoleOK(u, t) == HasRole(u, RoleForStep(t.stat_))
KindOK(t) ==
    /\ t.type = "BIMTASK" => TaskAnswers(t)
    /\ t.type = "FAMILY" => FamilyAnswers(t)
    /\ At(t, TaskSteps \cup FamilySteps \cup SharedSteps)
          => t.type \in {"BIMTASK", "FAMILY", "TEKLA"}
ReasonOK(t, ask) ==
    t.key_reason # Empty /\ t.type = "" /\ t.stat_ = NoStep
        => \A s \in Staff : ask[s] # "not_yet"

TaskOK(u, t, ask) == RoleOK(u, t) /\ KindOK(t) /\ ReasonOK(t, ask)

InDialogue(t) == t.type \in {"BIMTASK", "FAMILY"}

SessionOK(u, s, ask) ==
    /\ TaskOK(u, s.jira_task, ask)
    /\ s.clicked_msg_id = "menu" => ~InDialogue(s.jira_task)

SessionInv ==
    /\ TypeOK
    /\ \A u \in Users : Live(u) => SessionOK(u, m_sessions[u], asked[u])

-----------------------------------------------------------------------------
(* Tasks *)

(* The empty task is in order for everybody. *)
LEMMA EmptyTaskOK ==
    ASSUME NEW u, NEW sh
    PROVE  TaskOK(u, EmptyTask, sh) /\ ~InDialogue(EmptyTask)
BY DEF TaskOK, EmptyTask, RoleOK, KindOK, ReasonOK, InDialogue, HasRole,
       RoleForStep, IsAllowed, DeveloperSteps, StaffSteps, At, TaskSteps,
       FamilySteps, SharedSteps

(* A step of a wizard or of a key request is anyone's. *)
LEMMA AnyonesStep ==
    ASSUME NEW u, NEW t, t.stat_ \notin DeveloperSteps \cup StaffSteps
    PROVE  RoleOK(u, t)
BY DEF RoleOK, HasRole, RoleForStep, IsAllowed

(* The task after an answer, at the step stat. *)
AnsweredAt(t, answer, stat) == [Answered(t, answer) EXCEPT !.stat_ = stat]

(* An answer in its field, whether or not the next question was sent,      *)
(* leaves the answers of a new task in place.                              *)
LEMMA TaskAnswered ==
    ASSUME NEW t \in Task, TaskAnswers(t), t.stat_ \in QuestionSteps,
           NEW answer \in {t.stat_, Empty},
           t.stat_ = shared_firstname_step5 => answer = t.stat_,
           NEW stat \in {t.stat_, NextStep(t.stat_)}
    PROVE  TaskAnswers(AnsweredAt(t, answer, stat))
<1>1. t.stat_ \in {401, 402, 403, 404, 605}
  BY DEF TaskAnswers, At, QuestionSteps, TaskSteps, FamilySteps, SharedSteps
<1> QED
  BY <1>1 DEF AnsweredAt, TaskAnswers, At, Answered, NextStep, Task,
              TaskSteps, SharedSteps

(* The same of a family. *)
LEMMA FamilyAnswered ==
    ASSUME NEW t \in Task, FamilyAnswers(t), t.stat_ \in QuestionSteps,
           NEW answer \in {t.stat_, Empty},
           t.stat_ = shared_firstname_step5 => answer = t.stat_,
           NEW stat \in {t.stat_, NextStep(t.stat_)}
    PROVE  FamilyAnswers(AnsweredAt(t, answer, stat))
<1>1. t.stat_ \in {501, 502, 503, 504, 605}
  BY DEF FamilyAnswers, At, QuestionSteps, TaskSteps, FamilySteps, SharedSteps
<1> QED
  BY <1>1 DEF AnsweredAt, FamilyAnswers, At, Answered, NextStep, Task,
              FamilySteps, SharedSteps

(* An answer to any question leaves the task in order. *)
LEMMA AnsweredOK ==
    ASSUME NEW u, NEW sh, NEW t \in Task, TaskOK(u, t, sh),
           t.stat_ \in QuestionSteps,
           NEW answer \in {t.stat_, Empty},
           t.stat_ = shared_firstname_step5 => answer = t.stat_,
           NEW stat \in {t.stat_, NextStep(t.stat_)}
    PROVE  /\ TaskOK(u, AnsweredAt(t, answer, stat), sh)
           /\ AnsweredAt(t, answer, stat) \in Task
           /\ AnsweredAt(t, answer, stat).type = t.type
<1> DEFINE a == Answered(t, answer)
           n == AnsweredAt(t, answer, stat)
<1>1. stat \in QuestionSteps /\ QuestionSteps \subseteq Steps
  BY NextStepTyped DEF Task
<1>2. answer \in Answers
  BY StepsTyped DEF Task
<1>3. a \in Task
  BY <1>2, AnsweredTyped
<1>b. a.type = t.type
  BY DEF Answered, Task
<1>0. n = [a EXCEPT !.stat_ = stat]
  BY DEF AnsweredAt
<1> HIDE DEF a, n
<1>4. n \in Task /\ n.type = t.type /\ n.stat_ = stat
  BY <1>0, <1>1, <1>3, <1>b DEF Task
<1>a. stat # NoStep /\ stat \notin DeveloperSteps \cup StaffSteps
  BY <1>1
  DEF QuestionSteps, TaskSteps, FamilySteps, DeveloperSteps, StaffSteps
<1>5. RoleOK(u, n)
  BY <1>4, <1>a, AnyonesStep
<1>6. KindOK(n)
  <2>1. t.type \in {"BIMTASK", "FAMILY", "TEKLA"}
    BY DEF TaskOK, KindOK, At, QuestionSteps, SharedSteps
  <2>2. t.type = "BIMTASK" => TaskAnswers(n)
    BY TaskAnswered DEF TaskOK, KindOK, n
  <2>3. t.type = "FAMILY" => FamilyAnswers(n)
    BY FamilyAnswered DEF TaskOK, KindOK, n
  <2> QED
    BY <1>4, <2>1, <2>2, <2>3 DEF KindOK
<1>7. ReasonOK(n, sh)
  BY <1>4, <1>a DEF ReasonOK
<1> QED
  BY <1>4, <1>5, <1>6, <1>7 DEF TaskOK, n

-----------------------------------------------------------------------------
(* Messages *)

(* The session the dispatcher hands to a handler is in order, be it old or *)
(* new.                                                                    *)
LEMMA DispatchedOK ==
    ASSUME SessionInv, NEW u \in Users, NEW idle \in SUBSET Users
    PROVE  /\ Dispatched(u, idle)[u] \in Session
           /\ SessionOK(u, Dispatched(u, idle)[u], asked[u])
           /\ TaskOf(u, idle) \in Task
           /\ TaskOK(u, TaskOf(u, idle), asked[u])
<1>1. Dispatched(u, idle)[u] \in {m_sessions[u], NewSession} \ {nullptr}
  BY DispatchedSessions DEF SessionInv, TypeOK
<1>2. SessionOK(u, NewSession, asked[u])
  BY EmptyTaskOK DEF SessionOK, NewSession
<1>3. SessionOK(u, Dispatched(u, idle)[u], asked[u])
  BY <1>1, <1>2 DEF SessionInv, Live
<1>4. Dispatched(u, idle)[u] \in Session
  BY DispatchedSessions DEF SessionInv, TypeOK
<1> QED
  BY <1>3, <1>4, TaskOfTyped DEF SessionInv, SessionOK, TaskOf

(* A reply that leaves a task in order, and does not open a new task or    *)
(* family, keeps every session in order.                                   *)
LEMMA ReplyKeepsSessions ==
    ASSUME SessionInv, NEW u \in Users, NEW idle \in SUBSET Users,
           NEW n \in Task, Reply(u, idle, n), TypeOK',
           \A v \in Users \ {u} : asked'[v] = asked[v],
           TaskOK(u, n, asked'[u]),
           InDialogue(n) => InDialogue(TaskOf(u, idle))
    PROVE  SessionInv'
<1>1. /\ m_sessions'[u] = [Dispatched(u, idle)[u] EXCEPT !.jira_task = n]
      /\ \A v \in Users \ {u} : m_sessions'[v] \in {m_sessions[v], nullptr}
  BY ReplyTyped DEF SessionInv
<1>2. /\ m_sessions'[u].jira_task = n
      /\ m_sessions'[u].clicked_msg_id
            = Dispatched(u, idle)[u].clicked_msg_id
  BY <1>1, DispatchedOK DEF Session
<1>3. SessionOK(u, m_sessions'[u], asked'[u])
  BY <1>2, DispatchedOK DEF SessionOK, TaskOf
<1> QED
  BY <1>1, <1>3 DEF SessionInv, Live

(* No message takes a session out of order: an answer goes into the field  *)
(* of its question, and the request that is broadcast is the pending one.  *)
LEMMA MessageKeepsSessions ==
    ASSUME SessionInv, NEW u \in Users, NEW idle \in SUBSET Users,
           Message(u, idle)
    PROVE  SessionInv'
<1> DEFINE t == TaskOf(u, idle)
<1>a. TypeOK /\ TypeOK' /\ t \in Task /\ TaskOK(u, t, asked[u])
  BY MessageTyped, DispatchedOK DEF SessionInv
<1>b. EmptyTask \in Task /\ ~InDialogue(EmptyTask)
      /\ \A sh : TaskOK(u, EmptyTask, sh)
  BY EmptyTaskOK, NewSessionTyped
<1>c. ASSUME NEW n \in {t, EmptyTask}, Reply(u, idle, n), asked' = asked
      PROVE  SessionInv'
  BY <1>a, <1>b, <1>c, ReplyKeepsSessions
<1> HIDE DEF t
<1>1. CASE Help(u, idle)
  BY <1>1, <1>c DEF Help
<1>2. ASSUME NEW sent \in BOOLEAN, Start(u, idle, sent)
      PROVE  SessionInv'
  <2> DEFINE n == [jira_task |-> EmptyTask,
                   clicked_msg_id |->
                      IF sent THEN "menu"
                      ELSE Dispatched(u, idle)[u].clicked_msg_id]
  <2>1. /\ Dispatched(u, idle) \in [Users -> Session \cup {nullptr}]
        /\ \A v \in Users \ {u} :
              Dispatched(u, idle)[v] \in {m_sessions[v], nullptr}
    BY <1>a, DispatchedSessions DEF TypeOK
  <2>2. m_sessions' = [Dispatched(u, idle) EXCEPT ![u] = n] /\ asked' = asked
    BY <1>2 DEF Start
  <2>3. SessionOK(u, n, asked[u])
    BY <1>b DEF SessionOK
  <2> HIDE DEF n
  <2>4. m_sessions'[u] = n
    BY <2>1, <2>2
  <2>5. \A v \in Users \ {u} : m_sessions'[v] \in {m_sessions[v], nullptr}
    BY <2>1, <2>2
  <2> QED
    BY <1>a, <2>2, <2>3, <2>4, <2>5 DEF SessionInv, Live
<1>3. ASSUME NEW hasText \in BOOLEAN, NEW sent \in BOOLEAN,
             AnswerQuestion(u, idle, hasText, sent)
      PROVE  SessionInv'
  <2> DEFINE answer == IF hasText THEN t.stat_ ELSE Empty
             stat   == IF sent THEN NextStep(t.stat_) ELSE t.stat_
             n      == AnsweredAt(t, answer, stat)
  <2>1. /\ t.stat_ \in QuestionSteps
        /\ t.stat_ = shared_firstname_step5 => answer = t.stat_
        /\ answer \in {t.stat_, Empty}
        /\ stat \in {t.stat_, NextStep(t.stat_)}
    BY <1>3 DEF AnswerQuestion, t
  <2>2. Answered(t, answer) \in Task /\ Answered(t, answer).stat_ = t.stat_
    <3>1. answer \in Answers
      BY <1>a, StepsTyped DEF Task
    <3>2. Answered(t, answer) \in Task
      BY <1>a, <3>1, AnsweredTyped
    <3>3. Answered(t, answer).stat_ = t.stat_
      BY <1>a DEF Answered, Task
    <3> QED
      BY <3>2, <3>3
  <2>3. Reply(u, idle, n) /\ asked' = asked
    <3>1. n = IF sent THEN [Answered(t, answer) EXCEPT
                              !.stat_ = NextStep(t.stat_)]
              ELSE Answered(t, answer)
      BY <2>2 DEF Task, AnsweredAt
    <3> QED
      BY <1>3, <3>1 DEF AnswerQuestion, t
  <2> HIDE DEF answer, stat
  <2>4. TaskOK(u, n, asked[u]) /\ n \in Task /\ n.type = t.type
    BY <1>a, <2>1, AnsweredOK
  <2> HIDE DEF n
  <2> QED
    BY <1>a, <2>3, <2>4, ReplyKeepsSessions DEF InDialogue, t
<1>4. ASSUME NEW stored \in BOOLEAN, ReceivePhotos(u, idle, stored)
      PROVE  SessionInv'
  <2> DEFINE n == [t EXCEPT !.photos = @ \/ stored]
  <2>1. t.stat_ = shared_firstname_step5 /\ Reply(u, idle, n) /\ asked' = asked
    BY <1>4 DEF ReceivePhotos, t
  <2>2. n \in Task /\ n.type = t.type /\ n.stat_ = t.stat_
    BY <1>a DEF Task
  <2>3. RoleOK(u, n)
    BY <1>a, <2>2 DEF TaskOK, RoleOK
  <2>4. KindOK(n)
    BY <1>a, <2>1
    DEF TaskOK, KindOK, TaskAnswers, FamilyAnswers, At, Task, TaskSteps,
        FamilySteps, SharedSteps
  <2> HIDE DEF n
  <2>6. n.stat_ # NoStep
    BY <2>1, <2>2
  <2>5. ReasonOK(n, asked[u])
    BY <2>6 DEF ReasonOK
  <2> QED
    BY <1>a, <2>1, <2>2, <2>3, <2>4, <2>5, ReplyKeepsSessions
    DEF TaskOK, InDialogue, t
<1>5. CASE GiveName(u, idle)
  BY <1>5, <1>c DEF GiveName
<1>k. ASSUME t.stat_ \in KeySteps
      PROVE  ~InDialogue(t)
  BY <1>a, <1>k
  DEF TaskOK, KindOK, TaskAnswers, FamilyAnswers, At, InDialogue, KeySteps,
      TaskSteps, FamilySteps, SharedSteps
<1>n. ASSUME NEW n \in Task, ~InDialogue(n),
             n.stat_ \in KeySteps \cup {NoStep}
      PROVE  RoleOK(u, n) /\ KindOK(n)
  <2>1. n.stat_ \notin DeveloperSteps \cup StaffSteps
    BY <1>n DEF KeySteps, DeveloperSteps, StaffSteps
  <2> QED
    BY <1>n, <2>1, AnyonesStep
    DEF KindOK, InDialogue, KeySteps, At, TaskSteps, FamilySteps, SharedSteps
<1>6. ASSUME NEW reason \in Reasons \cup {Empty}, NEW sent \in BOOLEAN,
             GiveKeyReason(u, idle, reason, sent)
      PROVE  SessionInv'
  <2> DEFINE stat == IF sent THEN revit_master_key_firstname_step2
                     ELSE t.stat_
             n    == [t EXCEPT !.key_reason = reason, !.stat_ = stat]
  <2>1. t.stat_ = revit_master_key_reason_step1 /\ Reply(u, idle, n)
        /\ asked' = [asked EXCEPT ![u] = NobodyAsked]
    BY <1>6 DEF GiveKeyReason, t
  <2>2. stat \in KeySteps /\ stat \in Steps /\ stat # NoStep
    BY <2>1 DEF KeySteps, Steps
  <2> HIDE DEF stat
  <2>3. n \in Task /\ n.type = t.type /\ n.stat_ = stat
    BY <1>a, <2>2 DEF Task
  <2> HIDE DEF n
  <2>4. ~InDialogue(t) /\ ~InDialogue(n)
    BY <1>k, <2>1, <2>3 DEF InDialogue, KeySteps
  <2>5. ReasonOK(n, asked'[u])
    BY <2>2, <2>3 DEF ReasonOK
  <2>6. \A v \in Users \ {u} : asked'[v] = asked[v]
    BY <1>a, <2>1 DEF TypeOK
  <2> QED
    BY <1>a, <1>n, <2>1, <2>2, <2>3, <2>4, <2>5, <2>6, ReplyKeepsSessions
    DEF TaskOK
<1>7. ASSUME NEW hasText \in BOOLEAN, NEW sent \in BOOLEAN,
             NEW no \in SUBSET Staff,
             GiveKeyName(u, idle, hasText, sent, no)
      PROVE  SessionInv'
  <2> DEFINE name == IF hasText THEN t.stat_ ELSE Empty
             stat == IF sent THEN NoStep ELSE t.stat_
             n    == [t EXCEPT !.consumer_name = name, !.stat_ = stat]
  <2>1. t.stat_ = revit_master_key_firstname_step2 /\ Reply(u, idle, n)
        /\ asked' = [asked EXCEPT ![u] = Broadcast(no)]
    BY <1>7 DEF GiveKeyName, t
  <2>2. /\ stat \in KeySteps \cup {NoStep}
        /\ stat \in Steps
        /\ name \in Answers
    BY <2>1, StepsTyped DEF KeySteps
  <2> HIDE DEF name, stat
  <2>3. n \in Task /\ n.type = t.type /\ n.stat_ = stat
        /\ n.key_reason = t.key_reason
    BY <1>a, <2>2 DEF Task
  <2>4. /\ \A s \in Staff : asked'[u][s] # "not_yet"
        /\ \A v \in Users \ {u} : asked'[v] = asked[v]
    BY <1>a, <2>1 DEF TypeOK, Broadcast
  <2> HIDE DEF n
  <2>5. ~InDialogue(t) /\ ~InDialogue(n)
    BY <1>k, <2>1, <2>3 DEF InDialogue, KeySteps
  <2>6. ReasonOK(n, asked'[u])
    BY <2>3, <2>4 DEF ReasonOK
  <2> QED
    BY <1>a, <1>n, <2>1, <2>2, <2>3, <2>4, <2>5, <2>6, ReplyKeepsSessions
    DEF TaskOK
<1>8. ASSUME NEW done \in BOOLEAN, ServiceStep(u, idle, done)
      PROVE  SessionInv'
  <2>1. PICK n \in {t, EmptyTask} : Reply(u, idle, n)
    BY <1>8 DEF ServiceStep, t
  <2> QED
    BY <1>8, <1>c, <2>1 DEF ServiceStep
<1>9. CASE OtherMessage(u, idle)
  BY <1>9, <1>c DEF OtherMessage, t
<1> QED
  BY <1>1, <1>2, <1>3, <1>4, <1>5, <1>6, <1>7, <1>8, <1>9 DEF Message

-----------------------------------------------------------------------------
(* Buttons *)

(* A button that leaves the presser's session in order leaves all of them. *)
LEMMA PressKeepsSessions ==
    ASSUME SessionInv, NEW u \in Users, NEW s, TypeOK', asked' = asked,
           m_sessions' = [m_sessions EXCEPT ![u] = s],
           SessionOK(u, s, asked[u])
    PROVE  SessionInv'
<1>1. m_sessions'[u] = s /\ \A v \in Users \ {u} : m_sessions'[v] = m_sessions[v]
  BY DEF SessionInv, TypeOK
<1> QED
  BY <1>1 DEF SessionInv, Live

(* So does a button that sets the presser's task, if a current menu and a  *)
(* new task or family are not brought together.                            *)
LEMMA SetTaskKeepsSessions ==
    ASSUME SessionInv, NEW u \in Users, Live(u), NEW n, SetTask(u, n),
           TypeOK', asked' = asked, TaskOK(u, n, asked[u]),
           InDialogue(n) => InDialogue(m_sessions[u].jira_task)
    PROVE  SessionInv'
<1> DEFINE s == [m_sessions[u] EXCEPT !.jira_task = n]
<1>1. m_sessions[u] \in Session /\ SessionOK(u, m_sessions[u], asked[u])
  BY LiveSession DEF SessionInv
<1>2. s.jira_task = n /\ s.clicked_msg_id = m_sessions[u].clicked_msg_id
  BY <1>1 DEF Session
<1>3. m_sessions' = [m_sessions EXCEPT ![u] = s]
  BY DEF SetTask, SessionInv, TypeOK
<1> HIDE DEF s
<1>4. SessionOK(u, s, asked[u])
  BY <1>1, <1>2 DEF SessionOK
<1> QED
  BY <1>3, <1>4, PressKeepsSessions

(* A button that uses up the menu may open any dialogue. *)
LEMMA OpenDialogueKeepsSessions ==
    ASSUME SessionInv, NEW u \in Users, Live(u), NEW n, OpenDialogue(u, n),
           TypeOK', asked' = asked, TaskOK(u, n, asked[u])
    PROVE  SessionInv'
<1> DEFINE s == [m_sessions[u] EXCEPT !.jira_task = n,
                                      !.clicked_msg_id = "none"]
<1>1. m_sessions[u] \in Session
  BY LiveSession DEF SessionInv
<1>2. s.jira_task = n /\ s.clicked_msg_id = "none"
  BY <1>1 DEF Session
<1>3. m_sessions' = [m_sessions EXCEPT ![u] = s]
  BY DEF OpenDialogue, SessionInv, TypeOK
<1> HIDE DEF s
<1>4. SessionOK(u, s, asked[u])
  BY <1>2 DEF SessionOK
<1> QED
  BY <1>3, <1>4, PressKeepsSessions

(* A task that is neither a new task nor a family, and not at one of their *)
(* questions, is of a known kind.                                          *)
LEMMA OtherKindOK ==
    ASSUME NEW n, ~InDialogue(n),
           \/ n.type = "TEKLA"
           \/ n.stat_ \notin TaskSteps \cup FamilySteps \cup SharedSteps
    PROVE  KindOK(n)
BY DEF KindOK, InDialogue, At

(* The role of a service button is the role of its step. *)
LEMMA ServiceRole ==
    ASSUME NEW u, NEW data, NEW n, HasRole(u, RoleForCallback(data)),
           \/ /\ data \in {"msg_as_bot", "msg_to_gpt", "run_command"}
              /\ n.stat_ = DeveloperStep(data)
           \/ /\ data \in {"add_new_contractor", "set_new_msi_version"}
              /\ n.stat_ \in StaffSteps
    PROVE  RoleOK(u, n) /\ n.stat_ \in DeveloperSteps \cup StaffSteps
<1>1. CASE /\ data \in {"msg_as_bot", "msg_to_gpt", "run_command"}
           /\ n.stat_ = DeveloperStep(data)
  <2>1. RoleForCallback(data) = "developer"
    BY <1>1 DEF RoleForCallback, DeveloperCallbacks
  <2>2. n.stat_ \in DeveloperSteps
    BY <1>1 DEF DeveloperStep, DeveloperSteps
  <2>3. RoleForStep(n.stat_) = "developer"
    BY <2>2 DEF RoleForStep
  <2> QED
    BY <2>1, <2>2, <2>3 DEF RoleOK
<1>2. CASE /\ data \in {"add_new_contractor", "set_new_msi_version"}
           /\ n.stat_ \in StaffSteps
  <2>1. RoleForCallback(data) = "staff"
    BY <1>2 DEF RoleForCallback, DeveloperCallbacks, StaffCallbacks
  <2>2. RoleForStep(n.stat_) = "staff"
    BY <1>2 DEF RoleForStep, DeveloperSteps, StaffSteps
  <2> QED
    BY <1>2, <2>1, <2>2 DEF RoleOK
<1> QED
  BY <1>1, <1>2

(* No button takes the presser's session out of order, old menus and       *)
(* buttons without a guard included.                                       *)
LEMMA ButtonKeepsSessions ==
    ASSUME SessionInv, NEW u \in Users, Button(u)
    PROVE  SessionInv'
<1> USE DEF Press
<1> DEFINE t == m_sessions[u].jira_task
<1>a. TypeOK /\ TypeOK'
  BY ButtonTyped DEF SessionInv
<1>b. ASSUME Live(u)
      PROVE  /\ t \in Task
             /\ TaskOK(u, t, asked[u])
             /\ OnCurrentMenu(u) => ~InDialogue(t)
  BY <1>b, LiveSession DEF SessionInv, SessionOK, OnCurrentMenu
<1>c. EmptyTask \in Task /\ ~InDialogue(EmptyTask)
      /\ TaskOK(u, EmptyTask, asked[u])
  BY EmptyTaskOK, NewSessionTyped
<1>s. Steps \cap (DeveloperSteps \cup StaffSteps \cup KeySteps \cup {NoStep})
         \cap (TaskSteps \cup FamilySteps \cup SharedSteps) = {}
  BY DEF Steps, DeveloperSteps, StaffSteps, KeySteps, TaskSteps, FamilySteps,
         SharedSteps
<1>1. CASE PressWithoutEffect(u)
  BY <1>1, <1>a DEF PressWithoutEffect, SessionInv, Live
<1>3. ASSUME NEW sent \in BOOLEAN, ReqMasterKey(u, sent)
      PROVE  SessionInv'
  <2> DEFINE stat == IF sent THEN revit_master_key_reason_step1 ELSE NoStep
             n    == [EmptyTask EXCEPT !.stat_ = stat]
  <2>1. SetTask(u, n) /\ Live(u) /\ asked' = asked
    BY <1>3 DEF ReqMasterKey
  <2>2. stat \notin DeveloperSteps \cup StaffSteps \cup TaskSteps
                        \cup FamilySteps \cup SharedSteps
    BY DEF DeveloperSteps, StaffSteps, TaskSteps, FamilySteps, SharedSteps
  <2> HIDE DEF stat
  <2>3. n.type = "" /\ n.stat_ = stat /\ n.key_reason = Empty
    BY DEF EmptyTask
  <2> HIDE DEF n
  <2>4. TaskOK(u, n, asked[u])
    BY <2>2, <2>3, AnyonesStep, OtherKindOK DEF TaskOK, ReasonOK, InDialogue
  <2> QED
    BY <1>a, <2>1, <2>3, <2>4, SetTaskKeepsSessions DEF InDialogue
<1>4. ASSUME NEW data \in {"msg_as_bot", "msg_to_gpt", "run_command"},
             DeveloperButton(u, data)
      PROVE  SessionInv'
  <2> DEFINE n == [t EXCEPT !.type = "DEVELOPER",
                            !.stat_ = DeveloperStep(data)]
  <2>1. SetTask(u, n) /\ Live(u) /\ asked' = asked
        /\ HasRole(u, RoleForCallback(data))
    BY <1>4 DEF DeveloperButton
  <2>2. n.type = "DEVELOPER" /\ n.stat_ = DeveloperStep(data)
    BY <1>b, <2>1 DEF Task
  <2> HIDE DEF n
  <2>3. RoleOK(u, n) /\ n.stat_ \in DeveloperSteps \cup StaffSteps
    BY <2>1, <2>2, ServiceRole
  <2>4. n.stat_ \notin TaskSteps \cup FamilySteps \cup SharedSteps
    BY <2>3 DEF DeveloperSteps, StaffSteps, TaskSteps, FamilySteps, SharedSteps
  <2>5. TaskOK(u, n, asked[u])
    BY <2>2, <2>3, <2>4, OtherKindOK DEF TaskOK, ReasonOK, InDialogue
  <2> QED
    BY <1>a, <2>1, <2>2, <2>5, SetTaskKeepsSessions DEF InDialogue
<1>5. ASSUME NEW data \in {"add_new_contractor", "set_new_msi_version"},
             StaffButton(u, data)
      PROVE  SessionInv'
  <2> DEFINE stat == IF data = "add_new_contractor"
                     THEN staff_add_new_contractor
                     ELSE staff_set_new_msi_version
             n    == [t EXCEPT !.type = "STAFF", !.stat_ = stat]
  <2>1. SetTask(u, n) /\ Live(u) /\ asked' = asked
        /\ HasRole(u, RoleForCallback(data))
    BY <1>5 DEF StaffButton
  <2>2. stat \in StaffSteps
    BY DEF StaffSteps
  <2> HIDE DEF stat
  <2>3. n.type = "STAFF" /\ n.stat_ = stat
    BY <1>b, <2>1 DEF Task
  <2> HIDE DEF n
  <2>4. RoleOK(u, n) /\ n.stat_ \in DeveloperSteps \cup StaffSteps
    BY <2>1, <2>2, <2>3, ServiceRole
  <2>5. n.stat_ \notin TaskSteps \cup FamilySteps \cup SharedSteps
    BY <2>4 DEF DeveloperSteps, StaffSteps, TaskSteps, FamilySteps, SharedSteps
  <2>6. TaskOK(u, n, asked[u])
    BY <2>3, <2>4, <2>5, OtherKindOK DEF TaskOK, ReasonOK, InDialogue
  <2> QED
    BY <1>a, <2>1, <2>3, <2>6, SetTaskKeepsSessions DEF InDialogue
<1>6. CASE NoMorePhotos(u)
  <2> DEFINE n == [t EXCEPT !.stat_ = shared_separate_tekla_from_bim_step6]
  <2>1. SetTask(u, n) /\ Live(u) /\ asked' = asked
        /\ t.stat_ = shared_firstname_step5
    BY <1>6 DEF NoMorePhotos
  <2>2. n.type = t.type /\ n.stat_ = shared_separate_tekla_from_bim_step6
    BY <1>b, <2>1 DEF Task
  <2>3. KindOK(n)
    BY <1>b, <2>1
    DEF TaskOK, KindOK, TaskAnswers, FamilyAnswers, At, Task, TaskSteps,
        FamilySteps, SharedSteps
  <2> HIDE DEF n
  <2>4. n.stat_ \notin DeveloperSteps \cup StaffSteps /\ n.stat_ # NoStep
    BY <2>2 DEF DeveloperSteps, StaffSteps
  <2>5. TaskOK(u, n, asked[u])
    BY <2>3, <2>4, AnyonesStep DEF TaskOK, ReasonOK
  <2> QED
    BY <1>a, <2>1, <2>2, <2>5, SetTaskKeepsSessions DEF InDialogue
<1>7. CASE MyTasks(u)
  <2>1. OpenDialogue(u, EmptyTask) /\ Live(u) /\ asked' = asked
    BY <1>7 DEF MyTasks, OpenDialogue
  <2> QED
    BY <1>a, <1>c, <2>1, OpenDialogueKeepsSessions
<1>8. CASE TeklaEnterMenu(u)
  <2> DEFINE n == [t EXCEPT !.subj = TeklaSubject]
  <2>1. SetTask(u, n) /\ Live(u) /\ asked' = asked /\ OnCurrentMenu(u)
    BY <1>8 DEF TeklaEnterMenu
  <2>2. n.type = t.type /\ n.stat_ = t.stat_ /\ n.key_reason = t.key_reason
    BY <1>b, <2>1 DEF Task
  <2> HIDE DEF n
  <2>3. TaskOK(u, n, asked[u])
    BY <1>b, <2>1, <2>2 DEF TaskOK, RoleOK, KindOK, ReasonOK, InDialogue, At
  <2> QED
    BY <1>a, <2>1, <2>2, <2>3, SetTaskKeepsSessions DEF InDialogue
<1>9. CASE TeklaGeneralIssue(u)
  <2> DEFINE n == [t EXCEPT !.type = "TEKLA", !.section = TeklaSection,
                            !.stat_ = task_subj_step3]
  <2>1. SetTask(u, n) /\ Live(u) /\ asked' = asked
    BY <1>9 DEF TeklaGeneralIssue
  <2>2. n.type = "TEKLA" /\ n.stat_ = task_subj_step3
    BY <1>b, <2>1 DEF Task
  <2> HIDE DEF n
  <2>3. n.stat_ \notin DeveloperSteps \cup StaffSteps
    BY <2>2 DEF DeveloperSteps, StaffSteps
  <2>4. TaskOK(u, n, asked[u])
    BY <2>2, <2>3, AnyonesStep, OtherKindOK DEF TaskOK, ReasonOK, InDialogue
  <2> QED
    BY <1>a, <2>1, <2>2, <2>4, SetTaskKeepsSessions DEF InDialogue
<1>10. CASE TeklaBack(u)
  BY <1>10, <1>a, <1>c, SetTaskKeepsSessions DEF TeklaBack
<1>11. ASSUME NEW sent \in BOOLEAN, NewTask(u, sent)
       PROVE  SessionInv'
  <2> DEFINE stat == IF sent THEN task_section_step1 ELSE NoStep
             n    == [EmptyTask EXCEPT !.type = "BIMTASK", !.stat_ = stat]
  <2>1. OpenDialogue(u, n) /\ Live(u) /\ asked' = asked
    BY <1>11 DEF NewTask
  <2>2. stat \in {task_section_step1, NoStep}
    OBVIOUS
  <2> HIDE DEF stat
  <2>3. TaskAnswers(n)
    BY <2>2 DEF TaskAnswers, EmptyTask, At, TaskSteps, SharedSteps
  <2>4. n.type = "BIMTASK" /\ n.stat_ = stat
    BY DEF EmptyTask
  <2> HIDE DEF n
  <2>5. n.stat_ \notin DeveloperSteps \cup StaffSteps
    BY <2>2, <2>4 DEF DeveloperSteps, StaffSteps
  <2>6. TaskOK(u, n, asked[u])
    BY <2>3, <2>4, <2>5, AnyonesStep DEF TaskOK, KindOK, ReasonOK
  <2> QED
    BY <1>a, <2>1, <2>6, OpenDialogueKeepsSessions
<1>12. ASSUME NEW sent \in BOOLEAN, NewFamily(u, sent)
       PROVE  SessionInv'
  <2> DEFINE stat == IF sent THEN family_unit_step1 ELSE NoStep
             n    == [EmptyTask EXCEPT !.type = "FAMILY",
                                       !.subj = FamilySubject,
                                       !.stat_ = stat]
  <2>1. OpenDialogue(u, n) /\ Live(u) /\ asked' = asked
    BY <1>12 DEF NewFamily
  <2>2. stat \in {family_unit_step1, NoStep}
    OBVIOUS
  <2> HIDE DEF stat
  <2>3. FamilyAnswers(n)
    BY <2>2 DEF FamilyAnswers, EmptyTask, At, FamilySteps, SharedSteps
  <2>4. n.type = "FAMILY" /\ n.stat_ = stat
    BY DEF EmptyTask
  <2> HIDE DEF n
  <2>5. n.stat_ \notin DeveloperSteps \cup StaffSteps
    BY <2>2, <2>4 DEF DeveloperSteps, StaffSteps
  <2>6. TaskOK(u, n, asked[u])
    BY <2>3, <2>4, <2>5, AnyonesStep DEF TaskOK, KindOK, ReasonOK
  <2> QED
    BY <1>a, <2>1, <2>6, OpenDialogueKeepsSessions
<1>13. CASE TaskClosing(u)
  <2>1. OpenDialogue(u, t) /\ Live(u) /\ asked' = asked
    BY <1>13, <1>a DEF TaskClosing, OpenDialogue, Live, TypeOK, Session
  <2> QED
    BY <1>a, <1>b, <2>1, OpenDialogueKeepsSessions
<1> QED
  BY <1>1, <1>3, <1>4, <1>5, <1>6, <1>7, <1>8, <1>9, <1>10, <1>11, <1>12,
     <1>13
  DEF Button
-----------------------------------------------------------------------------
(* Decisions *)

(* A decision leaves every session as it was, except that the requester's  *)
(* may have lost its reason.                                               *)
LEMMA DecisionSessions ==
    ASSUME NEW p \in Users, NEW r \in Users, Decision(p, r)
    PROVE  /\ \/ m_sessions' = m_sessions
              \/ Live(r) /\ m_sessions' = [m_sessions EXCEPT ![r] = Decided(@)]
           /\ asked' = asked
<1> USE DEF Pending
<1>1. ASSUME NEW data \in {"approve_key_request", "_reject_key_request"},
             DecisionWithoutRequest(p, r, data)
      PROVE  m_sessions' = m_sessions /\ asked' = asked
  BY <1>1 DEF DecisionWithoutRequest
<1>2. CASE Approve(p, r)
  BY <1>2 DEF Approve
<1>3. CASE ApproveNotDelivered(p, r)
  BY <1>3 DEF ApproveNotDelivered
<1>4. CASE \E told \in BOOLEAN : ApproveInsertFailed(p, r, told)
  BY <1>4 DEF ApproveInsertFailed
<1>5. CASE \E sent \in BOOLEAN : Reject(p, r, sent)
  BY <1>5 DEF Reject
<1> QED
  BY <1>1, <1>2, <1>3, <1>4, <1>5 DEF Decision

(* A decided session is the old one without its reason. *)
LEMMA DecidedSession ==
    ASSUME NEW s \in Session
    PROVE  /\ Decided(s) = [s EXCEPT !.jira_task.key_reason = Empty]
           /\ Decided(s).clicked_msg_id = s.clicked_msg_id
           /\ Decided(s).jira_task
                 = [s.jira_task EXCEPT !.key_reason = Empty]
BY DEF Decided, Session

(* A decision touches neither the step nor the answers of the requester.   *)
LEMMA DecisionKeepsSessions ==
    ASSUME SessionInv, NEW p \in Users, NEW r \in Users, Decision(p, r)
    PROVE  SessionInv'
<1>a. TypeOK /\ TypeOK' /\ asked' = asked
  BY DecisionTyped, DecisionSessions DEF SessionInv
<1>1. CASE m_sessions' = m_sessions
  BY <1>1, <1>a DEF SessionInv, Live
<1>2. CASE Live(r) /\ m_sessions' = [m_sessions EXCEPT ![r] = Decided(@)]
  <2> DEFINE t == m_sessions[r].jira_task
             n == [t EXCEPT !.key_reason = Empty]
             s == Decided(m_sessions[r])
  <2>1. /\ m_sessions[r] \in Session
        /\ t \in Task
        /\ SessionOK(r, m_sessions[r], asked[r])
    BY <1>a, <1>2, LiveSession DEF SessionInv
  <2>2. s.jira_task = n /\ s.clicked_msg_id = m_sessions[r].clicked_msg_id
    BY <2>1, DecidedSession
  <2>3. /\ n.type = t.type /\ n.stat_ = t.stat_ /\ n.key_reason = Empty
        /\ RoleOK(r, n) /\ ReasonOK(n, asked[r])
    BY <2>1 DEF SessionOK, TaskOK, RoleOK, ReasonOK, Task
  <2>4. KindOK(n)
    BY <2>1
    DEF SessionOK, TaskOK, KindOK, TaskAnswers, FamilyAnswers, At, Task
  <2>5. m_sessions' = [m_sessions EXCEPT ![r] = s]
    BY <1>2, <1>a DEF TypeOK
  <2> HIDE DEF n, s
  <2>6. SessionOK(r, s, asked[r])
    BY <2>1, <2>2, <2>3, <2>4 DEF SessionOK, TaskOK, InDialogue
  <2> QED
    BY <1>a, <2>5, <2>6, PressKeepsSessions
<1> QED
  BY <1>1, <1>2, DecisionSessions

(* Every session of every reachable state is in order. *)
LEMMA SessionInvInductive == Spec => []SessionInv
<1>1. Init => SessionInv
  BY DEF Init, NobodyAsked, SessionInv, TypeOK, Live
<1>2. SessionInv /\ [Next]_vars => SessionInv'
  <2> SUFFICES ASSUME SessionInv, [Next]_vars
               PROVE  SessionInv'
    OBVIOUS
  <2>1. ASSUME NEW u \in Users, NEW idle \in SUBSET Users, Message(u, idle)
        PROVE  SessionInv'
    BY <2>1, MessageKeepsSessions
  <2>2. ASSUME NEW u \in Users, Button(u)
        PROVE  SessionInv'
    BY <2>2, ButtonKeepsSessions
  <2>3. ASSUME NEW p \in Users, NEW r \in Users, Decision(p, r)
        PROVE  SessionInv'
    BY <2>3, DecisionKeepsSessions
  <2>4. ASSUME NEW u \in Users, KeyActivated(u)
        PROVE  SessionInv'
    BY <2>4 DEF KeyActivated, SessionInv, TypeOK, Live
  <2>5. CASE Restart
    BY <2>5 DEF Restart, SessionInv, TypeOK, Live
  <2>6. CASE UNCHANGED vars
    BY <2>6 DEF vars, SessionInv, TypeOK, Live
  <2> QED
    BY <2>1, <2>2, <2>3, <2>4, <2>5, <2>6 DEF Next
<1> QED
  BY <1>1, <1>2, PTL DEF Spec

-----------------------------------------------------------------------------
(* What the sessions are for *)

(* A user rests at a service step only with its role, whatever buttons of  *)
(* old menus were pressed: the second check of line 86 never refuses.      *)
THEOREM StepsNeedRoles == Spec => []ServiceStepNeedsRole
<1>1. SessionInv => ServiceStepNeedsRole
  BY DEF SessionInv, SessionOK, TaskOK, RoleOK, ServiceStepNeedsRole
<1> QED
  BY <1>1, SessionInvInductive, PTL

(* A live menu never belongs to a user in a task or family dialogue, so no *)
(* button that compares the pressed message can reset such a dialogue.     *)
THEOREM MenuAndDialogueExclude == Spec => []MenuExcludesDialogue
<1>1. SessionInv => MenuExcludesDialogue
  BY DEF SessionInv, SessionOK, InDialogue, OnCurrentMenu,
         MenuExcludesDialogue
<1> QED
  BY <1>1, SessionInvInductive, PTL

(* At the photo and name questions the kind of the issue is one that       *)
(* create_new_issue knows.                                                 *)
THEOREM KindIsKnown == Spec => []IssueKindKnown
<1>1. SessionInv => IssueKindKnown
  BY DEF SessionInv, SessionOK, TaskOK, KindOK, IssueKindKnown, At
<1> QED
  BY <1>1, SessionInvInductive, PTL

(* Every field of a new task or family holds the answer to its own         *)
(* question, however messages, failures, evictions and buttons interleave. *)
THEOREM AnswersStayInPlace == Spec => []AnswersInPlace
<1>1. SessionInv => AnswersInPlace
  BY DEF SessionInv, SessionOK, TaskOK, KindOK, AnswersInPlace
<1> QED
  BY <1>1, SessionInvInductive, PTL

(* After the dialogue of a key request has ended, each member of staff has *)
(* been shown the pending reason, or Telegram refused to deliver it to     *)
(* him.                                                                    *)
THEOREM RequestsReachStaff == Spec => []RequestReachesStaff
<1>1. SessionInv => RequestReachesStaff
  BY DEF SessionInv, SessionOK, TaskOK, ReasonOK, RequestReachesStaff,
         Pending
<1> QED
  BY <1>1, SessionInvInductive, PTL

-----------------------------------------------------------------------------
(* What one user's update does to the others *)

(* v's session after a step: gone, as it was, or without its reason. *)
LeftAlone(v) ==
    \/ m_sessions'[v] = nullptr
    \/ Live(v) /\ m_sessions'[v] = m_sessions[v]
    \/ /\ Live(v)
       /\ m_sessions'[v]
             = [m_sessions[v] EXCEPT !.jira_task.key_reason = Empty]

(* A message of u may only evict the other users. *)
LEMMA MessageLeavesOthers ==
    ASSUME TypeOK, NEW u \in Users, NEW idle \in SUBSET Users,
           Message(u, idle)
    PROVE  uD' = u /\ \A v \in Users \ {u} : LeftAlone(v)
<1>1. /\ uD' = u
      /\ \E s : m_sessions' = [Dispatched(u, idle) EXCEPT ![u] = s]
  <2>1. ASSUME NEW t, Reply(u, idle, t)
        PROVE  /\ uD' = u
               /\ m_sessions' = [Dispatched(u, idle) EXCEPT
                     ![u] = [Dispatched(u, idle)[u] EXCEPT !.jira_task = t]]
    BY <2>1, DispatchedSessions DEF Reply, TypeOK
  <2>2. ASSUME NEW sent \in BOOLEAN, Start(u, idle, sent)
        PROVE  /\ uD' = u
               /\ \E s : m_sessions' = [Dispatched(u, idle) EXCEPT ![u] = s]
    BY <2>2 DEF Start
  <2>3. \/ \E sent \in BOOLEAN : Start(u, idle, sent)
        \/ \E t : Reply(u, idle, t)
    <3>1. CASE Help(u, idle) \/ GiveName(u, idle) \/ OtherMessage(u, idle)
      BY <3>1, Zenon DEF Help, GiveName, OtherMessage
    <3>2. CASE \E hasText, sent \in BOOLEAN :
                  AnswerQuestion(u, idle, hasText, sent)
      BY <3>2, Zenon DEF AnswerQuestion
    <3>3. CASE \E stored \in BOOLEAN : ReceivePhotos(u, idle, stored)
      BY <3>3, Zenon DEF ReceivePhotos
    <3>4. ASSUME NEW reason \in Reasons \cup {Empty}, NEW sent \in BOOLEAN,
                 GiveKeyReason(u, idle, reason, sent)
          PROVE  \E t : Reply(u, idle, t)
      BY <3>4, Zenon DEF GiveKeyReason
    <3>5. CASE \E hasText, sent \in BOOLEAN, no \in SUBSET Staff :
                  GiveKeyName(u, idle, hasText, sent, no)
      BY <3>5, Zenon DEF GiveKeyName
    <3>6. CASE \E done \in BOOLEAN : ServiceStep(u, idle, done)
      BY <3>6, Zenon DEF ServiceStep
    <3> QED
      BY <3>1, <3>2, <3>3, <3>4, <3>5, <3>6 DEF Message
  <2> QED
    BY <2>1, <2>2, <2>3
<1>2. /\ Dispatched(u, idle) \in [Users -> Session \cup {nullptr}]
      /\ \A v \in Users \ {u} :
            Dispatched(u, idle)[v] \in {m_sessions[v], nullptr}
  BY DispatchedSessions DEF TypeOK
<1>3. \A v \in Users \ {u} : m_sessions'[v] \in {m_sessions[v], nullptr}
  BY <1>1, <1>2
<1> QED
  BY <1>1, <1>3 DEF LeftAlone, Live

(* A button of u changes no other session. *)
LEMMA ButtonLeavesOthers ==
    ASSUME TypeOK, NEW u \in Users, Button(u)
    PROVE  \/ m_sessions' = m_sessions
           \/ uD' = u /\ \A v \in Users \ {u} : m_sessions'[v] = m_sessions[v]
<1>1. ASSUME NEW t, SetTask(u, t)
      PROVE  \A v \in Users \ {u} : m_sessions'[v] = m_sessions[v]
  BY <1>1 DEF SetTask, TypeOK
<1>2. ASSUME NEW t, OpenDialogue(u, t)
      PROVE  \A v \in Users \ {u} : m_sessions'[v] = m_sessions[v]
  BY <1>2 DEF OpenDialogue, TypeOK
<1>3. CASE PressWithoutEffect(u)
  BY <1>3 DEF PressWithoutEffect
<1>4. CASE MyTasks(u)
  BY <1>4, <1>2 DEF MyTasks, OpenDialogue, Press
<1>5. CASE TaskClosing(u)
  BY <1>5 DEF TaskClosing, Press, TypeOK
<1>6. CASE \/ \E sent \in BOOLEAN : NewTask(u, sent)
           \/ \E sent \in BOOLEAN : NewFamily(u, sent)
  BY <1>6, <1>2 DEF NewTask, NewFamily, Press
<1>7. CASE \/ \E sent \in BOOLEAN : ReqMasterKey(u, sent)
           \/ \E data \in {"msg_as_bot", "msg_to_gpt", "run_command"} :
                 DeveloperButton(u, data)
           \/ \E data \in {"add_new_contractor", "set_new_msi_version"} :
                 StaffButton(u, data)
           \/ NoMorePhotos(u)
           \/ TeklaEnterMenu(u)
           \/ TeklaGeneralIssue(u)
           \/ TeklaBack(u)
  <2>1. uD' = u /\ \E t : SetTask(u, t)
    <3> USE DEF Press
    <3>1. CASE \E sent \in BOOLEAN : ReqMasterKey(u, sent)
      BY <3>1, Zenon DEF ReqMasterKey
    <3>2. CASE \E data \in {"msg_as_bot", "msg_to_gpt", "run_command"} :
                  DeveloperButton(u, data)
      BY <3>2, Zenon DEF DeveloperButton
    <3>3. CASE \E data \in {"add_new_contractor", "set_new_msi_version"} :
                  StaffButton(u, data)
      BY <3>3, Zenon DEF StaffButton
    <3>4. CASE NoMorePhotos(u) \/ TeklaEnterMenu(u)
      BY <3>4, Zenon DEF NoMorePhotos, TeklaEnterMenu
    <3>5. CASE TeklaGeneralIssue(u) \/ TeklaBack(u)
      BY <3>5, Zenon DEF TeklaGeneralIssue, TeklaBack
    <3> QED
      BY <1>7, <3>1, <3>2, <3>3, <3>4, <3>5
  <2> QED
    BY <1>1, <2>1
<1> QED
  BY <1>3, <1>4, <1>5, <1>6, <1>7 DEF Button

(* A decision takes at most the reason of the requester. *)
LEMMA DecisionLeavesAll ==
    ASSUME TypeOK, NEW p \in Users, NEW r \in Users, Decision(p, r),
           NEW v \in Users
    PROVE  LeftAlone(v)
<1>1. CASE m_sessions' = m_sessions
  BY <1>1 DEF LeftAlone, Live
<1>2. CASE Live(r) /\ m_sessions' = [m_sessions EXCEPT ![r] = Decided(@)]
  <2>1. m_sessions'[v] = IF v = r THEN Decided(m_sessions[r])
                         ELSE m_sessions[v]
    BY <1>2 DEF TypeOK
  <2>2. Decided(m_sessions[r])
           = [m_sessions[r] EXCEPT !.jira_task.key_reason = Empty]
    BY <1>2, LiveSession, DecidedSession
  <2> QED
    BY <1>2, <2>1, <2>2 DEF LeftAlone, Live
<1> QED
  BY <1>1, <1>2, DecisionSessions

(* An update of one user reaches another user's session in two ways only:  *)
(* the dispatcher evicts it, or a decision empties its reason.             *)
THEOREM OthersAreLeftAlone == Spec => OthersKeepTheirDialogue
<1> DEFINE Kept ==
       \A u \in Users :
          u # uD' /\ m_sessions'[u] # nullptr =>
              /\ Live(u)
              /\ m_sessions'[u] \in
                    {m_sessions[u],
                     [m_sessions[u] EXCEPT !.jira_task.key_reason = Empty]}
<1>1. TypeOK /\ [Next]_vars => [Kept]_vars
  <2> SUFFICES ASSUME TypeOK, Next
               PROVE  Kept
    OBVIOUS
  <2>1. ASSUME \A v \in Users : v # uD' => LeftAlone(v)
        PROVE  Kept
    BY <2>1 DEF LeftAlone
  <2>2. ASSUME m_sessions' = m_sessions
        PROVE  Kept
    BY <2>2 DEF Live
  <2> HIDE DEF Kept
  <2>3. ASSUME NEW u \in Users, NEW idle \in SUBSET Users, Message(u, idle)
        PROVE  Kept
    BY <2>1, <2>3, MessageLeavesOthers
  <2>4. ASSUME NEW u \in Users, Button(u)
        PROVE  Kept
    BY <2>1, <2>2, <2>4, ButtonLeavesOthers DEF LeftAlone, Live
  <2>5. ASSUME NEW p \in Users, NEW r \in Users, Decision(p, r)
        PROVE  Kept
    BY <2>1, <2>5, DecisionLeavesAll
  <2>6. ASSUME NEW u \in Users, KeyActivated(u)
        PROVE  Kept
    BY <2>2, <2>6 DEF KeyActivated
  <2>7. CASE Restart
    BY <2>1, <2>7 DEF Restart, LeftAlone
  <2> QED
    BY <2>3, <2>4, <2>5, <2>6, <2>7 DEF Next
<1>2. OthersKeepTheirDialogue <=> [][Kept]_vars
  BY DEF OthersKeepTheirDialogue
<1> HIDE DEF Kept
<1> QED
  BY <1>1, <1>2, TypeCorrect, PTL DEF Spec

-----------------------------------------------------------------------------
(* Who has a session *)

SameSessions == \A v \in Users : Live(v)' <=> Live(v)

(* Whoever presses a button has a session, or nothing happens. *)
LEMMA ButtonNeedsSession ==
    ASSUME NEW u \in Users, Button(u)
    PROVE  m_sessions' = m_sessions \/ Live(u)
<1> USE DEF Press
<1>1. CASE PressWithoutEffect(u)
  BY <1>1 DEF PressWithoutEffect
<1>2. CASE \/ \E sent \in BOOLEAN : ReqMasterKey(u, sent)
           \/ \E data \in {"msg_as_bot", "msg_to_gpt", "run_command"} :
                 DeveloperButton(u, data)
           \/ \E data \in {"add_new_contractor", "set_new_msi_version"} :
                 StaffButton(u, data)
           \/ NoMorePhotos(u)
           \/ MyTasks(u)
  BY <1>2 DEF ReqMasterKey, DeveloperButton, StaffButton, NoMorePhotos, MyTasks
<1>3. CASE \/ TeklaEnterMenu(u) \/ TeklaGeneralIssue(u) \/ TeklaBack(u)
           \/ TaskClosing(u)
           \/ \E sent \in BOOLEAN : NewTask(u, sent)
           \/ \E sent \in BOOLEAN : NewFamily(u, sent)
  BY <1>3 DEF TeklaEnterMenu, TeklaGeneralIssue, TeklaBack, TaskClosing,
     NewTask, NewFamily
<1> QED
  BY <1>1, <1>2, <1>3 DEF Button

(* A button makes and ends no session. *)
LEMMA ButtonKeepsWho ==
    ASSUME NEW u \in Users
    PROVE  TypeOK /\ NoDanglingSession' /\ Button(u) => SameSessions
<1> SUFFICES ASSUME TypeOK, NoDanglingSession', Button(u) PROVE SameSessions
  OBVIOUS
<1>1. CASE m_sessions' = m_sessions
  BY <1>1 DEF SameSessions, Live
<1>2. CASE m_sessions' # m_sessions
  <2>1. Live(u) /\ uD' = u
    BY <1>2, ButtonNeedsSession, ButtonLeavesOthers
  <2>2. \A v \in Users \ {u} : m_sessions'[v] = m_sessions[v]
    BY <1>2, ButtonLeavesOthers
  <2>3. Live(u)'
    BY <2>1, DialogueAssumption DEF NoDanglingSession
  <2> QED
    BY <2>1, <2>2, <2>3 DEF SameSessions, Live
<1> QED
  BY <1>1, <1>2

(* Neither does a decision. *)
LEMMA DecisionKeepsWho ==
    ASSUME TypeOK, NEW p \in Users, NEW r \in Users, Decision(p, r)
    PROVE  SameSessions
<1>1. CASE m_sessions' = m_sessions
  BY <1>1 DEF SameSessions, Live
<1>2. CASE Live(r) /\ m_sessions' = [m_sessions EXCEPT ![r] = Decided(@)]
  <2>1. Decided(m_sessions[r]) \in Session
    BY <1>2, LiveSession DEF Decided, Session, Task
  <2>2. Decided(m_sessions[r]) # nullptr
    BY <2>1, DialogueAssumption
  <2>3. \A v \in Users : m_sessions'[v] = IF v = r
                                          THEN Decided(m_sessions[r])
                                          ELSE m_sessions[v]
    BY <1>2 DEF TypeOK
  <2> QED
    BY <1>2, <2>2, <2>3 DEF SameSessions, Live
<1> QED
  BY <1>1, <1>2, DecisionSessions

Pressed == \/ \E u \in Users : Button(u)
           \/ \E p, r \in Users : Decision(p, r)

(* Neither of the two. *)
LEMMA PressedKeepsWho ==
    TypeOK /\ NoDanglingSession' /\ Pressed => SameSessions
<1> SUFFICES ASSUME TypeOK, NoDanglingSession', Pressed PROVE SameSessions
  OBVIOUS
<1>1. ASSUME NEW u \in Users, Button(u) PROVE SameSessions
  BY <1>1, ButtonKeepsWho
<1>2. ASSUME NEW p \in Users, NEW r \in Users, Decision(p, r)
      PROVE  SameSessions
  BY <1>2, DecisionKeepsWho
<1> QED
  BY <1>1, <1>2 DEF Pressed

(* The handlers of buttons and decisions write into sessions in many       *)
(* places, their presser's and another user's, and make none.              *)
THEOREM SessionsComeWithMessages == Spec => ButtonsMakeNoSession
<1> DEFINE Made == \E u \in Users : Live(u)' /\ ~Live(u)
<1>1. TypeOK /\ NoDanglingSession' => [Made => ~Pressed]_vars
  BY PressedKeepsWho DEF SameSessions
<1>2. ButtonsMakeNoSession <=> [][Made => ~Pressed]_vars
  BY DEF ButtonsMakeNoSession, Pressed
<1> HIDE DEF Made
<1> QED
  BY <1>1, <1>2, TypeCorrect, PointerSafe, PTL

(* Nor do they end one: nobody loses his dialogue to a button, his own or  *)
(* another user's.                                                         *)
THEOREM SessionsOutliveButtons ==
    Spec => [][Pressed => \A u \in Users : Live(u) => Live(u)']_vars
<1> DEFINE Kept == \A u \in Users : Live(u) => Live(u)'
<1>1. TypeOK /\ NoDanglingSession' => [Pressed => Kept]_vars
  BY PressedKeepsWho DEF SameSessions
<1> HIDE DEF Kept
<1>2. Spec => [][Pressed => Kept]_vars
  BY <1>1, TypeCorrect, PointerSafe, PTL
<1> QED
  BY <1>2 DEF Kept
=============================================================================
