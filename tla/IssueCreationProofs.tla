------------------------ MODULE IssueCreationProofs ------------------------
(***************************************************************************)
(* Theorems about IssueCreation, for any number of issues and pictures and *)
(* any numbers Jira has already given.                                     *)
(***************************************************************************)
EXTENDS IssueCreation, TLAPS

(* What the thread knows of the issue in hand: the card and the number of  *)
(* the task are its own, and it may carry the pictures.  Between two       *)
(* issues the task holds those of dialogues left unfinished since the last *)
(* one was cleared.                                                        *)
TaskInv ==
    /\ pc = "idle" => \A p \in jira_task.v_local_file_paths :
                         p[1] <= issue /\ p[1] .. issue \subseteq abandoned
    /\ pc # "idle" => /\ issue \in Numbers
                      /\ kinds[issue] = jira_task.type
                      /\ created_card_id \in {NoCard, issue}
                      /\ \A p \in jira_task.v_local_file_paths :
                            MayCarry(issue, p[1])
    /\ pc \in {"card", "row", "pictures"} => kinds[issue] = "BIMTASK"
    /\ \A p \in left : MayCarry(issue, p[1])
    /\ pc \notin {"pictures", "attach"} => left = {}
    /\ pc = "card" => created_card_id = NoCard
    /\ pc = "row" => jira_task.id_card = created_card_id
    /\ pc = "pictures" /\ left # {} => created_card_id = issue

(* Where pictures hang in Jira, and what the answer was read as. *)
JiraInv ==
    /\ \A a \in inJira : a[2] \in DOMAIN jira[a[1]]
    /\ \A p \in Projects : \A k \in DOMAIN jira[p] : jira[p][k] <= issue
    /\ \A n \in misread : n <= issue
    /\ pc = "attach" => res_issue_num > 0
    /\ pc = "attach" => \/ issue \in misread /\ res_issue_num = 3
                        \/ /\ res_issue_num \in DOMAIN jira[Project]
                           /\ jira[Project][res_issue_num] = issue

(* What is accounted for already, at each place of create_new_issue. *)
SilenceInv ==
    /\ \A n \in accepted : n <= issue
    /\ pc = "row" => created_card_id = issue \/ <<issue, "card">> \in reported
    /\ pc \in {"pictures", "tell"}
            => kinds[issue] = "TEKLA" \/ RowAccounted(issue)
    /\ pc = "clear"
            => \/ issue \in misread
               \/ <<issue, "jira">> \in reported
               \/ JiraHas(issue)

IssueInv == /\ TypeOK /\ TaskInv /\ JiraInv /\ SilenceInv
            /\ RowNamesItsCard
            /\ PicturesStayWithTheirIssue
            /\ NothingFailsInSilence

-----------------------------------------------------------------------------
(* A new issue in Jira gets the next number and leaves the others theirs. *)
LEMMA JiraGrows ==
    ASSUME TypeOK, issue \in Numbers
    PROVE  /\ WithNewIssue \in [Projects -> Seq(0 .. MaxIssues)]
           /\ \A p \in Projects : \A k \in DOMAIN jira[p] :
                 /\ k \in DOMAIN WithNewIssue[p]
                 /\ WithNewIssue[p][k] = jira[p][k]
           /\ Len(jira[Project]) + 1 \in DOMAIN WithNewIssue[Project]
           /\ WithNewIssue[Project][Len(jira[Project]) + 1] = issue
           /\ \A p \in Projects : \A k \in DOMAIN WithNewIssue[p] :
                 WithNewIssue[p][k] = issue \/ k \in DOMAIN jira[p]
<1> Project \in Projects
  BY DEF Project, Projects
<1> jira \in [Projects -> Seq(0 .. MaxIssues)] /\ issue \in 0 .. MaxIssues
  BY DEF TypeOK
<1>1. WithNewIssue[Project] = Append(jira[Project], issue)
  BY DEF WithNewIssue
<1>2. \A p \in Projects : p # Project => WithNewIssue[p] = jira[p]
  BY DEF WithNewIssue
<1>3. jira[Project] \in Seq(0 .. MaxIssues)
  OBVIOUS
<1>4. Append(jira[Project], issue) \in Seq(0 .. MaxIssues)
  BY <1>3
<1>5. WithNewIssue \in [Projects -> Seq(0 .. MaxIssues)]
  BY <1>4 DEF WithNewIssue
<1>6. \A k \in DOMAIN jira[Project] :
         /\ k \in DOMAIN Append(jira[Project], issue)
         /\ Append(jira[Project], issue)[k] = jira[Project][k]
  BY <1>3
<1>7. /\ Len(jira[Project]) + 1 \in DOMAIN Append(jira[Project], issue)
      /\ Append(jira[Project], issue)[Len(jira[Project]) + 1] = issue
  BY <1>3
<1>8. \A k \in DOMAIN Append(jira[Project], issue) :
         Append(jira[Project], issue)[k] = issue \/ k \in DOMAIN jira[Project]
  BY <1>3
<1> QED  BY <1>1, <1>2, <1>5, <1>6, <1>7, <1>8

(* The task of a dialogue has its type and its pictures, and a Tekla       *)
(* dialogue those that were there.                                         *)
LEMMA TaskBegins ==
    ASSUME TypeOK, TaskInv, pc = "idle", NEW type \in Types,
           NEW photos \in SUBSET Pictures
    PROVE  /\ TaskAtEnd(type, photos) \in
                 [type: Types, id_card: 0 .. MaxIssues,
                  v_local_file_paths: SUBSET Pictures]
           /\ TaskAtEnd(type, photos).type = type
           /\ TaskAtEnd(type, photos).v_local_file_paths =
                 photos \cup (IF type = "TEKLA"
                              THEN jira_task.v_local_file_paths ELSE {})
<1> DEFINE Tasks == [type: Types, id_card: 0 .. MaxIssues,
                     v_local_file_paths: SUBSET Pictures]
           begun == IF type = "TEKLA" THEN jira_task ELSE EmptyTask
<1>1. EmptyTask \in Tasks /\ EmptyTask.v_local_file_paths = {}
  BY IssueCreationAssumption DEF EmptyTask, Types, NoCard
<1>2. /\ begun \in Tasks
      /\ begun.v_local_file_paths =
            IF type = "TEKLA" THEN jira_task.v_local_file_paths ELSE {}
  BY <1>1 DEF TypeOK
<1>3. TaskAtEnd(type, photos) =
        [begun EXCEPT !.type = type, !.v_local_file_paths = @ \cup photos]
  BY DEF TaskAtEnd
<1> HIDE DEF begun
<1> QED  BY <1>2, <1>3

(* Every step keeps the types. *)
LEMMA TypePreserved == TypeOK /\ TaskInv /\ [Next]_vars => TypeOK'
<1> SUFFICES ASSUME TypeOK, TaskInv, [Next]_vars PROVE TypeOK'
  OBVIOUS
<1> USE IssueCreationAssumption DEF TypeOK, TaskInv, vars, session, local,
    outside, history, NoCard, Types, Numbers
<1>1. CASE UNCHANGED vars
  BY <1>1
<1>2. ASSUME NEW type \in Types, NEW n \in 0 .. MaxPhotos,
             CreateNewIssue(type, n)
      PROVE  TypeOK'
  <2>1. {issue + 1} \X (1 .. n) \in SUBSET Pictures
    BY <1>2 DEF CreateNewIssue, Pictures
  <2>2. TaskAtEnd(type, {issue + 1} \X (1 .. n)) \in
            [type: Types, id_card: 0 .. MaxIssues,
             v_local_file_paths: SUBSET Pictures]
    BY <1>2, <2>1, TaskBegins DEF CreateNewIssue
  <2>3. /\ created_card_id' \in 0 .. MaxIssues
        /\ issue' \in 0 .. MaxIssues
        /\ pc' \in {"tell", "card"}
        /\ kinds' \in [Numbers -> Types]
    BY <1>2 DEF CreateNewIssue
  <2> QED  BY <1>2, <2>2, <2>3 DEF CreateNewIssue
<1>3. CASE CardCreated
  <2>1. issue \in 0 .. MaxIssues
    OBVIOUS
  <2>2. jira_task' \in [type: Types, id_card: 0 .. MaxIssues,
                       v_local_file_paths: SUBSET Pictures]
    BY <1>3, <2>1 DEF CardCreated
  <2> QED  BY <1>3, <2>2 DEF CardCreated
<1>4. CASE CardFailed
  <2>1. issue \in Numbers /\ created_card_id \in 0 .. MaxIssues
    BY <1>4 DEF CardFailed
  <2>2. jira_task' \in [type: Types, id_card: 0 .. MaxIssues,
                       v_local_file_paths: SUBSET Pictures]
    BY <1>4, <2>1 DEF CardFailed
  <2>3. reported' \subseteq Numbers \X {"card", "row", "jira"}
    BY <1>4, <2>1 DEF CardFailed, Report
  <2> QED  BY <1>4, <2>2, <2>3 DEF CardFailed
<1>5. CASE RowWritten
  BY <1>5 DEF RowWritten, RowDone
<1>6. CASE RowFailed
  BY <1>6 DEF RowFailed, RowDone, Report
<1>7. CASE AddImgToCard
  BY <1>7 DEF AddImgToCard
<1>8. CASE NotifyStaff
  BY <1>8 DEF NotifyStaff
<1>9. CASE TellUser
  BY <1>9 DEF TellUser
<1>10. CASE JiraCreated \/ JiraFailed \/ JiraAnswerUnreadable
  <2>1. PICK res \in Nat : TakeResult(res)
    <3>1. Len(jira[Project]) + 1 \in Nat
      BY DEF Project, Projects
    <3> QED  BY <1>10, <3>1 DEF JiraCreated, JiraFailed, JiraAnswerUnreadable
  <2>2. /\ jira' \in [Projects -> Seq(0 .. MaxIssues)]
        /\ misread' \subseteq Numbers
    BY <1>10, JiraGrows DEF JiraCreated, JiraFailed, JiraAnswerUnreadable
  <2>3. issue \in Numbers
    BY <1>10 DEF JiraCreated, JiraFailed, JiraAnswerUnreadable
  <2> QED  BY <2>1, <2>2, <2>3 DEF TakeResult, Report
<1>11. CASE AddAttach
  <2>1. Project \in Projects
    BY DEF Project, Projects
  <2> QED  BY <1>11, <2>1 DEF AddAttach
<1>12. CASE JiraDone
  BY <1>12 DEF JiraDone, Report
<1>13. CASE Clear
  BY <1>13 DEF Clear, EmptyTask
<1>14. CASE ProcessEnds
  BY <1>14 DEF ProcessEnds, EmptyTask
<1>15. ASSUME NEW type \in Types, NEW n \in 0 .. MaxPhotos,
              LeaveDialogue(type, n)
       PROVE  TypeOK'
  <2>1. {issue + 1} \X (1 .. n) \in SUBSET Pictures
    BY <1>15 DEF LeaveDialogue, Pictures
  <2>2. TaskAtEnd(type, {issue + 1} \X (1 .. n)) \in
            [type: Types, id_card: 0 .. MaxIssues,
             v_local_file_paths: SUBSET Pictures]
    BY <1>15, <2>1, TaskBegins DEF LeaveDialogue
  <2>3. issue' \in 0 .. MaxIssues /\ abandoned' \subseteq Numbers
    BY <1>15 DEF LeaveDialogue
  <2> QED  BY <1>15, <2>2, <2>3 DEF LeaveDialogue
<1>16. CASE StartOver
  BY <1>16 DEF StartOver, EmptyTask
<1> QED
  BY <1>1, <1>2, <1>3, <1>4, <1>5, <1>6, <1>7, <1>8, <1>9, <1>10, <1>11,
     <1>12, <1>13, <1>14, <1>15, <1>16 DEF Next, TrelloPart, JiraPart

(* The task in hand stays the issue's own: the card's id is cleared when   *)
(* an issue begins, the task when it ends.                                 *)
LEMMA TaskPreserved == TypeOK /\ TaskInv /\ [Next]_vars => TaskInv'
<1> SUFFICES ASSUME TypeOK, TaskInv, [Next]_vars PROVE TaskInv'
  OBVIOUS
<1> USE IssueCreationAssumption DEF TypeOK, TaskInv, vars, session, local,
    outside, history, NoCard, Types, Numbers, MayCarry
<1>1. CASE UNCHANGED vars
  BY <1>1
<1>2. ASSUME NEW type \in Types, NEW n \in 0 .. MaxPhotos,
             CreateNewIssue(type, n)
      PROVE  TaskInv'
  <2> DEFINE photos == {issue + 1} \X (1 .. n)
  <2>1. photos \in SUBSET Pictures /\ \A p \in photos : p[1] = issue + 1
    BY <1>2 DEF CreateNewIssue, Pictures
  <2>2. /\ jira_task'.type = type
        /\ jira_task'.v_local_file_paths =
              photos \cup (IF type = "TEKLA"
                           THEN jira_task.v_local_file_paths ELSE {})
    <3>1. /\ TaskAtEnd(type, photos).type = type
          /\ TaskAtEnd(type, photos).v_local_file_paths =
                photos \cup (IF type = "TEKLA"
                             THEN jira_task.v_local_file_paths ELSE {})
      <4> HIDE DEF TypeOK, TaskInv, photos
      <4> QED  BY <1>2, <2>1, TaskBegins DEF CreateNewIssue
    <3>2. jira_task' = TaskAtEnd(type, photos)
      BY <1>2 DEF CreateNewIssue
    <3> HIDE DEF photos, TypeOK, TaskInv
    <3> QED  BY <3>1, <3>2
  <2>3. kinds'[issue + 1] = type
    BY <1>2 DEF CreateNewIssue
  <2> HIDE DEF photos
  <2>4. issue' = issue + 1 /\ issue + 1 \in Numbers
    BY <1>2 DEF CreateNewIssue
  <2>5. /\ pc' = (IF type = "TEKLA" THEN "tell" ELSE "card")
        /\ left = {} /\ left' = left
        /\ created_card_id' = NoCard
        /\ abandoned' = abandoned
    BY <1>2 DEF CreateNewIssue
  <2>6. \A p \in jira_task'.v_local_file_paths : MayCarry(issue, p[1])'
    <3> SUFFICES ASSUME NEW p \in jira_task'.v_local_file_paths
                 PROVE  MayCarry(issue, p[1])'
      OBVIOUS
    <3>1. CASE p \in photos
      BY <2>1, <2>4, <3>1
    <3>2. CASE type = "TEKLA" /\ p \in jira_task.v_local_file_paths
      <4>1. p[1] <= issue /\ p[1] .. issue \subseteq abandoned
        BY <1>2, <3>2 DEF CreateNewIssue
      <4>2. p[1] \in Nat /\ issue \in Nat
        BY <3>2 DEF Pictures
      <4>3. (issue + 1) - 1 = issue
        BY <4>2
      <4> QED  BY <2>3, <2>4, <2>5, <3>2, <4>1, <4>2, <4>3
    <3> QED  BY <2>2, <3>1, <3>2
  <2> QED  BY <2>1, <2>2, <2>3, <2>4, <2>5, <2>6
<1>3. CASE CardCreated
  BY <1>3 DEF CardCreated
<1>4. CASE CardFailed
  BY <1>4 DEF CardFailed, Report
<1>5. CASE RowWritten
  BY <1>5 DEF RowWritten, RowDone
<1>6. CASE RowFailed
  BY <1>6 DEF RowFailed, RowDone, Report
<1>7. CASE AddImgToCard
  BY <1>7 DEF AddImgToCard
<1>8. CASE NotifyStaff
  BY <1>8 DEF NotifyStaff
<1>9. CASE TellUser
  BY <1>9 DEF TellUser
<1>10. CASE JiraCreated \/ JiraFailed \/ JiraAnswerUnreadable
  <2>1. pc = "jira" /\ \E res : TakeResult(res)
    BY <1>10 DEF JiraCreated, JiraFailed, JiraAnswerUnreadable
  <2> QED  BY <2>1 DEF TakeResult, Report
<1>11. CASE AddAttach
  BY <1>11 DEF AddAttach
<1>12. CASE JiraDone
  BY <1>12 DEF JiraDone, Report
<1>13. CASE Clear
  BY <1>13 DEF Clear, EmptyTask
<1>14. CASE ProcessEnds
  BY <1>14 DEF ProcessEnds, EmptyTask
<1>15. ASSUME NEW type \in Types, NEW n \in 0 .. MaxPhotos,
              LeaveDialogue(type, n)
       PROVE  TaskInv'
  <2> DEFINE photos == {issue + 1} \X (1 .. n)
  <2>1. photos \in SUBSET Pictures /\ \A p \in photos : p[1] = issue + 1
    BY <1>15 DEF LeaveDialogue, Pictures
  <2>2. jira_task'.v_local_file_paths =
              photos \cup (IF type = "TEKLA"
                           THEN jira_task.v_local_file_paths ELSE {})
    <3>1. TaskAtEnd(type, photos).v_local_file_paths =
                photos \cup (IF type = "TEKLA"
                             THEN jira_task.v_local_file_paths ELSE {})
      <4> HIDE DEF TypeOK, TaskInv, photos
      <4> QED  BY <1>15, <2>1, TaskBegins DEF LeaveDialogue
    <3>2. jira_task' = TaskAtEnd(type, photos)
      BY <1>15 DEF LeaveDialogue
    <3> HIDE DEF photos, TypeOK, TaskInv
    <3> QED  BY <3>1, <3>2
  <2> HIDE DEF photos
  <2>3. /\ pc = "idle" /\ pc' = pc /\ left = {} /\ left' = left
        /\ issue' = issue + 1 /\ issue \in Nat
        /\ abandoned' = abandoned \cup {issue + 1}
    BY <1>15 DEF LeaveDialogue
  <2>4. ASSUME NEW p \in jira_task'.v_local_file_paths
        PROVE  p[1] <= issue' /\ p[1] .. issue' \subseteq abandoned'
    <3>1. CASE p \in photos
      BY <2>1, <2>3, <3>1
    <3>2. CASE p \in jira_task.v_local_file_paths
      <4>1. p[1] <= issue /\ p[1] .. issue \subseteq abandoned
        BY <2>3, <3>2
      <4>2. p[1] \in Nat
        BY <3>2 DEF Pictures
      <4>3. p[1] .. (issue + 1) \subseteq (p[1] .. issue) \cup {issue + 1}
        BY <2>3, <4>2
      <4> QED  BY <2>3, <4>1, <4>2, <4>3
    <3> QED  BY <2>2, <3>1, <3>2
  <2> QED  BY <2>3, <2>4
<1>16. CASE StartOver
  BY <1>16 DEF StartOver, EmptyTask
<1> QED
  BY <1>1, <1>2, <1>3, <1>4, <1>5, <1>6, <1>7, <1>8, <1>9, <1>10, <1>11,
     <1>12, <1>13, <1>14, <1>15, <1>16 DEF Next, TrelloPart, JiraPart

(* The first state satisfies the invariant. *)
LEMMA InitInv == Init => IssueInv
<1> SUFFICES ASSUME Init PROVE IssueInv
  OBVIOUS
<1> USE IssueCreationAssumption DEF Init, NoCard, Numbers
<1>1. jira \in [Projects -> Seq(0 .. MaxIssues)]
  <2>1. PICK k \in JiraStart : jira = [p \in Projects |-> [i \in 1 .. k |-> 0]]
    OBVIOUS
  <2>2. k \in Nat /\ [i \in 1 .. k |-> 0] \in Seq(0 .. MaxIssues)
    OBVIOUS
  <2> QED  BY <2>1, <2>2
<1>2. TypeOK
  BY <1>1 DEF TypeOK, EmptyTask, Types
<1>3. TaskInv /\ SilenceInv
  BY DEF TaskInv, SilenceInv, EmptyTask
<1>5. JiraInv
  <2>1. PICK k \in JiraStart : jira = [p \in Projects |-> [i \in 1 .. k |-> 0]]
    OBVIOUS
  <2>2. \A p \in Projects : \A i \in DOMAIN jira[p] : jira[p][i] <= issue
    BY <2>1
  <2> QED  BY <2>2 DEF JiraInv
<1>4. RowNamesItsCard /\ PicturesStayWithTheirIssue /\ NothingFailsInSilence
  BY DEF RowNamesItsCard, PicturesStayWithTheirIssue, NothingFailsInSilence
<1> QED  BY <1>2, <1>3, <1>4, <1>5 DEF IssueInv

(* Rows are written from the task, whose card is the issue's own. *)
LEMMA RowPreserved ==
    TypeOK /\ TaskInv /\ RowNamesItsCard /\ [Next]_vars => RowNamesItsCard'
<1> SUFFICES ASSUME TypeOK, TaskInv, RowNamesItsCard, [Next]_vars
             PROVE  RowNamesItsCard'
  OBVIOUS
<1>1. CASE rows' = rows
  BY <1>1 DEF RowNamesItsCard
<1>2. CASE RowWritten \/ RowFailed
  BY <1>2 DEF RowWritten, RowFailed, RowDone, TaskInv, RowNamesItsCard
<1> QED
  BY <1>1, <1>2 DEF Next, TrelloPart, JiraPart, vars, outside, CreateNewIssue,
     CardCreated, CardFailed, AddImgToCard, NotifyStaff, TellUser, JiraCreated,
     JiraFailed, JiraAnswerUnreadable, TakeResult, AddAttach, JiraDone, Clear,
     ProcessEnds, LeaveDialogue, StartOver

(* What create_task may do to Jira, and what is read from its answer. *)
LEMMA JiraAnswers ==
    ASSUME TypeOK, TaskInv, JiraCreated \/ JiraFailed \/ JiraAnswerUnreadable
    PROVE  /\ issue \in Numbers
           /\ \A p \in Projects : \A k \in DOMAIN jira[p] :
                 k \in DOMAIN jira'[p] /\ jira'[p][k] = jira[p][k]
           /\ \A p \in Projects : \A k \in DOMAIN jira'[p] :
                 jira'[p][k] = issue \/ k \in DOMAIN jira[p]
           /\ misread \subseteq misread'
           /\ misread' \subseteq misread \cup {issue}
           /\ pc' \in {"attach", "clear"}
           /\ pc' = "clear" => <<issue, "jira">> \in reported'
           /\ pc' = "attach" => res_issue_num' > 0
           /\ pc' = "attach" =>
                 \/ issue \in misread' /\ res_issue_num' = 3
                 \/ /\ res_issue_num' \in DOMAIN jira'[Project]
                    /\ jira'[Project][res_issue_num'] = issue
<1>1. issue \in Numbers
  BY DEF TaskInv, JiraCreated, JiraFailed, JiraAnswerUnreadable
<1>2. \A p \in Projects : \A k \in DOMAIN jira[p] :
         k \in DOMAIN jira'[p] /\ jira'[p][k] = jira[p][k]
  BY <1>1, JiraGrows DEF JiraCreated, JiraFailed, JiraAnswerUnreadable
<1>6. \A p \in Projects : \A k \in DOMAIN jira'[p] :
         jira'[p][k] = issue \/ k \in DOMAIN jira[p]
  <2>1. jira' \in {jira, WithNewIssue}
    BY DEF JiraCreated, JiraFailed, JiraAnswerUnreadable
  <2> QED  BY <1>1, <2>1, JiraGrows
<1>3. CASE JiraCreated
  <2>1. Len(jira[Project]) + 1 > 0
    BY DEF TypeOK, Project, Projects
  <2> QED
    BY <1>1, <1>2, <1>3, <1>6, <2>1, JiraGrows
    DEF JiraCreated, TakeResult, Report
<1>4. CASE JiraFailed
  BY <1>1, <1>2, <1>4, <1>6 DEF JiraFailed, TakeResult, Report, IsError
<1>5. CASE JiraAnswerUnreadable
  BY <1>1, <1>2, <1>5, <1>6
  DEF JiraAnswerUnreadable, TakeResult, Report, IsError
<1> QED  BY <1>3, <1>4, <1>5

(* An issue that may carry the pictures of a dialogue may ever after: its  *)
(* kind does not change, and no dialogue is taken up again.                *)
LEMMA MayCarryStays ==
    ASSUME TypeOK, [Next]_vars
    PROVE  /\ issue <= issue'
           /\ \A n \in Numbers : n <= issue
                 => \A d : MayCarry(n, d) => MayCarry(n, d)'
<1> USE IssueCreationAssumption DEF TypeOK, Numbers
<1>1. /\ issue <= issue' /\ abandoned \subseteq abandoned'
      /\ \A n \in Numbers : n <= issue => kinds'[n] = kinds[n]
  <2>1. ASSUME NEW type \in Types, NEW n \in 0 .. MaxPhotos,
               CreateNewIssue(type, n) \/ LeaveDialogue(type, n)
        PROVE  /\ issue <= issue' /\ abandoned \subseteq abandoned'
               /\ \A m \in Numbers : m <= issue => kinds'[m] = kinds[m]
    BY <2>1 DEF CreateNewIssue, LeaveDialogue
  <2>2. CASE UNCHANGED <<issue, kinds, abandoned>>
    BY <2>2
  <2> QED
    BY <2>1, <2>2 DEF Next, vars, history, TrelloPart, JiraPart, StartOver,
       CardCreated, CardFailed, RowWritten, RowFailed, AddImgToCard,
       NotifyStaff, TellUser, JiraCreated, JiraFailed, JiraAnswerUnreadable,
       TakeResult, AddAttach, JiraDone, Clear, ProcessEnds
<1> QED  BY <1>1 DEF MayCarry

(* Pictures hang where the number points to, and the number is the new     *)
(* issue's unless Jira's answer could not be read.                         *)
LEMMA PicturesPreserved ==
    /\ TypeOK /\ TaskInv /\ JiraInv /\ PicturesStayWithTheirIssue
    /\ [Next]_vars
    => JiraInv' /\ PicturesStayWithTheirIssue'
<1> SUFFICES ASSUME TypeOK, TaskInv, JiraInv, PicturesStayWithTheirIssue,
                    [Next]_vars
             PROVE  JiraInv' /\ PicturesStayWithTheirIssue'
  OBVIOUS
<1> Project \in Projects
  BY DEF Project, Projects
<1>t. /\ issue \in Nat /\ issue' \in Nat /\ issue <= issue'
      /\ \A n \in Numbers : n \in Nat
      /\ misread \subseteq Numbers
      /\ \A a \in inJira : a[1] \in Projects /\ a[2] \in Nat
      /\ \A p \in Projects : \A k \in DOMAIN jira[p] : jira[p][k] \in Nat
  <2>1. issue' \in 0 .. MaxIssues
    BY TypePreserved DEF TypeOK
  <2>2. \A p \in Projects : jira[p] \in Seq(0 .. MaxIssues)
    BY DEF TypeOK
  <2>3. \A p \in Projects : \A k \in DOMAIN jira[p] : jira[p][k] \in Nat
    BY <2>2, IssueCreationAssumption
  <2> QED
    BY <2>1, <2>3, MayCarryStays, IssueCreationAssumption DEF TypeOK, Numbers
<1>l. \A p \in Projects : \A k \in DOMAIN jira[p] : jira[p][k] <= issue'
  BY <1>t DEF JiraInv
<1>m. \A n \in Numbers : n <= issue
         => \A d : MayCarry(n, d) => MayCarry(n, d)'
  BY MayCarryStays
<1>j. ASSUME \A p \in Projects : \A k \in DOMAIN jira[p] :
                k \in DOMAIN jira'[p] /\ jira'[p][k] = jira[p][k],
             misread \subseteq misread',
             NEW a \in inJira
      PROVE  /\ a[2] \in DOMAIN jira'[a[1]]
             /\ \/ /\ jira'[a[1]][a[2]] \in Numbers
                   /\ MayCarry(jira[a[1]][a[2]], a[3][1])'
                \/ \E n \in misread' : a[2] = 3 /\ MayCarry(n, a[3][1])'
  <2>1. a[2] \in DOMAIN jira[a[1]] /\ a[1] \in Projects
    BY <1>t DEF JiraInv
  <2>2. CASE /\ jira[a[1]][a[2]] \in Numbers
             /\ MayCarry(jira[a[1]][a[2]], a[3][1])
    BY <1>j, <1>l, <1>m, <2>1, <2>2 DEF JiraInv, MayCarry
  <2>3. ASSUME NEW n \in misread, a[2] = 3, MayCarry(n, a[3][1])
        PROVE  n \in misread' /\ a[2] = 3 /\ MayCarry(n, a[3][1])'
    BY <1>j, <1>m, <1>t, <2>3 DEF JiraInv
  <2> QED
    BY <1>j, <2>1, <2>2, <2>3 DEF PicturesStayWithTheirIssue
<1>1. CASE jira' = jira /\ onCards' = onCards /\ inJira' = inJira
           /\ misread' = misread /\ pc' # "attach"
  <2>1. PicturesStayWithTheirIssue'
    BY <1>1, <1>j DEF PicturesStayWithTheirIssue, MayCarry
  <2>2. \A n \in misread' : n <= issue'
    BY <1>1, <1>t DEF JiraInv
  <2> QED  BY <1>1, <1>l, <2>1, <2>2 DEF JiraInv
<1>2. CASE AddImgToCard
  <2>1. /\ UNCHANGED <<pc, issue, jira_task, res_issue_num, jira, inJira,
                       misread, kinds, abandoned>>
        /\ pc = "pictures"
    BY <1>2 DEF AddImgToCard, session, history
  <2>2. PICK p \in left :
           onCards' \subseteq onCards \cup {<<created_card_id, p>>}
    BY <1>2 DEF AddImgToCard
  <2>3. p[1] = issue /\ created_card_id = issue
    BY <2>1 DEF TaskInv, MayCarry
  <2>4. PicturesStayWithTheirIssue'
    BY <2>1, <2>2, <2>3 DEF PicturesStayWithTheirIssue, MayCarry
  <2>5. JiraInv'
    BY <2>1 DEF JiraInv
  <2> QED  BY <2>4, <2>5
<1>3. CASE JiraCreated \/ JiraFailed \/ JiraAnswerUnreadable
  <2>1. UNCHANGED <<issue, jira_task, onCards, inJira, kinds, abandoned>>
    BY <1>3 DEF JiraCreated, JiraFailed, JiraAnswerUnreadable, TakeResult,
       session
  <2>2. Project' = Project
    BY <2>1 DEF Project
  <2>3. /\ \A p \in Projects : \A k \in DOMAIN jira[p] :
              k \in DOMAIN jira'[p] /\ jira'[p][k] = jira[p][k]
        /\ misread \subseteq misread'
    BY <1>3, JiraAnswers
  <2>4. PicturesStayWithTheirIssue'
    <3>1. \A a \in inJira : jira'[a[1]][a[2]] = jira[a[1]][a[2]]
      BY <1>t, <2>3 DEF JiraInv
    <3> QED
      BY <1>j, <2>1, <2>3, <3>1 DEF PicturesStayWithTheirIssue, MayCarry
  <2>5. \A p \in Projects : \A k \in DOMAIN jira'[p] : jira'[p][k] <= issue
    <3> SUFFICES ASSUME NEW p \in Projects, NEW k \in DOMAIN jira'[p]
                 PROVE  jira'[p][k] <= issue
      OBVIOUS
    <3>1. jira'[p][k] = issue \/ k \in DOMAIN jira[p]
      BY <1>3, JiraAnswers
    <3>2. issue <= issue
      BY <1>t
    <3> QED  BY <2>3, <3>1, <3>2 DEF JiraInv
  <2>6. \A n \in misread' : n <= issue
    <3>1. misread' \subseteq misread \cup {issue}
      BY <1>3, JiraAnswers
    <3>2. issue <= issue
      BY <1>t
    <3> QED  BY <3>1, <3>2 DEF JiraInv
  <2>7. \A a \in inJira : a[2] \in DOMAIN jira'[a[1]]
    BY <1>t, <2>3 DEF JiraInv
  <2>8. JiraInv'
    BY <1>3, <2>1, <2>2, <2>5, <2>6, <2>7, JiraAnswers DEF JiraInv
  <2> QED  BY <2>4, <2>8
<1>4. CASE AddAttach
  <2>1. /\ UNCHANGED <<pc, issue, jira_task, res_issue_num, jira, onCards,
                       misread, kinds, abandoned>>
        /\ pc = "attach" /\ issue \in Numbers
    BY <1>4 DEF AddAttach, session, history, TaskInv
  <2>2. PICK p \in left : inJira' \subseteq inJira \cup
              {b \in {<<Project, res_issue_num, p>>} :
                   res_issue_num <= Len(jira[Project])}
    BY <1>4 DEF AddAttach
  <2>3. MayCarry(issue, p[1])
    BY DEF TaskInv
  <2>4. PicturesStayWithTheirIssue'
    BY <2>1, <2>2, <2>3 DEF PicturesStayWithTheirIssue, JiraInv, MayCarry
  <2>5. res_issue_num <= Len(jira[Project])
            => res_issue_num \in DOMAIN jira[Project]
    BY <2>1 DEF TypeOK, JiraInv
  <2>6. Project' = Project
    BY <2>1 DEF Project
  <2>7. JiraInv'
    BY <2>1, <2>2, <2>5, <2>6 DEF JiraInv
  <2> QED  BY <2>4, <2>7
<1>5. CASE UNCHANGED vars
  BY <1>5 DEF vars, session, local, outside, history, JiraInv,
     PicturesStayWithTheirIssue, Project, MayCarry
<1> QED
  BY <1>1, <1>2, <1>3, <1>4, <1>5 DEF Next, TrelloPart, JiraPart, session,
     local, outside, history, CreateNewIssue, CardCreated, CardFailed,
     RowWritten, RowFailed, RowDone, NotifyStaff, TellUser, JiraDone, Clear,
     ProcessEnds, LeaveDialogue, StartOver

(* Support is told before the step that would leave a failure behind, and  *)
(* what is there stays.                                                    *)
LEMMA SilencePreserved ==
    /\ TypeOK /\ TaskInv /\ JiraInv /\ SilenceInv /\ NothingFailsInSilence
    /\ [Next]_vars
    => SilenceInv' /\ NothingFailsInSilence'
<1> SUFFICES ASSUME TypeOK, TaskInv, JiraInv, SilenceInv,
                    NothingFailsInSilence, [Next]_vars
             PROVE  SilenceInv' /\ NothingFailsInSilence'
  OBVIOUS
<1> Project \in Projects
  BY DEF Project, Projects
<1> USE DEF SilenceInv, NothingFailsInSilence
<1>1. CASE UNCHANGED vars
  BY <1>1 DEF vars, session, local, outside, history, RowAccounted, JiraHas
<1>2. ASSUME NEW type \in Types, NEW n \in 0 .. MaxPhotos,
             CreateNewIssue(type, n)
      PROVE  SilenceInv' /\ NothingFailsInSilence'
  <2>1. /\ UNCHANGED <<rows, jira, reported, misread, accepted, finished>>
        /\ issue' = issue + 1 /\ pc' \in {"card", "tell"}
        /\ kinds' = [kinds EXCEPT ![issue + 1] = type]
        /\ pc' = "tell" => type = "TEKLA"
    BY <1>2 DEF CreateNewIssue, outside
  <2>2. issue \in Nat /\ issue + 1 \in Numbers
    BY <1>2, IssueCreationAssumption DEF CreateNewIssue, TypeOK, Numbers
  <2>3. \A m \in accepted : m \in Nat /\ m <= issue /\ m # issue + 1
    <3>1. \A m \in accepted : m <= issue
      OBVIOUS
    <3> HIDE DEF SilenceInv, NothingFailsInSilence
    <3>2. accepted \subseteq Numbers
      BY DEF TypeOK
    <3>3. \A m \in Numbers : m \in Nat
      BY IssueCreationAssumption DEF Numbers
    <3> QED  BY <2>2, <3>1, <3>2, <3>3
  <2>4. kinds'[issue + 1] = type /\ \A m \in accepted : kinds'[m] = kinds[m]
    BY <2>1, <2>2, <2>3 DEF TypeOK
  <2>5. \A m : RowAccounted(m)' <=> RowAccounted(m)
    BY <2>1 DEF RowAccounted
  <2>6. \A m : JiraHas(m)' <=> JiraHas(m)
    BY <2>1 DEF JiraHas
  <2>7. NothingFailsInSilence'
    BY <2>1, <2>4, <2>5, <2>6
  <2> QED  BY <2>1, <2>2, <2>3, <2>4, <2>7
<1>3. CASE CardCreated
  BY <1>3 DEF CardCreated, local, outside, history, RowAccounted, JiraHas
<1>4. CASE CardFailed
  BY <1>4 DEF CardFailed, Report, local, outside, RowAccounted, JiraHas
<1>5. CASE RowWritten \/ RowFailed
  <2>1. /\ UNCHANGED <<issue, kinds, jira, misread, accepted, finished>>
        /\ reported \subseteq reported' /\ rows \subseteq rows'
        /\ pc = "row" /\ pc' = "pictures"
    BY <1>5 DEF RowWritten, RowFailed, RowDone, Report, history
  <2>2. RowAccounted(issue)'
    <3>1. CASE RowFailed
      BY <3>1 DEF RowFailed, RowDone, Report, RowAccounted
    <3>2. CASE RowWritten
      BY <3>2, <2>1 DEF RowWritten, RowDone, RowAccounted, TaskInv
    <3> QED  BY <1>5, <3>1, <3>2
  <2>3. \A m : RowAccounted(m) => RowAccounted(m)'
    BY <2>1 DEF RowAccounted
  <2>4. \A m : JiraHas(m)' <=> JiraHas(m)
    BY <2>1 DEF JiraHas
  <2> QED  BY <2>1, <2>2, <2>3, <2>4
<1>6. CASE AddImgToCard \/ NotifyStaff
  <2>1. /\ UNCHANGED <<issue, rows, jira, kinds, reported, misread, accepted,
                       finished>>
        /\ pc = "pictures" /\ pc' \in {"pictures", "tell"}
    BY <1>6 DEF AddImgToCard, NotifyStaff, outside, history
  <2> QED  BY <2>1 DEF RowAccounted, JiraHas
<1>7. CASE TellUser
  <2>1. /\ UNCHANGED <<issue, rows, jira, kinds, reported, misread, finished>>
        /\ accepted' = accepted \cup {issue}
        /\ pc = "tell" /\ pc' = "jira"
    BY <1>7 DEF TellUser, outside
  <2>2. issue <= issue
    BY DEF TypeOK
  <2> QED  BY <2>1, <2>2 DEF RowAccounted, JiraHas
<1>8. CASE JiraCreated \/ JiraFailed \/ JiraAnswerUnreadable
  <2>1. /\ UNCHANGED <<issue, rows, kinds, accepted, finished>>
        /\ reported \subseteq reported'
    BY <1>8 DEF JiraCreated, JiraFailed, JiraAnswerUnreadable, TakeResult,
       Report
  <2>2. \A m : RowAccounted(m) => RowAccounted(m)'
    BY <2>1 DEF RowAccounted
  <2>3. \A m : JiraHas(m) => JiraHas(m)'
    BY <1>8, JiraAnswers DEF JiraHas
  <2> QED  BY <1>8, <2>1, <2>2, <2>3, JiraAnswers
<1>9. CASE AddAttach
  <2>1. /\ UNCHANGED <<pc, issue, rows, jira, kinds, reported, misread,
                       accepted, finished>>
        /\ pc = "attach"
    BY <1>9 DEF AddAttach, history
  <2> QED  BY <2>1 DEF RowAccounted, JiraHas
<1>10. CASE JiraDone
  <2>1. /\ UNCHANGED <<issue, rows, jira, kinds, misread, accepted, finished>>
        /\ reported \subseteq reported'
        /\ pc = "attach" /\ pc' = "clear"
    BY <1>10 DEF JiraDone, Report, outside
  <2>2. \A m : RowAccounted(m) => RowAccounted(m)'
    BY <2>1 DEF RowAccounted
  <2>3. \A m : JiraHas(m)' <=> JiraHas(m)
    BY <2>1 DEF JiraHas
  <2>4. issue \in misread \/ JiraHas(issue)
    BY <2>1 DEF JiraInv, JiraHas
  <2> QED  BY <2>1, <2>2, <2>3, <2>4
<1>11. CASE Clear
  <2>1. /\ UNCHANGED <<issue, rows, jira, kinds, reported, misread, accepted>>
        /\ finished' = finished \cup {issue}
        /\ pc = "clear" /\ pc' = "idle"
    BY <1>11 DEF Clear, outside
  <2> QED  BY <2>1 DEF RowAccounted, JiraHas
<1>12. CASE ProcessEnds \/ StartOver
  BY <1>12
  DEF ProcessEnds, StartOver, local, outside, history, RowAccounted, JiraHas
<1>13. ASSUME NEW type \in Types, NEW n \in 0 .. MaxPhotos,
              LeaveDialogue(type, n)
       PROVE  SilenceInv' /\ NothingFailsInSilence'
  <2>1. /\ UNCHANGED <<pc, rows, jira, kinds, reported, misread, accepted,
                       finished>>
        /\ issue' = issue + 1 /\ pc = "idle" /\ issue \in Nat
    BY <1>13 DEF LeaveDialogue, outside, TypeOK
  <2>2. \A m \in accepted : m \in Nat
    BY IssueCreationAssumption DEF TypeOK, Numbers
  <2>3. \A m \in accepted : m <= issue'
    BY <2>1, <2>2
  <2>4. NothingFailsInSilence'
    BY <2>1 DEF RowAccounted, JiraHas
  <2> QED  BY <2>1, <2>3, <2>4
<1> QED
  BY <1>1, <1>2, <1>3, <1>4, <1>5, <1>6, <1>7, <1>8, <1>9, <1>10, <1>11,
     <1>12, <1>13 DEF Next, TrelloPart, JiraPart

(* The invariant holds in every state. *)
LEMMA IssueInvInductive == Spec => []IssueInv
<1>1. IssueInv /\ [Next]_vars => IssueInv'
  BY TypePreserved, TaskPreserved, RowPreserved, PicturesPreserved,
     SilencePreserved DEF IssueInv
<1> QED  BY InitInv, <1>1, PTL DEF Spec

(* Every variable of IssueCreation keeps its type. *)
THEOREM TypeCorrect == Spec => []TypeOK
<1>1. IssueInv => TypeOK
  BY DEF IssueInv
<1> QED  BY <1>1, IssueInvInductive, PTL

(* A row never names another issue's card (chanserv.cpp:227 clears         *)
(* created_card_id, chanserv.cpp:251 copies it).                           *)
THEOREM RowHasItsCard == Spec => []RowNamesItsCard
<1>1. IssueInv => RowNamesItsCard
  BY DEF IssueInv
<1> QED  BY <1>1, IssueInvInductive, PTL

(* Pictures never reach another issue's card, nor, unless Jira's answer    *)
(* was no JSON, an issue of Jira that has not taken over their dialogue.   *)
THEOREM PicturesStay == Spec => []PicturesStayWithTheirIssue
<1>1. IssueInv => PicturesStayWithTheirIssue
  BY DEF IssueInv
<1> QED  BY <1>1, IssueInvInductive, PTL

(* What create_new_issue could not do, support was told, unless Jira's     *)
(* answer was no JSON.                                                     *)
THEOREM FailuresAreReported == Spec => []NothingFailsInSilence
<1>1. IssueInv => NothingFailsInSilence
  BY DEF IssueInv
<1> QED  BY <1>1, IssueInvInductive, PTL
=============================================================================
