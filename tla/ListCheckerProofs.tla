-------------------------- MODULE ListCheckerProofs --------------------------
(***************************************************************************)
(* What the table keeps for any number of cards, contractors and failures. *)
(*                                                                         *)
(* The argument: between reading a row and acting on it the pass holds no  *)
(* lock, but nobody else assigns contractors, and chanserv only deletes    *)
(* rows.  So what the pass learned when it synchronised the row (pending,  *)
(* without a contractor, of whom nobody was told) still holds when it acts *)
(* on it.                                                                  *)
(***************************************************************************)
EXTENDS ListChecker, TLAPS

(* The pass is busy with an assignment, or with a badly described task. *)
Assigning == pc \in {"assign", "tellConsumer", "tellContractor"}
Reworking == pc \in {"rework", "archive", "remove"}

(* A card is assigned because it was seen in a contractor's column. *)
TypeInv == TypeOK /\ (pc = "assign" => seen \in ContractorLists)

(* Nobody has been told of the task that is being assigned. *)
TableInv ==
    /\ TypeInv
    /\ Assigning => told[card] = 0
    /\ PendingMeansUnassigned
    /\ ToldOnce

(* A contractor is assigned for the column the card was seen in, so the    *)
(* rework branch after it means that another column was read back.         *)
WorkInv ==
    /\ TableInv
    /\ Assigning => seen \in ContractorLists
    /\ WorkIsNotThrownAway

-----------------------------------------------------------------------------
(* Every row that is written is a row. *)
LEMMA RowsTyped ==
    /\ NewRow \in Row
    /\ NoRow \notin Row
    /\ \A r \in Row \cup {NoRow} : Synced(r) \in Row \cup {NoRow}
    /\ \A r \in Row : Synced(r) \in Row
    /\ \A r \in Row, l \in Lists \cup {NoList} :
          [r EXCEPT !.idCard_list = l] \in Row
BY ListCheckerAssumption
   DEF NewRow, Row, NoRow, Synced, Lists

(* Archiving a card leaves a board. *)
LEMMA ArchivedTyped ==
    ASSUME TypeOK, NEW c \in Cards, NEW ok \in BOOLEAN
    PROVE  Archived(c, ok) \in [Cards -> [state: {"open", "closed", "missing"},
                                          list: Lists \cup {NoList}]]
BY DEF TypeOK, Archived

(* Failures are counted up to their bound. *)
LEMMA FailTyped ==
    ASSUME TypeOK, failures' = failures \/ Fail
    PROVE  failures' \in 0 .. MaxFailures
BY ListCheckerAssumption DEF TypeOK, Fail

(* Synchronising a row that is there: what the pass writes, and learns. *)
LEMMA SyncedRow ==
    ASSUME TypeOK, NEW stored \in BOOLEAN, NEW cleared \in BOOLEAN,
           SyncCard(stored, cleared), Present(card)
    PROVE  \E row \in Row :
              /\ issues' = [issues EXCEPT ![card] = row]
              /\ told' = IF row.contractor_list = NoList
                         THEN [told EXCEPT ![card] = 0] ELSE told
              /\ pc' = NextStep(row)
              /\ db_card_list_id' = row.idCard_list
              /\ stored => row.idCard_list = seen
              /\ row \in {issues[card],
                          [issues[card] EXCEPT !.idCard_list = seen],
                          Synced(issues[card]),
                          Synced([issues[card] EXCEPT !.idCard_list = seen])}
<1> DEFINE listed == IF stored THEN [issues[card] EXCEPT !.idCard_list = seen]
                     ELSE issues[card]
           row    == IF cleared THEN Synced(listed) ELSE listed
<1>1. issues[card] \in Row
  BY DEF TypeOK, Present
<1>2. listed \in Row /\ (stored => listed.idCard_list = seen)
  BY <1>1, RowsTyped DEF TypeOK, Row
<1>3. row \in Row /\ (stored => row.idCard_list = seen)
  BY <1>2, RowsTyped DEF Synced, Row
<1>4. /\ issues' = [issues EXCEPT ![card] = row]
      /\ told' = IF row.contractor_list = NoList
                 THEN [told EXCEPT ![card] = 0] ELSE told
      /\ pc' = NextStep(row)
      /\ db_card_list_id' = row.idCard_list
  BY DEF SyncCard
<1>5. row \in {issues[card], [issues[card] EXCEPT !.idCard_list = seen],
               Synced(issues[card]),
               Synced([issues[card] EXCEPT !.idCard_list = seen])}
  OBVIOUS
<1> QED
  <2> HIDE DEF row
  <2> QED
    BY <1>3, <1>4, <1>5

(* Synchronising keeps the types. *)
LEMMA SyncTyped ==
    ASSUME TypeInv, NEW stored \in BOOLEAN, NEW cleared \in BOOLEAN,
           SyncCard(stored, cleared)
    PROVE  TypeInv'
<1> USE DEF TypeInv
<1>0. failures' \in 0 .. MaxFailures
  BY FailTyped DEF SyncCard, Statement
<1>1. CASE Present(card)
  <2>1. PICK row \in Row :
           /\ issues' = [issues EXCEPT ![card] = row]
           /\ told' = IF row.contractor_list = NoList
                      THEN [told EXCEPT ![card] = 0] ELSE told
           /\ pc' = NextStep(row)
           /\ db_card_list_id' = row.idCard_list
    BY <1>1, SyncedRow
  <2>2. /\ pc' \in {"pass", "assign", "rework"}
        /\ pc' = "assign" => seen \in ContractorLists
    BY <2>1 DEF NextStep
  <2>3. row.idCard_list \in Lists \cup {NoList}
    BY DEF Row
  <2> QED
    BY <1>0, <2>1, <2>2, <2>3 DEF SyncCard, TypeOK, bot
<1>2. CASE ~Present(card)
  <2>1. issues[card] = NoRow /\ Synced(NoRow) = NoRow
    BY <1>2 DEF Present, Synced, NoRow
  <2>2. db_card_list_id' = NoList
    BY <1>2, <2>1 DEF SyncCard, NoRow
  <2> QED
    BY <1>0, <1>2, <2>2 DEF SyncCard, TypeOK, bot
<1> QED
  BY <1>1, <1>2

(* The other steps of a pass keep the types. *)
LEMMA CheckerTyped ==
    ASSUME TypeInv, Checker PROVE TypeInv'
<1> USE DEF bot, work, inHand, TypeInv
<1>1. CASE SelectCards
  BY <1>1 DEF SelectCards, TypeOK
<1>2. ASSUME NEW c \in Cards, GetCard(c) PROVE TypeInv'
  BY <1>2 DEF GetCard, Take, TypeOK
<1>3. ASSUME NEW c \in Cards, NEW ok \in BOOLEAN, CardNotFound(c, ok)
      PROVE  TypeInv'
  BY <1>3, FailTyped DEF CardNotFound, Take, Statement, TypeOK
<1>4. ASSUME NEW c \in Cards, RequestFailed(c) PROVE TypeInv'
  BY <1>4, FailTyped DEF RequestFailed, Take, TypeOK
<1>5. ASSUME NEW stored \in BOOLEAN, NEW cleared \in BOOLEAN,
             SyncCard(stored, cleared)
      PROVE  TypeInv'
  BY <1>5, SyncTyped
<1>6. ASSUME NEW ok \in BOOLEAN, AssignContractor(ok), pc = "assign"
      PROVE  TypeInv'
  <2>1. failures' \in 0 .. MaxFailures
    BY <1>6, FailTyped DEF AssignContractor, Statement
  <2>2. issues' \in [Cards -> Row \cup {NoRow}]
    BY <1>6
    DEF AssignContractor, Assigned, Present, Row, TypeOK
  <2> QED
    BY <1>6, <2>1, <2>2 DEF AssignContractor, AfterAssignment, TypeOK
<1>7. CASE TellConsumer \/ AskForNewTask
  BY <1>7 DEF TellConsumer, AskForNewTask, TypeOK
<1>8. CASE TellContractor
  BY <1>8 DEF TellContractor, AfterAssignment, TypeOK
<1>9. ASSUME NEW ok \in BOOLEAN, ArchiveReworked(ok) PROVE TypeInv'
  <2>1. failures' \in 0 .. MaxFailures
    BY <1>9, FailTyped DEF ArchiveReworked, Unless
  <2> QED
    BY <1>9, <2>1, ArchivedTyped DEF ArchiveReworked, TypeOK
<1>10. ASSUME NEW ok \in BOOLEAN, RemoveReworked(ok) PROVE TypeInv'
  BY <1>10, FailTyped DEF RemoveReworked, Statement, TypeOK
<1>11. ASSUME NEW kept \in SUBSET Cards, DeleteCards(kept) PROVE TypeInv'
  BY <1>11, FailTyped DEF DeleteCards, Statement, TypeOK
<1>12. CASE ConsumerUnknown
  BY <1>12 DEF ConsumerUnknown, Restarted, TypeOK
<1> QED
  BY <1>1, <1>2, <1>3, <1>4, <1>5, <1>6, <1>7, <1>8, <1>9, <1>10, <1>11,
     <1>12 DEF Checker, AssignContractor

(* Chanserv keeps the types. *)
LEMMA BotTyped ==
    ASSUME TypeInv, Bot PROVE TypeInv'
<1> USE DEF checker, work, inHand, TypeInv
<1>1. ASSUME NEW c \in Cards, NEW cardOk \in BOOLEAN, NEW rowOk \in BOOLEAN,
             CreateIssue(c, cardOk, rowOk)
      PROVE  TypeInv'
  <2>1. failures' \in 0 .. MaxFailures
    BY <1>1, FailTyped DEF CreateIssue, Unless
  <2>2. issues' \in [Cards -> Row \cup {NoRow}]
    BY <1>1, RowsTyped DEF CreateIssue, TypeOK
  <2> QED
    BY <1>1, <2>1, <2>2 DEF CreateIssue, OpenIn, Lists, TypeOK
<1>2. ASSUME NEW l \in ContractorLists, MyTasks(l) PROVE TypeInv'
  BY <1>2 DEF MyTasks, TypeOK
<1>3. ASSUME NEW l \in ContractorLists, NEW c \in Cards, NEW ok \in BOOLEAN,
             TaskClosing(l, c, ok)
      PROVE  TypeInv'
  <2>1. failures' \in 0 .. MaxFailures
    BY <1>3, FailTyped DEF TaskClosing, Unless
  <2>2. cached' \in [Cards -> SUBSET ContractorLists]
    BY <1>3 DEF TaskClosing, TypeOK
  <2> QED
    BY <1>3, <2>1, <2>2, ArchivedTyped DEF TaskClosing, TypeOK
<1>4. ASSUME NEW c \in Cards, NEW ok \in BOOLEAN, DeleteClosed(c, ok)
      PROVE  TypeInv'
  BY <1>4, FailTyped DEF DeleteClosed, Statement, TypeOK
<1>5. CASE BotRestart
  BY <1>5, FailTyped DEF BotRestart, TypeOK
<1> QED
  BY <1>1, <1>2, <1>3, <1>4, <1>5 DEF Bot

(* People only change the board. *)
LEMMA PeopleTyped ==
    ASSUME TypeInv, People PROVE TypeInv'
<1>1. board' \in [Cards -> [state: {"open", "closed", "missing"},
                            list: Lists \cup {NoList}]]
  BY DEF People, MoveCard, CloseCard, ReopenCard, DeleteCard, OpenIn, Missing,
     TypeInv, TypeOK
<1> QED
  BY <1>1 DEF People, checker, work, inHand, bot, TypeInv, TypeOK

(* Every step keeps the types. *)
LEMMA TypePreserved == TypeInv /\ [Next]_vars => TypeInv'
<1> SUFFICES ASSUME TypeInv, [Next]_vars PROVE TypeInv'
  OBVIOUS
<1>1. CASE Crash
  BY <1>1, FailTyped DEF Crash, Restarted, inHand, bot, TypeInv, TypeOK
<1>2. CASE UNCHANGED vars
  BY <1>2 DEF vars, checker, work, inHand, bot, TypeInv, TypeOK
<1> QED
  BY <1>1, <1>2, CheckerTyped, BotTyped, PeopleTyped DEF Next

(* Board, table, lists of the pass and lists of the contractors have their *)
(* types.                                                                  *)
THEOREM TypeCorrect == Spec => []TypeOK
<1>1. Init => TypeInv
  BY ListCheckerAssumption DEF Init, Missing, TypeInv, TypeOK
<1>2. TypeInv => TypeOK
  BY DEF TypeInv
<1> QED
  BY <1>1, <1>2, TypePreserved, PTL DEF Spec

-----------------------------------------------------------------------------
(* Status, contractor and message *)

(* A step that adds no row and tells nobody, and starts no assignment,     *)
(* keeps TableInv: deleting rows cannot break it.                          *)
LEMMA OnlyDeletes ==
    ASSUME TableInv, TypeInv', told' = told,
           \A c \in Cards : issues'[c] \in {issues[c], NewRow, NoRow},
           \/ ~Assigning'
           \/ Assigning /\ card' = card
    PROVE  TableInv'
<1>1. NewRow # NoRow /\ NewRow.card_status = "pending"
      /\ NewRow.contractor_list = NoList
  BY RowsTyped DEF NewRow
<1>2. PendingMeansUnassigned'
  BY <1>1 DEF TableInv, PendingMeansUnassigned, Present
<1> QED
  BY <1>2 DEF TableInv, ToldOnce, Assigning

(* Synchronising: a card of which the contractor was told keeps it, or is  *)
(* without one from now on.                                                *)
LEMMA SyncKeepsTable ==
    ASSUME TableInv, NEW stored \in BOOLEAN, NEW cleared \in BOOLEAN,
           SyncCard(stored, cleared)
    PROVE  TableInv'
<1>0. TypeInv /\ TypeOK /\ TypeInv' /\ card' = card
  BY SyncTyped DEF TableInv, TypeInv, SyncCard
<1>1. CASE Present(card)
  <2>1. PICK row \in Row :
           /\ issues' = [issues EXCEPT ![card] = row]
           /\ told' = IF row.contractor_list = NoList
                      THEN [told EXCEPT ![card] = 0] ELSE told
           /\ pc' = NextStep(row)
           /\ row \in {issues[card],
                       [issues[card] EXCEPT !.idCard_list = seen],
                       Synced(issues[card]),
                       Synced([issues[card] EXCEPT !.idCard_list = seen])}
    BY <1>0, <1>1, SyncedRow
  <2>2. issues[card] \in Row
    BY <1>0, <1>1 DEF TypeOK, Present
  <2>3. issues[card].card_status = "pending"
           <=> issues[card].contractor_list = NoList
    BY <1>0, <1>1 DEF TableInv, PendingMeansUnassigned, TypeOK
  <2>4. row.card_status = "pending" <=> row.contractor_list = NoList
    BY <2>1, <2>2, <2>3 DEF Synced, Row
  <2>5. PendingMeansUnassigned'
    BY <1>0, <2>1, <2>4 DEF TableInv, PendingMeansUnassigned, Present, TypeOK
  <2>6. ToldOnce'
    BY <1>0, <2>1 DEF TableInv, ToldOnce, TypeOK
  <2>7. Assigning' => told'[card'] = 0
    <3>1. SUFFICES ASSUME Assigning' PROVE told'[card] = 0
      BY <1>0
    <3>2. NextStep(row) \in {"assign", "tellConsumer", "tellContractor"}
      BY <2>1, <3>1 DEF Assigning
    <3>3. row.card_status = "pending"
      BY <3>2 DEF NextStep
    <3>4. told' = [told EXCEPT ![card] = 0]
      BY <2>1, <2>4, <3>3
    <3> QED
      BY <1>0, <3>4 DEF TypeOK
  <2> QED
    BY <1>0, <2>5, <2>6, <2>7 DEF TableInv
<1>2. CASE ~Present(card)
  BY <1>0, <1>2, OnlyDeletes DEF SyncCard, Assigning
<1> QED
  BY <1>1, <1>2

(* The assignment sets status and contractor together. *)
LEMMA AssignKeepsTable ==
    ASSUME TableInv, TypeInv', NEW ok \in BOOLEAN, AssignContractor(ok)
    PROVE  TableInv'
<1>1. seen \in ContractorLists /\ seen # NoList
  BY ListCheckerAssumption DEF AssignContractor, TableInv, TypeInv
<1>2. PendingMeansUnassigned'
  <2>1. CASE ok /\ Present(card)
    <3>1. issues[card] \in Row
      BY <2>1 DEF TableInv, TypeInv, TypeOK, Present
    <3>2. /\ issues' = [issues EXCEPT ![card] = Assigned(issues[card])]
          /\ Assigned(issues[card]).card_status = "underway"
          /\ Assigned(issues[card]).contractor_list = seen
      BY <2>1, <3>1 DEF AssignContractor, Assigned, Row
    <3> QED
      BY <1>1, <3>2
      DEF TableInv, TypeInv, TypeOK, PendingMeansUnassigned, Present
  <2>2. CASE ~(ok /\ Present(card))
    BY <2>2 DEF AssignContractor, TableInv, PendingMeansUnassigned, Present
  <2> QED
    BY <2>1, <2>2
<1> QED
  BY <1>2 DEF AssignContractor, AfterAssignment, Assigning, TableInv, ToldOnce,
     work, inHand

(* A step of the pass keeps TableInv. *)
LEMMA CheckerKeepsTable ==
    ASSUME TableInv, TypeInv', Checker PROVE TableInv'
<1> USE DEF work, inHand, Assigning
<1>1. CASE SelectCards
  BY <1>1, OnlyDeletes DEF SelectCards
<1>2. ASSUME NEW c \in Cards, GetCard(c) PROVE TableInv'
  BY <1>2, OnlyDeletes DEF GetCard
<1>3. ASSUME NEW c \in Cards, NEW ok \in BOOLEAN, CardNotFound(c, ok)
      PROVE  TableInv'
  BY <1>3, OnlyDeletes DEF CardNotFound, Take, TableInv, TypeInv, TypeOK
<1>4. ASSUME NEW c \in Cards, RequestFailed(c) PROVE TableInv'
  BY <1>4, OnlyDeletes DEF RequestFailed, Take
<1>5. ASSUME NEW stored \in BOOLEAN, NEW cleared \in BOOLEAN,
             SyncCard(stored, cleared)
      PROVE  TableInv'
  BY <1>5, SyncKeepsTable
<1>6. ASSUME NEW ok \in BOOLEAN, AssignContractor(ok) PROVE TableInv'
  BY <1>6, AssignKeepsTable
<1>7. CASE TellConsumer
  BY <1>7, OnlyDeletes DEF TellConsumer
<1>8. CASE TellContractor
  <2>1. /\ told[card] = 0 /\ told' = [told EXCEPT ![card] = 1]
        /\ ~Assigning' /\ issues' = issues
    BY <1>8
    DEF TellContractor, AfterAssignment, TableInv, TypeInv, TypeOK
  <2>2. ToldOnce'
    BY <2>1 DEF TableInv, ToldOnce, TypeInv, TypeOK
  <2>3. PendingMeansUnassigned'
    BY <2>1 DEF TableInv, PendingMeansUnassigned, Present
  <2> QED
    BY <2>1, <2>2, <2>3 DEF TableInv
<1>9. CASE AskForNewTask
  BY <1>9, OnlyDeletes DEF AskForNewTask
<1>10. ASSUME NEW ok \in BOOLEAN, ArchiveReworked(ok) PROVE TableInv'
  BY <1>10, OnlyDeletes DEF ArchiveReworked
<1>11. ASSUME NEW ok \in BOOLEAN, RemoveReworked(ok) PROVE TableInv'
  BY <1>11, OnlyDeletes DEF RemoveReworked, TableInv, TypeInv, TypeOK
<1>12. ASSUME NEW kept \in SUBSET Cards, DeleteCards(kept) PROVE TableInv'
  BY <1>12, OnlyDeletes DEF DeleteCards
<1>13. CASE ConsumerUnknown
  BY <1>13, OnlyDeletes DEF ConsumerUnknown, Restarted
<1> QED
  BY <1>1, <1>2, <1>3, <1>4, <1>5, <1>6, <1>7, <1>8, <1>9, <1>10, <1>11,
     <1>12, <1>13 DEF Checker

(* Every step keeps TableInv. *)
LEMMA TableInvInductive == TableInv /\ [Next]_vars => TableInv'
<1> SUFFICES ASSUME TableInv, [Next]_vars PROVE TableInv'
  OBVIOUS
<1>0. TypeInv'
  BY TypePreserved DEF TableInv
<1> USE DEF checker, work, inHand, bot, Assigning
<1>1. CASE Checker
  BY <1>0, <1>1, CheckerKeepsTable
<1>2. CASE Crash
  BY <1>0, <1>2, OnlyDeletes DEF Crash, Restarted
<1>3. CASE Bot
  <2>1. \A c \in Cards : issues'[c] \in {issues[c], NewRow, NoRow}
    BY <1>3 DEF Bot, CreateIssue, MyTasks, TaskClosing, DeleteClosed,
       BotRestart, TableInv, TypeInv, TypeOK
  <2>2. told' = told /\ pc' = pc /\ card' = card
    BY <1>3 DEF Bot, CreateIssue, MyTasks, TaskClosing, DeleteClosed,
       BotRestart
  <2> QED
    BY <1>0, <2>1, <2>2, OnlyDeletes
<1>4. CASE People
  BY <1>0, <1>4, OnlyDeletes DEF People
<1>5. CASE UNCHANGED vars
  BY <1>0, <1>5, OnlyDeletes DEF vars
<1> QED
  BY <1>1, <1>2, <1>3, <1>4, <1>5 DEF Next

(* Init satisfies TableInv: the table is empty and nobody has been told.   *)
LEMMA InitTable == Init => TableInv
<1> SUFFICES ASSUME Init PROVE TableInv
  OBVIOUS
<1>1. TypeInv
  BY ListCheckerAssumption DEF Init, Missing, TypeInv, TypeOK
<1> QED
  BY <1>1 DEF Init, TableInv, Assigning, PendingMeansUnassigned, Present,
     ToldOnce

(* Status and contractor of a row agree, although listchecker writes them  *)
(* in two places and may fail or die at any statement.                     *)
THEOREM PendingIsUnassigned == Spec => []PendingMeansUnassigned
<1>1. TableInv => PendingMeansUnassigned
  BY DEF TableInv
<1> QED
  BY <1>1, InitTable, TableInvInductive, PTL DEF Spec

(* No contractor is told of a task a second time, whatever pass dies where.*)
THEOREM ToldAtMostOnce == Spec => []ToldOnce
<1>1. TableInv => ToldOnce
  BY DEF TableInv
<1> QED
  BY <1>1, InitTable, TableInvInductive, PTL DEF Spec

-----------------------------------------------------------------------------
(* The rework branch *)

(* A step that leaves the columns in hand alone and gives no contractor    *)
(* keeps the rest of WorkInv.                                              *)
LEMMA NoNewWork ==
    ASSUME WorkInv, TableInv', UNCHANGED inHand,
           \A c \in Cards : issues'[c] \in {issues[c], NewRow, NoRow},
           \/ pc' \in {"idle", "pass", "sync"}
           \/ Assigning' /\ Assigning
           \/ Reworking' /\ Reworking
    PROVE  WorkInv'
BY DEF WorkInv, WorkIsNotThrownAway, TableInv, TypeInv, TypeOK, Assigning,
   Reworking, Present, NewRow, inHand

(* Synchronising: the rework branch is taken of pending rows only, and a   *)
(* contractor is assigned for the column Trello named only.                *)
LEMMA SyncKeepsWork ==
    ASSUME WorkInv, TableInv', NEW stored \in BOOLEAN,
           NEW cleared \in BOOLEAN, SyncCard(stored, cleared)
    PROVE  WorkInv'
<1>0. TypeOK /\ card' = card /\ seen' = seen
  BY DEF WorkInv, TableInv, TypeInv, SyncCard
<1>1. CASE Present(card)
  <2>1. PICK row \in Row :
           /\ issues' = [issues EXCEPT ![card] = row]
           /\ pc' = NextStep(row)
    BY <1>0, <1>1, SyncedRow
  <2>2. /\ pc' \in {"pass", "assign", "rework"}
        /\ pc' = "assign" => seen \in ContractorLists
        /\ pc' = "rework" => row.card_status = "pending"
    BY <2>1 DEF NextStep
  <2>3. Assigning' => seen' \in ContractorLists
    BY <1>0, <2>2 DEF Assigning
  <2>4. issues'[card'] = row /\ card' \in Cards
    BY <1>0, <2>1 DEF TypeOK
  <2>5. pc' = "rework" /\ Present(card)'
           => issues'[card'].contractor_list = NoList
    BY <2>2, <2>4 DEF TableInv, PendingMeansUnassigned, Present
  <2> QED
    BY <2>2, <2>3, <2>5 DEF WorkInv, WorkIsNotThrownAway
<1>2. CASE ~Present(card)
  BY <1>2 DEF SyncCard, WorkInv, WorkIsNotThrownAway, Assigning
<1> QED
  BY <1>1, <1>2

(* The message to the contractor ends the assignment: the rework branch    *)
(* taken from there is taken of an old column of the table.                *)
LEMMA EndOfAssignment ==
    ASSUME WorkInv, Assigning, UNCHANGED inHand, pc' = AfterAssignment
    PROVE  WorkIsNotThrownAway' /\ ~Assigning'
<1>1. seen \in ContractorLists /\ seen # rework_list
  BY ListCheckerAssumption DEF WorkInv
<1> QED
  BY <1>1 DEF AfterAssignment, WorkIsNotThrownAway, Assigning, inHand

(* Every step keeps WorkInv. *)
LEMMA WorkInvInductive == WorkInv /\ [Next]_vars => WorkInv'
<1> SUFFICES ASSUME WorkInv, [Next]_vars PROVE WorkInv'
  OBVIOUS
<1>0. TableInv'
  BY TableInvInductive DEF WorkInv
<1> USE <1>0 DEF checker, work, inHand, bot
<1>1. CASE SelectCards
  BY <1>1, NoNewWork DEF SelectCards
<1>2. ASSUME NEW c \in Cards, GetCard(c) PROVE WorkInv'
  BY <1>2 DEF GetCard, WorkInv, WorkIsNotThrownAway, Assigning
<1>3. ASSUME NEW c \in Cards, NEW ok \in BOOLEAN, CardNotFound(c, ok)
      PROVE  WorkInv'
  BY <1>3 DEF CardNotFound, Take, WorkInv, WorkIsNotThrownAway, Assigning
<1>4. ASSUME NEW c \in Cards, RequestFailed(c) PROVE WorkInv'
  BY <1>4 DEF RequestFailed, Take, WorkInv, WorkIsNotThrownAway, Assigning
<1>5. ASSUME NEW stored \in BOOLEAN, NEW cleared \in BOOLEAN,
             SyncCard(stored, cleared)
      PROVE  WorkInv'
  BY <1>5, SyncKeepsWork
<1>6. ASSUME NEW ok \in BOOLEAN, AssignContractor(ok) PROVE WorkInv'
  <2>1. CASE ok
    BY <1>6, <2>1 DEF AssignContractor, WorkInv, WorkIsNotThrownAway,
       Assigning
  <2>2. CASE ~ok
    BY <1>6, <2>2, EndOfAssignment DEF AssignContractor, WorkInv, Assigning
  <2> QED
    BY <2>1, <2>2
<1>7. CASE TellConsumer
  BY <1>7, NoNewWork DEF TellConsumer, Assigning
<1>8. CASE TellContractor
  BY <1>8, EndOfAssignment DEF TellContractor, WorkInv, Assigning
<1>9. CASE AskForNewTask
  BY <1>9, NoNewWork DEF AskForNewTask, Reworking
<1>10. ASSUME NEW ok \in BOOLEAN, ArchiveReworked(ok) PROVE WorkInv'
  BY <1>10, NoNewWork DEF ArchiveReworked, Reworking
<1>11. ASSUME NEW ok \in BOOLEAN, RemoveReworked(ok) PROVE WorkInv'
  BY <1>11 DEF RemoveReworked, WorkInv, WorkIsNotThrownAway, Assigning
<1>12. ASSUME NEW kept \in SUBSET Cards, DeleteCards(kept) PROVE WorkInv'
  BY <1>12 DEF DeleteCards, WorkInv, WorkIsNotThrownAway, Assigning
<1>13. CASE ConsumerUnknown \/ Crash
  BY <1>13 DEF ConsumerUnknown, Crash, Restarted, WorkInv,
     WorkIsNotThrownAway, Assigning
<1>14. CASE Bot
  <2>1. \A c \in Cards : issues'[c] \in {issues[c], NewRow, NoRow}
    BY <1>14 DEF Bot, CreateIssue, MyTasks, TaskClosing, DeleteClosed,
       BotRestart, WorkInv, TableInv, TypeInv, TypeOK
  <2>2. pc' = pc /\ UNCHANGED inHand
    BY <1>14 DEF Bot, CreateIssue, MyTasks, TaskClosing, DeleteClosed,
       BotRestart
  <2>3. pc \in {"idle", "pass", "sync"} \/ Assigning \/ Reworking
    BY DEF WorkInv, TableInv, TypeInv, TypeOK, Assigning, Reworking
  <2> QED
    BY <2>1, <2>2, <2>3, NoNewWork DEF Assigning, Reworking
<1>15. CASE People \/ UNCHANGED vars
  BY <1>15 DEF People, vars, WorkInv, WorkIsNotThrownAway, Assigning, Present
<1> QED
  BY <1>1, <1>2, <1>3, <1>4, <1>5, <1>6, <1>7, <1>8, <1>9, <1>10, <1>11,
     <1>12, <1>13, <1>14, <1>15 DEF Next, Checker

(* The pass never archives, or deletes as badly described, a task that has *)
(* a contractor, while it reads back the column Trello named.              *)
THEOREM AssignedWorkIsKept == Spec => []WorkIsNotThrownAway
<1>1. Init => WorkInv
  BY InitTable DEF Init, WorkInv, WorkIsNotThrownAway, Assigning
<1>2. WorkInv => WorkIsNotThrownAway
  BY DEF WorkInv
<1> QED
  BY <1>1, <1>2, WorkInvInductive, PTL DEF Spec

-----------------------------------------------------------------------------
(* Table and pass implement IssueTable. *)

TableNext == [Table!Next]_<<raised, ContractorOf>>

(* The row that is about to get a contractor has none: between the SELECT  *)
(* of its status and the UPDATE nobody else assigns one.                   *)
FreeInv ==
    /\ TableInv
    /\ pc = "assign" /\ Present(card) => issues[card].contractor_list = NoList

(* Rows that go are all that changes: chanserv and the pass may take any.  *)
LEMMA RowsGo ==
    ASSUME UNCHANGED raised,
           \A c \in Cards : issues'[c] \in {issues[c], NoRow}
    PROVE  TableNext
<1> DEFINE S == {c \in Cards : issues'[c] = NoRow}
<1>1. ContractorOf' = [c \in Cards |-> IF c \in S THEN NoRow
                                       ELSE ContractorOf[c]]
  BY DEF ContractorOf, Present
<1>2. Table!Remove(S)
  BY <1>1 DEF Table!Remove
<1> QED
  BY <1>2 DEF TableNext, Table!Next

(* Synchronising a row takes its contractor away, or leaves him.           *)
LEMMA SyncIsTableStep ==
    ASSUME FreeInv, NEW stored \in BOOLEAN, NEW cleared \in BOOLEAN,
           SyncCard(stored, cleared)
    PROVE  TableNext
<1>0. TypeOK /\ card \in Cards /\ UNCHANGED raised
  BY DEF FreeInv, TableInv, TypeInv, TypeOK, SyncCard, bot
<1>1. CASE Present(card)
  <2>1. PICK row \in Row :
           /\ issues' = [issues EXCEPT ![card] = row]
           /\ row \in {issues[card],
                       [issues[card] EXCEPT !.idCard_list = seen],
                       Synced(issues[card]),
                       Synced([issues[card] EXCEPT !.idCard_list = seen])}
    BY <1>0, <1>1, SyncedRow
  <2>2. issues[card] \in Row
    BY <1>0, <1>1 DEF TypeOK, Present
  <2>3. row.contractor_list \in {issues[card].contractor_list, NoList}
    BY <2>1, <2>2 DEF Synced, Row
  <2>4. /\ ContractorOf[card] = issues[card].contractor_list
        /\ ContractorOf' = [ContractorOf EXCEPT ![card] = row.contractor_list]
    BY <1>0, <1>1, <2>1, RowsTyped DEF ContractorOf, Present, TypeOK
  <2>5. CASE row.contractor_list = issues[card].contractor_list
    <3>1. ContractorOf' = ContractorOf
      BY <2>4, <2>5 DEF ContractorOf
    <3> QED
      BY <1>0, <3>1 DEF TableNext
  <2>6. CASE row.contractor_list # issues[card].contractor_list
    <3>1. ContractorOf[card] \in ContractorLists
      BY <2>2, <2>3, <2>4, <2>6 DEF Row
    <3>2. Table!TakeBack(card)
      BY <1>0, <2>3, <2>4, <2>6, <3>1 DEF Table!TakeBack
    <3> QED
      BY <1>0, <3>2 DEF TableNext, Table!Next
  <2> QED
    BY <2>5, <2>6
<1>2. CASE ~Present(card)
  BY <1>0, <1>2, RowsGo DEF SyncCard
<1> QED
  BY <1>1, <1>2

(* An assignment gives a task to a contractor that nobody has. *)
LEMMA AssignIsTableStep ==
    ASSUME FreeInv, NEW ok \in BOOLEAN, AssignContractor(ok)
    PROVE  TableNext
<1>0. TypeOK /\ card \in Cards /\ UNCHANGED raised
  BY DEF FreeInv, TableInv, TypeInv, TypeOK, AssignContractor, bot
<1>1. CASE ok /\ Present(card)
  <2>1. issues[card] \in Row /\ issues[card].contractor_list = NoList
    BY <1>0, <1>1 DEF TypeOK, Present, FreeInv, AssignContractor
  <2>2. seen \in ContractorLists
    BY DEF FreeInv, TableInv, TypeInv, AssignContractor
  <2>3. /\ issues' = [issues EXCEPT ![card] = Assigned(issues[card])]
        /\ Assigned(issues[card]) \in Row
        /\ Assigned(issues[card]).contractor_list = seen
    BY <1>1, <2>1, <2>2 DEF AssignContractor, Assigned, Row
  <2>4. /\ ContractorOf[card] = NoList
        /\ ContractorOf' = [ContractorOf EXCEPT ![card] = seen]
    BY <1>0, <1>1, <2>1, <2>3, RowsTyped DEF ContractorOf, Present, TypeOK
  <2>5. Table!Assign(card, seen)
    BY <1>0, <2>4 DEF Table!Assign
  <2> QED
    BY <1>0, <2>2, <2>5 DEF TableNext, Table!Next
<1>2. CASE ~(ok /\ Present(card))
  BY <1>0, <1>2, RowsGo DEF AssignContractor
<1> QED
  BY <1>1, <1>2

(* A new issue is raised once. *)
LEMMA CreateIsTableStep ==
    ASSUME TypeOK, NEW c \in Cards, NEW cardOk \in BOOLEAN,
           NEW rowOk \in BOOLEAN, CreateIssue(c, cardOk, rowOk)
    PROVE  TableNext
<1>1. ContractorOf' = IF rowOk THEN [ContractorOf EXCEPT ![c] = NoList]
                      ELSE ContractorOf
  BY RowsTyped DEF CreateIssue, ContractorOf, Present, NewRow, TypeOK
<1>2. Table!Raise(c, rowOk)
  BY <1>1 DEF CreateIssue, Table!Raise
<1> QED
  BY <1>2 DEF TableNext, Table!Next

(* Every step of the processes and of people is a step of the table. *)
LEMMA StepIsTableStep == FreeInv /\ [Next]_vars => TableNext
<1> SUFFICES ASSUME FreeInv, [Next]_vars PROVE TableNext
  OBVIOUS
<1>0. TypeOK
  BY DEF FreeInv, TableInv, TypeInv
<1> USE DEF checker, work, inHand, bot
<1>1. CASE \/ SelectCards \/ TellConsumer \/ TellContractor
           \/ AskForNewTask \/ ConsumerUnknown \/ Crash \/ People
           \/ UNCHANGED vars
  BY <1>1, RowsGo DEF SelectCards, TellConsumer, TellContractor,
     AskForNewTask, ConsumerUnknown, Crash, Restarted, People, vars
<1>2. ASSUME NEW c \in Cards, GetCard(c) \/ RequestFailed(c)
      PROVE  TableNext
  BY <1>2, RowsGo DEF GetCard, RequestFailed, Take
<1>3. ASSUME NEW c \in Cards, NEW ok \in BOOLEAN, CardNotFound(c, ok)
      PROVE  TableNext
  BY <1>0, <1>3, RowsGo DEF CardNotFound, Take, TypeOK
<1>4. ASSUME NEW stored \in BOOLEAN, NEW cleared \in BOOLEAN,
             SyncCard(stored, cleared)
      PROVE  TableNext
  BY <1>4, SyncIsTableStep
<1>5. ASSUME NEW ok \in BOOLEAN, AssignContractor(ok)
      PROVE  TableNext
  BY <1>5, AssignIsTableStep
<1>6. ASSUME NEW ok \in BOOLEAN, ArchiveReworked(ok) \/ RemoveReworked(ok)
      PROVE  TableNext
  BY <1>0, <1>6, RowsGo DEF ArchiveReworked, RemoveReworked, TypeOK
<1>7. ASSUME NEW kept \in SUBSET Cards, DeleteCards(kept)
      PROVE  TableNext
  BY <1>7, RowsGo DEF DeleteCards
<1>8. ASSUME NEW c \in Cards, NEW cardOk \in BOOLEAN, NEW rowOk \in BOOLEAN,
             CreateIssue(c, cardOk, rowOk)
      PROVE  TableNext
  BY <1>0, <1>8, CreateIsTableStep
<1>9. ASSUME NEW l \in ContractorLists, MyTasks(l) PROVE TableNext
  BY <1>9, RowsGo DEF MyTasks
<1>10. ASSUME NEW l \in ContractorLists, NEW c \in Cards, NEW ok \in BOOLEAN,
              TaskClosing(l, c, ok)
       PROVE  TableNext
  BY <1>10, RowsGo DEF TaskClosing
<1>11. ASSUME NEW c \in Cards, NEW ok \in BOOLEAN, DeleteClosed(c, ok)
       PROVE  TableNext
  BY <1>0, <1>11, RowsGo DEF DeleteClosed, TypeOK
<1>12. CASE BotRestart
  BY <1>12, RowsGo DEF BotRestart
<1>13. CASE Checker
  BY <1>1, <1>2, <1>3, <1>4, <1>5, <1>6, <1>7, <1>13 DEF Checker
<1>14. CASE Bot
  BY <1>8, <1>9, <1>10, <1>11, <1>12, <1>14 DEF Bot
<1> QED
  BY <1>1, <1>13, <1>14 DEF Next

(* A step that starts no assignment, or is made during one and adds or     *)
(* deletes rows only, keeps FreeInv.                                       *)
LEMMA NothingAssigned ==
    ASSUME FreeInv, TableInv',
           \/ pc' # "assign"
           \/ /\ UNCHANGED <<pc, card>>
              /\ \A c \in Cards : issues'[c] \in {issues[c], NewRow, NoRow}
    PROVE  FreeInv'
BY DEF FreeInv, TableInv, TypeInv, TypeOK, Present, NewRow

(* Every step keeps FreeInv. *)
LEMMA FreeInvInductive == FreeInv /\ [Next]_vars => FreeInv'
<1> SUFFICES ASSUME FreeInv, [Next]_vars PROVE FreeInv'
  OBVIOUS
<1>0. TableInv' /\ TypeOK
  BY TableInvInductive DEF FreeInv, TableInv, TypeInv
<1> USE DEF checker, work, inHand, bot
<1>1. ASSUME NEW stored \in BOOLEAN, NEW cleared \in BOOLEAN,
             SyncCard(stored, cleared)
      PROVE  FreeInv'
  <2>1. CASE Present(card)
    <3>1. PICK row \in Row :
             /\ issues' = [issues EXCEPT ![card] = row]
             /\ pc' = NextStep(row)
      BY <1>0, <1>1, <2>1, SyncedRow
    <3>2. pc' = "assign" => row.card_status = "pending"
      BY <3>1 DEF NextStep
    <3>3. card' = card /\ issues'[card] = row
      BY <1>0, <1>1, <3>1 DEF SyncCard, TypeOK
    <3> QED
      BY <1>0, <3>2, <3>3
      DEF FreeInv, TableInv, TypeInv, TypeOK, PendingMeansUnassigned, Present
  <2>2. CASE ~Present(card)
    BY <1>0, <1>1, <2>2, NothingAssigned DEF SyncCard
  <2> QED
    BY <2>1, <2>2
<1>2. CASE Checker /\ ~(\E stored, cleared \in BOOLEAN :
                           SyncCard(stored, cleared))
  <2>1. pc' # "assign"
    BY <1>2 DEF Checker, SelectCards, GetCard, CardNotFound, RequestFailed,
       Take, AssignContractor, TellConsumer, TellContractor, AskForNewTask,
       ArchiveReworked, RemoveReworked, DeleteCards, ConsumerUnknown,
       Restarted, AfterAssignment
  <2> QED
    BY <1>0, <2>1, NothingAssigned
<1>3. CASE Crash
  BY <1>0, <1>3, NothingAssigned DEF Crash, Restarted
<1>4. CASE Bot
  <2>1. /\ UNCHANGED <<pc, card>>
        /\ \A c \in Cards : issues'[c] \in {issues[c], NewRow, NoRow}
    BY <1>0, <1>4 DEF Bot, CreateIssue, MyTasks, TaskClosing, DeleteClosed,
       BotRestart, TypeOK
  <2> QED
    BY <1>0, <2>1, NothingAssigned
<1>5. CASE People \/ UNCHANGED vars
  BY <1>0, <1>5, NothingAssigned DEF People, vars
<1> QED
  BY <1>1, <1>2, <1>3, <1>4, <1>5 DEF Next

(* chanserv may rely on the abstract table, and so may a contractor: a     *)
(* task that is his is taken from him only by way of the first column, or  *)
(* goes for good.                                                          *)
THEOREM PassesKeepTheTable == Spec => ImplementsIssueTable
<1>1. Init => Table!Init
  BY DEF Init, Table!Init, ContractorOf, Present
<1>2. Init => FreeInv
  BY InitTable DEF Init, FreeInv
<1>3. FreeInv /\ [Next]_vars => TableNext
  BY StepIsTableStep
<1> QED
  BY <1>1, <1>2, <1>3, FreeInvInductive, PTL
  DEF Spec, ImplementsIssueTable, Table!Spec, TableNext
=============================================================================
