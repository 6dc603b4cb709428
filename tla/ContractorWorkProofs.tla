------------------------ MODULE ContractorWorkProofs ------------------------
(***************************************************************************)
(* The work of contractors, for any users, issues and bounds.  All that is *)
(* said about a user's messages is in UserOK, one user at a time: a step   *)
(* of another user, of the board or of a process leaves his messages       *)
(* alone, or makes the session forget them (StaysOK), so that only the     *)
(* user's own buttons and /start need a look of their own.                 *)
(***************************************************************************)
EXTENDS ContractorWork, SessionStoreProofs, SequenceTheorems, FiniteSetTheorems

WorkTypeOK ==
    /\ chat \in [Users -> Seq(Message)]
    /\ clicked_msg_id \in [Users -> Nat]
    /\ recent_msg_ids \in [Users -> SUBSET Nat]
    /\ unsure \in [Users -> SUBSET Nat]
    /\ started \subseteq Users \X Issues
    /\ again \subseteq Users \X Issues

IssuesOK == issues \in [Issues -> Users \cup {Nobody, NoRow}]

(* The last list: messages of the chat, each about a task of its own. *)
ListOK(u) ==
    /\ recent_msg_ids[u] \subseteq Messages(u)
    /\ \A m \in recent_msg_ids[u] : chat[u][m].about \in Issues
    /\ \A m, n \in recent_msg_ids[u] :
          chat[u][m].about = chat[u][n].about => m = n

ClickedOK(u) ==
    clicked_msg_id[u] # 0 =>
        /\ clicked_msg_id[u] \in Messages(u)
        /\ \/ NewestMenu(u, clicked_msg_id[u])
           \/ clicked_msg_id[u] \in recent_msg_ids[u]

BlockingOK(u) ==
    clicked_msg_id[u] \in recent_msg_ids[u] \ unsure[u]
        => chat[u][clicked_msg_id[u]].kb = "kb_task_closing"

(* A message of the last list that shows "finish" is about a task the user *)
(* has started: start brings the button, and done takes both away.         *)
StartedOK(u) ==
    \A m \in recent_msg_ids[u] :
        chat[u][m].kb = "kb_task_closing" => <<u, chat[u][m].about>> \in started

UserOK(u) == ListOK(u) /\ ClickedOK(u) /\ BlockingOK(u) /\ StartedOK(u)

WorkInv ==
    /\ WorkTypeOK
    /\ IssuesOK
    /\ \A u \in Users : UserOK(u)
    /\ again = {}

RosterInv ==
    /\ IssuesOK
    /\ contractors \subseteq Users
    /\ v_contractors \subseteq contractors
    /\ contractors \subseteq v_allowed_contractors \cup unannounced
    /\ \A i \in Issues : issues[i] \in Users => issues[i] \in v_contractors

-----------------------------------------------------------------------------
(* The sessions of this module are those of SessionStore. *)

LEMMA StepIsSessionStep == [Next]_vars => [NextSessions]_sessions
<1>1. SUFFICES ASSUME [Next]_vars PROVE [NextSessions]_sessions
  OBVIOUS
<1>2. ASSUME NEW u \in Users, ContractorMessage(u) PROVE NextSessions
  BY <1>2 DEF ContractorMessage, OtherMessage, Start, MenuUnanswered,
              AddContractor, NextSessions
<1>3. ASSUME NEW u \in Users, ContractorButton(u) PROVE NextSessions
  <2>1. Press(u) \/ \E r \in Users : Decide(u, r)
    BY <1>3 DEF ContractorButton, PressWithoutEffect, KeyDecision,
                OpenDialogue, MyTasks, StartSolving, StartUnanswered,
                CanStart, TaskClosing, ClosingNotAnswered,
                ClosingUnanswered, CanClose
  <2> QED BY <2>1 DEF NextSessions
<1>4. CASE UNCHANGED vars
  BY <1>4 DEF vars
<1>5. CASE Time \/ Restart
  BY <1>5 DEF Time, Restart, NextSessions
<1>6. CASE CheckerRestart \/ \E i \in Issues : Board(i)
  BY <1>6 DEF CheckerRestart, Board
<1> QED BY <1>1, <1>2, <1>3, <1>4, <1>5, <1>6 DEF Next

(* Every behaviour of the contractors' work is one of the session store:   *)
(* what SessionStore promises holds for the sessions here.                 *)
THEOREM WorkUsesTheSessionStore == Spec => SessionSpec
<1>1. Init => InitSessions
  BY DEF Init
<1> QED BY <1>1, StepIsSessionStep, PTL DEF Spec, SessionSpec

THEOREM WorkSessionsInUseAreKept == Spec => SessionsInUseStay
BY WorkUsesTheSessionStore, SessionsInUseAreKept, PTL

THEOREM WorkIdleSessionsGo == Spec => []IdleSessionsGo
BY WorkUsesTheSessionStore, IdleSessionsAreEvicted, PTL

-----------------------------------------------------------------------------
(* Whoever is given a task is known to chanserv. *)

LEMMA RosterInit == Init => RosterInv
BY WorkAssumption DEF Init, RosterInv, IssuesOK

LEMMA RosterStep == RosterInv /\ [Next]_vars => RosterInv'
<1>1. SUFFICES ASSUME RosterInv, [Next]_vars PROVE RosterInv'
  OBVIOUS
<1>2. ASSUME NEW u \in Users, NEW v \in Users, NEW sent \in BOOLEAN,
             AddContractor(u, v, sent)
      PROVE RosterInv'
  BY <1>1, <1>2 DEF AddContractor, Announced, Reloaded, RosterInv, IssuesOK
<1>3. ASSUME UNCHANGED rosters, IssuesOK',
             \A i \in Issues : issues'[i] \in Users =>
                  issues'[i] = issues[i] \/ issues'[i] \in v_contractors
      PROVE RosterInv'
  BY <1>1, <1>3 DEF RosterInv, rosters
<1>4. ASSUME NEW u \in Users,
             OtherMessage(u) \/ Start(u) \/ MenuUnanswered(u)
      PROVE  RosterInv'
  BY <1>1, <1>3, <1>4
     DEF OtherMessage, Start, MenuUnanswered, RosterInv, IssuesOK
<1>5. ASSUME NEW u \in Users, ContractorButton(u) PROVE RosterInv'
  <2>1. CASE UNCHANGED <<issues, rosters>>
    BY <1>1, <2>1, <1>3 DEF RosterInv, IssuesOK
  <2>2. ASSUME NEW m \in Messages(u), NEW deleted \in BOOLEAN,
               TaskClosing(u, m, deleted)
        PROVE RosterInv'
    <3>1. /\ IssuesOK'
          /\ \A i \in Issues : issues'[i] = issues[i] \/ issues'[i] = NoRow
      BY <1>1, <2>2 DEF TaskClosing, RosterInv, IssuesOK
    <3> QED BY <3>1, <2>2, <1>3, WorkAssumption DEF TaskClosing
  <2> QED
    BY <1>5, <2>1, <2>2
       DEF ContractorButton, PressWithoutEffect, KeyDecision, OpenDialogue,
           MyTasks, StartSolving, StartUnanswered, ClosingNotAnswered,
           ClosingUnanswered, history
<1>6. ASSUME NEW i \in Issues, Board(i) PROVE RosterInv'
  <2>1. /\ IssuesOK'
        /\ \A j \in Issues : issues'[j] \in Users =>
                  issues'[j] = issues[j] \/ issues'[j] \in v_contractors
    BY <1>1, <1>6, WorkAssumption
       DEF Board, RowAssigned, RowTakenBack, RowRemoved, RosterInv, IssuesOK
  <2> QED BY <1>3, <1>6, <2>1 DEF Board
<1>7. CASE Time
  BY <1>1, <1>3, <1>7 DEF Time, RosterInv, IssuesOK
<1>8. CASE Restart
  BY <1>1, <1>8 DEF Restart, RosterInv, IssuesOK
<1>9. CASE CheckerRestart
  BY <1>1, <1>9 DEF CheckerRestart, RosterInv, IssuesOK
<1>10. CASE UNCHANGED vars
  BY <1>1, <1>3, <1>10 DEF vars, RosterInv, IssuesOK
<1> QED
  BY <1>1, <1>2, <1>4, <1>5, <1>6, <1>7, <1>8, <1>9, <1>10
     DEF Next, ContractorMessage

(* Whoever listchecker gives a task to is on the list of contractors       *)
(* chanserv knows, unless the answer after his addition failed: the two    *)
(* processes may read the table whenever they like.                        *)
THEOREM AssignedAreKnown == Spec => []AssignedCanList
<1>1. RosterInv => AssignedCanList
  BY DEF RosterInv, AssignedCanList
<1> QED BY <1>1, RosterInit, RosterStep, PTL DEF Spec

-----------------------------------------------------------------------------
(* What a step leaves alone *)

LEMMA StaysOK ==
    ASSUME NEW v \in Users, UserOK(v),
           chat'[v] = chat[v],
           \/ clicked_msg_id'[v] = clicked_msg_id[v]
              /\ recent_msg_ids'[v] = recent_msg_ids[v]
              /\ unsure'[v] = unsure[v]
           \/ clicked_msg_id'[v] = 0
              /\ recent_msg_ids'[v] \in {recent_msg_ids[v], {}},
           \A i \in Issues : <<v, i>> \in started => <<v, i>> \in started'
    PROVE  UserOK(v)'
<1>1. Messages(v)' = Messages(v)
  BY DEF Messages
<1>2. ListOK(v)'
  BY <1>1 DEF UserOK, ListOK
<1>3. 0 \notin recent_msg_ids[v]
  BY DEF UserOK, ListOK, Messages
<1>4. ClickedOK(v)'
  BY <1>1 DEF UserOK, ClickedOK, NewestMenu
<1>5. BlockingOK(v)'
  BY <1>3 DEF UserOK, BlockingOK
<1>6. StartedOK(v)'
  BY DEF UserOK, ListOK, StartedOK
<1> QED BY <1>2, <1>4, <1>5, <1>6 DEF UserOK

(* A message makes sessions forget, and nothing else. *)
LEMMA RememberedEffect ==
    ASSUME WorkTypeOK, NEW u \in Users,
           clicked_msg_id' = Remembered(clicked_msg_id, u, 0),
           recent_msg_ids' = Remembered(recent_msg_ids, u, {})
    PROVE  /\ clicked_msg_id' \in [Users -> Nat]
           /\ recent_msg_ids' \in [Users -> SUBSET Nat]
           /\ \A v \in Users :
                \/ clicked_msg_id'[v] = clicked_msg_id[v]
                   /\ recent_msg_ids'[v] = recent_msg_ids[v]
                \/ clicked_msg_id'[v] = 0 /\ recent_msg_ids'[v] = {}
BY DEF WorkTypeOK, Remembered

LEMMA ShowKeyboardEffect ==
    ASSUME WorkTypeOK, NEW u \in Users, NEW m \in Messages(u),
           NEW kb \in Keyboards, ShowKeyboard(u, m, kb)
    PROVE  /\ chat' \in [Users -> Seq(Message)]
           /\ \A v \in Users : v # u => chat'[v] = chat[v]
           /\ Messages(u)' = Messages(u)
           /\ \A n \in Messages(u) :
                /\ chat'[u][n].about = chat[u][n].about
                /\ n # m => chat'[u][n].kb = chat[u][n].kb
           /\ chat'[u][m].kb = kb
<1> DEFINE shown == [chat[u][m] EXCEPT !.kb = kb]
           texts == [chat[u] EXCEPT ![m] = shown]
<1>1. chat[u] \in Seq(Message)
  BY DEF WorkTypeOK
<1>2. chat[u][m] \in Message
  BY <1>1 DEF Messages
<1>3. /\ shown \in Message
      /\ shown.about = chat[u][m].about
      /\ shown.kb = kb
  BY <1>2 DEF Message
<1>4. /\ texts \in Seq(Message)
      /\ Len(texts) = Len(chat[u])
      /\ \A n \in Messages(u) : texts[n] = IF n = m THEN shown ELSE chat[u][n]
  <2> HIDE DEF shown
  <2> QED BY <1>1, <1>3, ExceptSeq DEF Messages
<1>5. chat' = [chat EXCEPT ![u] = texts]
  BY DEF ShowKeyboard
<1> HIDE DEF shown, texts
<1>6. chat'[u] = texts
  BY <1>5 DEF WorkTypeOK
<1> QED BY <1>3, <1>4, <1>5, <1>6 DEF WorkTypeOK, Messages

-----------------------------------------------------------------------------
(* Messages of a user *)

LEMMA WorkInit == Init => WorkInv
<1>1. SUFFICES ASSUME Init PROVE WorkInv
  OBVIOUS
<1>2. WorkTypeOK /\ IssuesOK /\ again = {}
  BY <1>1 DEF Init, WorkTypeOK, IssuesOK
<1>3. \A u \in Users : UserOK(u)
  BY <1>1 DEF Init, UserOK, ListOK, ClickedOK, BlockingOK, StartedOK
<1> QED BY <1>2, <1>3 DEF WorkInv

LEMMA MessageKeeps ==
    ASSUME WorkInv, NEW u \in Users,
           clicked_msg_id' = Remembered(clicked_msg_id, u, 0),
           recent_msg_ids' = Remembered(recent_msg_ids, u, {}),
           UNCHANGED <<chat, issues, history>>
    PROVE  WorkInv'
<1>1. WorkTypeOK' /\ IssuesOK' /\ (again = {})'
  BY RememberedEffect DEF WorkInv, WorkTypeOK, IssuesOK, history
<1>2. \A v \in Users : UserOK(v)'
  BY RememberedEffect, StaysOK DEF WorkInv, history
<1> QED BY <1>1, <1>2 DEF WorkInv

(* /start: the menu is the clicked message, and no task.  If its answer    *)
(* was lost, the one before stays the newest that counts.                  *)
LEMMA MenuKeeps ==
    ASSUME WorkInv, NEW u \in Users, Start(u) \/ MenuUnanswered(u)
    PROVE  WorkInv'
<1> DEFINE k    == Len(chat[u]) + 1
           menu == [about |-> Menu, kb |-> MenuOf(u)]
           rest == Remembered(clicked_msg_id, u, 0)
           more == unsure[u] \cup {k}
<1>1. chat[u] \in Seq(Message) /\ menu \in Message /\ k \in Nat
  <2>1. chat[u] \in Seq(Message)
    BY DEF WorkInv, WorkTypeOK
  <2>2. MenuOf(u) \in Keyboards
    BY DEF MenuOf, Keyboards
  <2>3. menu \in Message
    BY <2>2 DEF Message
  <2> QED BY <2>1, <2>3
<1>2. /\ Append(chat[u], menu) \in Seq(Message)
      /\ Len(Append(chat[u], menu)) = k
      /\ \A n \in Messages(u) : Append(chat[u], menu)[n] = chat[u][n]
      /\ Append(chat[u], menu)[k] = menu
  <2> HIDE DEF menu
  <2> QED BY <1>1, AppendProperties DEF Messages
<1>3. /\ chat' = [chat EXCEPT ![u] = Append(chat[u], menu)]
      /\ recent_msg_ids' = Remembered(recent_msg_ids, u, {})
      /\ UNCHANGED <<issues, started, again>>
      /\ \/ clicked_msg_id' = [rest EXCEPT ![u] = k] /\ unsure' = unsure
         \/ clicked_msg_id' = rest /\ unsure' = [unsure EXCEPT ![u] = more]
  BY DEF Start, MenuUnanswered, MenuSent, history
<1>4. /\ rest \in [Users -> Nat]
      /\ recent_msg_ids' \in [Users -> SUBSET Nat]
      /\ \A v \in Users :
            \/ rest[v] = clicked_msg_id[v]
               /\ recent_msg_ids'[v] = recent_msg_ids[v]
            \/ rest[v] = 0 /\ recent_msg_ids'[v] = {}
  BY <1>3 DEF WorkInv, WorkTypeOK, Remembered
<1> HIDE DEF rest
<1>5. WorkTypeOK' /\ IssuesOK' /\ (again = {})'
  <2>1. more \in SUBSET Nat /\ unsure \in [Users -> SUBSET Nat]
    BY <1>1 DEF WorkInv, WorkTypeOK
  <2> HIDE DEF more, menu, k
  <2>2. clicked_msg_id' \in [Users -> Nat] /\ unsure' \in [Users -> SUBSET Nat]
    BY <1>1, <1>3, <1>4, <2>1
  <2> QED BY <1>2, <1>3, <1>4, <2>2 DEF WorkInv, WorkTypeOK, IssuesOK
<1>6. ASSUME NEW v \in Users, v # u PROVE UserOK(v)'
  BY <1>3, <1>4, <1>6, StaysOK DEF WorkInv, WorkTypeOK
<1>7. UserOK(u)'
  <2>1. /\ chat'[u] = Append(chat[u], menu)
        /\ recent_msg_ids'[u] \subseteq recent_msg_ids[u]
        /\ Messages(u)' = 1 .. k
    BY <1>2, <1>3, <1>4 DEF WorkInv, WorkTypeOK, Messages
  <2>2. \/ clicked_msg_id'[u] = k /\ unsure'[u] = unsure[u]
        \/ /\ unsure'[u] = more
           /\ \/ clicked_msg_id'[u] = 0
              \/ /\ clicked_msg_id'[u] = clicked_msg_id[u]
                 /\ recent_msg_ids'[u] = recent_msg_ids[u]
    <3> HIDE DEF k, more
    <3> QED BY <1>3, <1>4 DEF WorkInv, WorkTypeOK
  <2>3. recent_msg_ids[u] \subseteq Messages(u) /\ k \notin Messages(u)
    BY <1>1 DEF WorkInv, UserOK, ListOK, Messages
  <2>4. /\ \A n \in Messages(u) : chat'[u][n] = chat[u][n]
        /\ chat'[u][k].about = Menu
    <3>1. \A n \in Messages(u) : chat'[u][n] = chat[u][n]
      BY <1>2, <2>1
    <3>2. chat'[u][k] = menu
      <4> HIDE DEF menu, k
      <4> QED BY <1>2, <2>1
    <3> QED BY <3>1, <3>2
  <2>5. ListOK(u)'
    BY <1>1, <2>1, <2>3, <2>4 DEF WorkInv, UserOK, ListOK, Messages
  <2>6. Messages(u)' = Messages(u) \cup {k} /\ \A n \in Messages(u) : k > n
    BY <1>1, <2>1 DEF Messages
  <2>7. ClickedOK(u)'
    <3>1. CASE clicked_msg_id'[u] = k
      <4>1. ~\E n \in Messages(u)' : n > k
        BY <1>1, <2>1
      <4> QED BY <2>4, <2>6, <3>1, <4>1 DEF ClickedOK, NewestMenu
    <3>2. CASE clicked_msg_id'[u] = 0
      BY <3>2 DEF ClickedOK
    <3>3. CASE /\ unsure'[u] = more
               /\ clicked_msg_id'[u] = clicked_msg_id[u]
               /\ recent_msg_ids'[u] = recent_msg_ids[u]
               /\ clicked_msg_id[u] # 0
      <4> DEFINE c == clicked_msg_id[u]
      <4>1. /\ c \in Messages(u)
            /\ NewestMenu(u, c) \/ c \in recent_msg_ids[u]
        BY <3>3 DEF WorkInv, UserOK, ClickedOK
      <4>2. NewestMenu(u, c) => NewestMenu(u, clicked_msg_id[u])'
        <5> HIDE DEF k
        <5> QED BY <2>4, <2>6, <3>3, <4>1 DEF NewestMenu
      <4> QED BY <2>6, <3>3, <4>1, <4>2 DEF ClickedOK
    <3> QED BY <2>2, <3>1, <3>2, <3>3
  <2>8. BlockingOK(u)'
    <3>1. 0 \notin recent_msg_ids[u]
      BY <2>3 DEF Messages
    <3> QED BY <2>1, <2>2, <2>3, <2>4, <3>1
            DEF WorkInv, UserOK, BlockingOK
  <2>9. StartedOK(u)'
    <3>1. \A n \in recent_msg_ids'[u] :
             n \in recent_msg_ids[u] /\ chat'[u][n] = chat[u][n]
      BY <2>1, <2>3, <2>4
    <3>2. StartedOK(u)
      BY DEF WorkInv, UserOK
    <3>3. ASSUME NEW n \in recent_msg_ids'[u],
                 chat'[u][n].kb = "kb_task_closing"
          PROVE  <<u, chat'[u][n].about>> \in started'
      <4>1. <<u, chat[u][n].about>> \in started
        BY <3>1, <3>2, <3>3 DEF StartedOK
      <4>2. chat'[u][n] = chat[u][n] /\ started' = started
        BY <1>3, <3>1
      <4> QED BY <4>1, <4>2
    <3> QED BY <3>3 DEF StartedOK
  <2> QED BY <2>5, <2>7, <2>8, <2>9 DEF UserOK
<1> QED BY <1>5, <1>6, <1>7 DEF WorkInv

-----------------------------------------------------------------------------
(* Buttons of a user *)

(* A new list has a message for each row, at the end of the chat. *)
LEMMA MyTasksKeeps ==
    ASSUME WorkInv, NEW u \in Users, MyTasks(u)
    PROVE  WorkInv'
<1> DEFINE mine == {i \in Issues : issues[i] = u}
           k    == Len(chat[u])
<1>1. PICK list \in Orders(mine) \cup {<<>>} :
         /\ chat' = [chat EXCEPT ![u] = chat[u] \o ListOf(list)]
         /\ recent_msg_ids' = [recent_msg_ids EXCEPT ![u] =
                                 {k + n : n \in DOMAIN list}]
  BY DEF MyTasks
<1>2. /\ clicked_msg_id' = [clicked_msg_id EXCEPT ![u] = 0]
      /\ unsure' = [unsure EXCEPT ![u] = {}]
      /\ UNCHANGED <<issues, started, again>>
  BY DEF MyTasks
<1>3. PICK c \in Nat : /\ list \in [1 .. c -> mine]
                       /\ \A n, l \in 1 .. c : list[n] = list[l] => n = l
  <2>1. CASE list = <<>>
    <3>1. list \in [1 .. 0 -> mine] /\ 1 .. 0 = {}
      BY <2>1
    <3> QED BY <3>1
  <2>2. CASE list \in Orders(mine)
    <3>1. /\ list \in [1 .. Cardinality(mine) -> mine]
          /\ \A n, l \in DOMAIN list : list[n] = list[l] => n = l
      BY <2>2 DEF Orders, IsInjective
    <3>2. IsFiniteSet(mine)
      BY WorkAssumption, FS_Subset
    <3>3. Cardinality(mine) \in Nat
      BY <3>2, FS_CardinalityType
    <3> QED BY <3>1, <3>3
  <2> QED BY <2>1, <2>2
<1>4. /\ ListOf(list) \in Seq(Message)
      /\ Len(ListOf(list)) = c
      /\ \A n \in 1 .. c : /\ ListOf(list)[n].about = list[n]
                           /\ ListOf(list)[n].kb = "kb_start_solving"
  BY <1>3 DEF ListOf, Message, Keyboards
<1>5. chat[u] \in Seq(Message) /\ k \in Nat
  BY DEF WorkInv, WorkTypeOK
<1>6. /\ chat[u] \o ListOf(list) \in Seq(Message)
      /\ Len(chat[u] \o ListOf(list)) = k + c
      /\ \A n \in 1 .. c : (chat[u] \o ListOf(list))[k + n] = ListOf(list)[n]
  <2>1. \A n \in 1 .. c : k + n \in 1 .. k + c /\ ~(k + n <= k)
                            /\ (k + n) - k = n
    BY <1>3, <1>5
  <2> HIDE DEF k, mine
  <2>2. /\ chat[u] \o ListOf(list) \in Seq(Message)
        /\ Len(chat[u] \o ListOf(list)) = Len(chat[u]) + c
        /\ \A n \in 1 .. Len(chat[u]) + c :
              (chat[u] \o ListOf(list))[n] =
                 IF n <= Len(chat[u]) THEN chat[u][n]
                 ELSE ListOf(list)[n - Len(chat[u])]
    BY <1>4, <1>5, ConcatProperties
  <2> QED BY <2>1, <2>2 DEF k
<1>7. WorkTypeOK' /\ IssuesOK' /\ (again = {})'
  <2>1. recent_msg_ids' \in [Users -> SUBSET Nat]
    BY <1>1, <1>3, <1>5 DEF WorkInv, WorkTypeOK
  <2> QED BY <1>1, <1>2, <1>6, <2>1 DEF WorkInv, WorkTypeOK, IssuesOK
<1>8. ASSUME NEW v \in Users, v # u PROVE UserOK(v)'
  BY <1>1, <1>2, <1>8, StaysOK DEF WorkInv, WorkTypeOK
<1>9. UserOK(u)'
  <2>1. /\ chat'[u] = chat[u] \o ListOf(list)
        /\ clicked_msg_id'[u] = 0
        /\ recent_msg_ids'[u] = {k + n : n \in 1 .. c}
        /\ Messages(u)' = 1 .. k + c
    BY <1>1, <1>2, <1>3, <1>6 DEF WorkInv, WorkTypeOK, Messages
  <2>2. /\ \A n \in 1 .. c : /\ chat'[u][k + n].about = list[n]
                             /\ chat'[u][k + n].kb = "kb_start_solving"
        /\ \A m \in recent_msg_ids'[u] : \E n \in 1 .. c : m = k + n
    <3>1. \A n \in 1 .. c : chat'[u][k + n] = ListOf(list)[n]
      BY <1>6, <2>1
    <3>2. \A n \in 1 .. c : /\ chat'[u][k + n].about = list[n]
                            /\ chat'[u][k + n].kb = "kb_start_solving"
      <4> HIDE DEF k
      <4> QED BY <1>4, <3>1
    <3> QED BY <2>1, <3>2
  <2>3. ListOK(u)'
    <3>1. recent_msg_ids'[u] \subseteq Messages(u)'
      <4>1. \A n \in 1 .. c : k + n \in 1 .. k + c
        BY <1>3, <1>5
      <4> HIDE DEF k
      <4> QED BY <2>1, <2>2, <4>1
    <3>2. \A n \in 1 .. c : list[n] \in Issues
      BY <1>3
    <3>3. ASSUME NEW m \in recent_msg_ids'[u], NEW n \in recent_msg_ids'[u],
                 chat'[u][m].about = chat'[u][n].about
          PROVE m = n
      <4>1. PICK a \in 1 .. c : m = k + a
        BY <2>2
      <4>2. PICK b \in 1 .. c : n = k + b
        BY <2>2
      <4>3. list[a] = list[b]
        BY <2>2, <3>3, <4>1, <4>2
      <4> QED BY <1>3, <4>1, <4>2, <4>3
    <3>4. \A m \in recent_msg_ids'[u] : chat'[u][m].about \in Issues
      BY <2>2, <3>2
    <3> QED BY <3>1, <3>3, <3>4 DEF ListOK
  <2>4. ClickedOK(u)' /\ BlockingOK(u)'
    BY <1>3, <1>5, <2>1 DEF ClickedOK, BlockingOK
  <2>5. StartedOK(u)'
    BY <2>2 DEF StartedOK
  <2> QED BY <2>3, <2>4, <2>5 DEF UserOK
<1> QED BY <1>7, <1>8, <1>9 DEF WorkInv

(* A button of a task changes one message of the last list, and of the     *)
(* rows at most the one it is about.                                       *)
LEMMA TaskButtonKeeps ==
    ASSUME WorkInv, NEW u \in Users, NEW m \in Messages(u),
           NEW kb \in {"kb_task_closing", "kb_task_done"},
           Selected(u, m), ShowKeyboard(u, m, kb),
           recent_msg_ids' = recent_msg_ids,
           kb = "kb_task_closing" =>
               /\ clicked_msg_id[u] = 0
               /\ clicked_msg_id' = clicked_msg_id
                  \/ clicked_msg_id' = [clicked_msg_id EXCEPT ![u] = m]
               /\ unsure' = unsure
               /\ started' = started \cup {<<u, chat[u][m].about>>},
           kb = "kb_task_done" =>
             /\ started' = started \ {<<u, chat[u][m].about>>}
             /\ \/ clicked_msg_id' = [clicked_msg_id EXCEPT ![u] = 0]
                   /\ unsure' = unsure
                \/ clicked_msg_id' = clicked_msg_id
                   /\ unsure' = [unsure EXCEPT ![u] = @ \cup {m}],
           \/ issues' = issues
           \/ issues' = [issues EXCEPT ![chat[u][m].about] = NoRow],
           again' = again
    PROVE  WorkInv'
<1> DEFINE i == chat[u][m].about
<1>1. kb \in Keyboards
  BY DEF Keyboards
<1>2. /\ chat' \in [Users -> Seq(Message)]
      /\ \A v \in Users : v # u => chat'[v] = chat[v]
      /\ Messages(u)' = Messages(u)
      /\ \A n \in Messages(u) :
           /\ chat'[u][n].about = chat[u][n].about
           /\ n # m => chat'[u][n].kb = chat[u][n].kb
      /\ chat'[u][m].kb = kb
  BY <1>1, ShowKeyboardEffect DEF WorkInv
<1>3. /\ m \in recent_msg_ids[u] /\ m \in Nat /\ m # 0
      /\ recent_msg_ids[u] \subseteq Messages(u)
      /\ i \in Issues
  BY DEF Selected, Messages, WorkInv, UserOK, ListOK
<1>3a. /\ \/ clicked_msg_id' = clicked_msg_id
         \/ \E k \in {0, m} :
               clicked_msg_id' = [clicked_msg_id EXCEPT ![u] = k]
      /\ \/ unsure' = unsure
         \/ unsure' = [unsure EXCEPT ![u] = unsure[u] \cup {m}]
  <2>1. CASE kb = "kb_task_closing"
    BY <2>1
  <2>2. CASE kb = "kb_task_done"
    BY <2>2
  <2> QED BY <2>1, <2>2
<1>4. WorkTypeOK' /\ IssuesOK' /\ (again = {})'
  <2>1. issues' \in [Issues -> Users \cup {Nobody, NoRow}]
    BY <1>3 DEF WorkInv, IssuesOK
  <2>2. started' \subseteq Users \X Issues
    BY <1>3 DEF WorkInv, WorkTypeOK
  <2>3. clicked_msg_id' \in [Users -> Nat] /\ unsure' \in [Users -> SUBSET Nat]
    <3>1. clicked_msg_id' \in [Users -> Nat]
      BY <1>3, <1>3a DEF WorkInv, WorkTypeOK
    <3>2. unsure' \in [Users -> SUBSET Nat]
      <4>1. unsure[u] \cup {m} \in SUBSET Nat
        BY <1>3 DEF WorkInv, WorkTypeOK
      <4> QED BY <1>3a, <4>1 DEF WorkInv, WorkTypeOK
    <3> QED BY <3>1, <3>2
  <2> QED BY <1>2, <2>1, <2>2, <2>3 DEF WorkInv, WorkTypeOK, IssuesOK
<1>5. \A v \in Users, j \in Issues :
         v # u \/ j # i => (<<v, j>> \in started' <=> <<v, j>> \in started)
  OBVIOUS
<1>6. ASSUME NEW v \in Users, v # u PROVE UserOK(v)'
  <2>1. \A j \in Issues : <<v, j>> \in started => <<v, j>> \in started'
    BY <1>5, <1>6
  <2>2. unsure'[v] = unsure[v] /\ clicked_msg_id'[v] = clicked_msg_id[v]
    <3>1. unsure'[v] = unsure[v]
      BY <1>6, <1>3a DEF WorkInv, WorkTypeOK
    <3>2. clicked_msg_id'[v] = clicked_msg_id[v]
      BY <1>6, <1>3a DEF WorkInv, WorkTypeOK
    <3> QED BY <3>1, <3>2
  <2> QED BY <1>2, <1>6, <2>1, <2>2, StaysOK DEF WorkInv
<1>7. UserOK(u)'
  <2>1. ListOK(u)'
    <3>1. \A n \in recent_msg_ids[u] : chat'[u][n].about = chat[u][n].about
      BY <1>2, <1>3
    <3>2. ListOK(u)
      BY DEF WorkInv, UserOK
    <3> QED BY <1>2, <3>1, <3>2 DEF ListOK
  <2>2. ClickedOK(u)'
    <3>1. /\ clicked_msg_id'[u] \in {clicked_msg_id[u], 0, m}
          /\ unsure[u] \subseteq unsure'[u]
      BY <1>3, <1>3a DEF WorkInv, WorkTypeOK
    <3>2. ASSUME NEW c \in Messages(u), NewestMenu(u, c)
          PROVE  /\ chat'[u][c].about = Menu
                 /\ \A n \in Messages(u)' :
                       n > c /\ chat'[u][n].about = Menu => n \in unsure'[u]
      BY <1>2, <3>1, <3>2 DEF NewestMenu
    <3> QED BY <1>2, <1>3, <3>1, <3>2 DEF WorkInv, UserOK, ClickedOK, NewestMenu
  <2>3. BlockingOK(u)'
    <3>1. CASE kb = "kb_task_closing"
      BY <1>2, <1>3, <3>1
         DEF WorkInv, WorkTypeOK, UserOK, ListOK, BlockingOK, Messages
    <3>2. CASE kb = "kb_task_done"
      <4>1. CASE clicked_msg_id' = [clicked_msg_id EXCEPT ![u] = 0]
        BY <1>3, <4>1 DEF WorkInv, WorkTypeOK, BlockingOK, Messages
      <4>2. CASE /\ clicked_msg_id' = clicked_msg_id
                 /\ unsure' = [unsure EXCEPT ![u] = @ \cup {m}]
        <5>1. unsure'[u] = unsure[u] \cup {m}
          BY <4>2 DEF WorkInv, WorkTypeOK
        <5> QED BY <1>2, <1>3, <4>2, <5>1 DEF WorkInv, UserOK, BlockingOK
      <4> QED BY <3>2, <4>1, <4>2
    <3> QED BY <3>1, <3>2
  <2>4. StartedOK(u)'
    <3>1. SUFFICES ASSUME NEW n \in recent_msg_ids[u],
                          chat'[u][n].kb = "kb_task_closing"
                   PROVE  <<u, chat[u][n].about>> \in started'
      BY <1>2, <1>3 DEF StartedOK
    <3>2. CASE n = m
      BY <1>2, <3>1, <3>2
    <3>3. CASE n # m
      <4>1. <<u, chat[u][n].about>> \in started
        BY <1>2, <1>3, <3>1, <3>3 DEF WorkInv, UserOK, StartedOK
      <4>2. chat[u][n].about # i /\ chat[u][n].about \in Issues
        BY <1>3, <3>1, <3>3 DEF WorkInv, UserOK, ListOK
      <4> QED BY <1>5, <4>1, <4>2
    <3> QED BY <3>2, <3>3
  <2> QED BY <2>1, <2>2, <2>3, <2>4 DEF UserOK
<1> QED BY <1>4, <1>6, <1>7 DEF WorkInv

LEMMA ButtonKeeps ==
    ASSUME WorkInv, NEW u \in Users, ContractorButton(u)
    PROVE  WorkInv'
<1>1. ASSUME UNCHANGED <<chat, memory, issues, history>> PROVE WorkInv'
  <2>1. WorkTypeOK' /\ IssuesOK' /\ (again = {})'
    BY <1>1 DEF WorkInv, WorkTypeOK, IssuesOK, memory, history
  <2> QED BY <1>1, <2>1, StaysOK DEF WorkInv, memory, history
<1>2. CASE PressWithoutEffect(u) \/ \E r \in Users : KeyDecision(u, r)
  BY <1>1, <1>2 DEF PressWithoutEffect, KeyDecision
<1>3. CASE OpenDialogue(u)
  <2>1. /\ clicked_msg_id' = [clicked_msg_id EXCEPT ![u] = 0]
        /\ UNCHANGED <<chat, recent_msg_ids, issues, history>>
    BY <1>3 DEF OpenDialogue
  <2>2. WorkTypeOK' /\ IssuesOK' /\ (again = {})'
    BY <2>1 DEF WorkInv, WorkTypeOK, IssuesOK, history
  <2>3. ASSUME NEW v \in Users PROVE UserOK(v)'
    BY <2>1, StaysOK DEF WorkInv, WorkTypeOK, history
  <2> QED BY <2>2, <2>3 DEF WorkInv
<1>4. CASE MyTasks(u)
  BY <1>4, MyTasksKeeps
<1>5. ASSUME NEW m \in Messages(u), StartSolving(u, m) \/ StartUnanswered(u, m)
      PROVE WorkInv'
  BY <1>5, TaskButtonKeeps DEF StartSolving, StartUnanswered, CanStart, memory
<1>6. ASSUME NEW m \in Messages(u),
             ClosingNotAnswered(u, m) \/ ClosingUnanswered(u, m)
      PROVE WorkInv'
  BY <1>6, TaskButtonKeeps
     DEF ClosingNotAnswered, ClosingUnanswered, CanClose, ShowDone, memory
<1>7. ASSUME NEW m \in Messages(u), NEW deleted \in BOOLEAN,
             TaskClosing(u, m, deleted)
      PROVE WorkInv'
  <2>1. /\ Selected(u, m)
        /\ chat[u][m].kb = "kb_task_closing"
        /\ ShowKeyboard(u, m, "kb_task_done")
        /\ started' = started \ {<<u, chat[u][m].about>>}
        /\ clicked_msg_id' = [clicked_msg_id EXCEPT ![u] = 0]
        /\ \/ issues' = issues
           \/ issues' = [issues EXCEPT ![chat[u][m].about] = NoRow]
        /\ UNCHANGED <<recent_msg_ids, unsure>>
    BY <1>7 DEF TaskClosing, CanClose, Replaceable, ShowDone
  <2>2. <<u, chat[u][m].about>> \in started
    BY <2>1 DEF Selected, WorkInv, UserOK, StartedOK
  <2>3. again' = again
    BY <1>7, <2>2 DEF TaskClosing, Told
  <2> QED BY <2>1, <2>3, TaskButtonKeeps
<1> QED
  BY <1>2, <1>3, <1>4, <1>5, <1>6, <1>7 DEF ContractorButton

LEMMA BoardKeeps ==
    ASSUME WorkInv, NEW i \in Issues, Board(i)
    PROVE  WorkInv'
<1>1. UNCHANGED <<chat, clicked_msg_id, recent_msg_ids, unsure, started,
                  again>>
  BY DEF Board, memory, history
<1>2. issues' \in [Issues -> Users \cup {Nobody, NoRow}]
  BY WorkAssumption
     DEF WorkInv, IssuesOK, Board, RowAssigned, RowTakenBack, RowRemoved
<1>3. WorkTypeOK' /\ IssuesOK' /\ (again = {})'
  BY <1>1, <1>2 DEF WorkInv, WorkTypeOK, IssuesOK
<1> QED BY <1>1, <1>2, <1>3, StaysOK DEF WorkInv

LEMMA RestartKeeps ==
    ASSUME WorkInv, Restart
    PROVE  WorkInv'
<1>1. /\ clicked_msg_id' = [u \in Users |-> 0]
      /\ recent_msg_ids' = [u \in Users |-> {}]
      /\ unsure' = [u \in Users |-> {}]
      /\ UNCHANGED <<chat, issues, started, again>>
  BY DEF Restart
<1>2. WorkTypeOK' /\ IssuesOK' /\ (again = {})'
  BY <1>1 DEF WorkInv, WorkTypeOK, IssuesOK
<1> QED BY <1>1, <1>2, StaysOK DEF WorkInv

LEMMA WorkStep == WorkInv /\ [Next]_vars => WorkInv'
<1>1. SUFFICES ASSUME WorkInv, [Next]_vars PROVE WorkInv'
  OBVIOUS
<1>2. ASSUME NEW u \in Users, ContractorMessage(u) PROVE WorkInv'
  <2>1. CASE Start(u) \/ MenuUnanswered(u)
    BY <1>1, <2>1, MenuKeeps
  <2>2. CASE OtherMessage(u)
    BY <1>1, <2>2, MessageKeeps DEF OtherMessage
  <2>3. ASSUME NEW v \in Users, NEW sent \in BOOLEAN, AddContractor(u, v, sent)
        PROVE WorkInv'
    BY <1>1, <2>3, MessageKeeps DEF AddContractor
  <2> QED BY <1>2, <2>1, <2>2, <2>3 DEF ContractorMessage
<1>3. ASSUME NEW u \in Users, ContractorButton(u) PROVE WorkInv'
  BY <1>1, <1>3, ButtonKeeps
<1>4. ASSUME NEW i \in Issues, Board(i) PROVE WorkInv'
  BY <1>1, <1>4, BoardKeeps
<1>5. CASE Restart
  BY <1>1, <1>5, RestartKeeps
<1>6. CASE Time \/ CheckerRestart \/ UNCHANGED vars
  <2>1. UNCHANGED <<chat, memory, issues, history>>
    BY <1>6 DEF Time, CheckerRestart, vars
  <2>2. WorkTypeOK' /\ IssuesOK' /\ (again = {})'
    BY <1>1, <2>1 DEF WorkInv, WorkTypeOK, IssuesOK, memory, history
  <2> QED BY <1>1, <2>1, <2>2, StaysOK DEF WorkInv, memory, history
<1> QED BY <1>1, <1>2, <1>3, <1>4, <1>5, <1>6 DEF Next

THEOREM WorkInvariant == Spec => []WorkInv
BY WorkInit, WorkStep, PTL DEF Spec

-----------------------------------------------------------------------------
(* The clicked message is the newest menu whose answer arrived (later ones *)
(* have lost theirs) or a task of the last list, so the buttons of menus   *)
(* before it and of earlier lists stay without effect.                     *)
THEOREM OldButtonsAreIdle == Spec => []ClickedIsCurrent
<1>1. WorkInv => ClickedIsCurrent
  BY DEF WorkInv, UserOK, ClickedOK, ClickedIsCurrent
<1> QED BY <1>1, WorkInvariant, PTL

(* A started task that keeps its contractor from starting another one      *)
(* shows the button that ends it.                                          *)
THEOREM StartedTaskCanBeFinished == Spec => []BlockingTaskCanBeFinished
<1>1. WorkInv => BlockingTaskCanBeFinished
  BY DEF WorkInv, UserOK, BlockingOK, BlockingTaskCanBeFinished
<1> QED BY <1>1, WorkInvariant, PTL

(* Between two announcements that a contractor has finished a task he has  *)
(* started it again: however often he presses the button, asks for his     *)
(* list or comes back after a restart.  Each contractor has his own count. *)
THEOREM TasksAreFinishedOnce == Spec => []FinishedOncePerStart
<1>1. WorkInv => FinishedOncePerStart
  BY DEF WorkInv, FinishedOncePerStart
<1> QED BY <1>1, WorkInvariant, PTL

-----------------------------------------------------------------------------
(* The table issues between the two processes *)

(* What Board assumes of listchecker is all that IssueTable lets it do     *)
(* with a row, for a contractor it knows: with PassesKeepTheTable of       *)
(* ListCheckerProofs, no step of a pass on one row is missing here, and    *)
(* one that deletes several rows is one of Board for each.                 *)
THEOREM BoardIsTheTable ==
    ASSUME IssuesOK, NEW i \in Issues,
           UNCHANGED <<sessions, chat, memory, rosters, history>>,
           \/ \E u \in v_contractors \cap Users : Table!Assign(i, u)
           \/ Table!TakeBack(i)
           \/ Table!Remove({i})
    PROVE  Board(i) \/ UNCHANGED vars
<1>1. ASSUME NEW u \in v_contractors \cap Users, Table!Assign(i, u)
      PROVE  Board(i)
  BY <1>1 DEF Table!Assign, Board, RowAssigned
<1>2. CASE Table!TakeBack(i)
  BY <1>2 DEF Table!TakeBack, Board, RowTakenBack
<1>3. CASE Table!Remove({i})
  <2>1. issues' = [issues EXCEPT ![i] = NoRow]
    BY <1>3 DEF Table!Remove, IssuesOK
  <2>2. CASE issues[i] = NoRow
    BY <2>1, <2>2 DEF IssuesOK, vars
  <2>3. CASE issues[i] # NoRow
    BY <2>1, <2>3 DEF Board, RowRemoved
  <2> QED BY <2>2, <2>3
<1> QED BY <1>1, <1>2, <1>3

TableNext == [Table!Next]_<<Issues, issues>>

(* A row that goes, or none: a step of the table. *)
LEMMA RowGoes ==
    ASSUME IssuesOK, NEW i,
           issues' = issues \/ issues' = [issues EXCEPT ![i] = NoRow]
    PROVE  TableNext
<1>1. CASE issues' = issues
  BY <1>1 DEF TableNext
<1>2. CASE issues' = [issues EXCEPT ![i] = NoRow]
  <2> DEFINE S == {i} \cap Issues
  <2>1. issues' = [t \in Issues |-> IF t \in S THEN NoRow ELSE issues[t]]
    BY <1>2 DEF IssuesOK
  <2>2. Table!Remove(S)
    BY <2>1 DEF Table!Remove
  <2> QED BY <2>2 DEF TableNext, Table!Next
<1> QED BY <1>1, <1>2

LEMMA StepIsTableStep == IssuesOK /\ [Next]_vars => TableNext
<1>1. SUFFICES ASSUME IssuesOK, [Next]_vars PROVE TableNext
  OBVIOUS
<1>2. CASE UNCHANGED issues
  BY <1>2 DEF TableNext
<1>3. ASSUME NEW u \in Users, NEW m \in Messages(u), NEW deleted \in BOOLEAN,
             TaskClosing(u, m, deleted)
      PROVE  TableNext
  BY <1>1, <1>3, RowGoes DEF TaskClosing
<1>4. ASSUME NEW i \in Issues, Board(i) PROVE TableNext
  <2>1. ASSUME NEW u \in Users, RowAssigned(i, u) PROVE Table!Assign(i, u)
    BY <2>1 DEF RowAssigned, Table!Assign
  <2>2. CASE RowTakenBack(i)
    <3>1. Table!TakeBack(i)
      BY <2>2 DEF RowTakenBack, Table!TakeBack
    <3> QED BY <3>1 DEF TableNext, Table!Next
  <2>3. CASE RowRemoved(i)
    BY <1>1, <2>3, RowGoes DEF RowRemoved
  <2> QED BY <1>4, <2>1, <2>2, <2>3 DEF Board, TableNext, Table!Next
<1>5. ASSUME NEW u \in Users, ContractorMessage(u) PROVE UNCHANGED issues
  BY <1>5 DEF ContractorMessage, OtherMessage, Start, MenuUnanswered,
              AddContractor
<1>6. ASSUME NEW u \in Users, ContractorButton(u) PROVE TableNext
  BY <1>2, <1>3, <1>6
     DEF ContractorButton, PressWithoutEffect, KeyDecision, OpenDialogue,
         MyTasks, StartSolving, StartUnanswered, ClosingNotAnswered,
         ClosingUnanswered
<1> QED BY <1>1, <1>2, <1>4, <1>5, <1>6
           DEF Next, Time, Restart, CheckerRestart, vars

(* The buttons of chanserv keep the table, too: a task is finished without *)
(* a look at whose it is now, and still only ever loses its row.           *)
THEOREM ButtonsKeepTheTable == Spec => ImplementsIssueTable
<1>1. Init => Table!Init
  BY DEF Init, Table!Init
<1>2. WorkInv => IssuesOK
  BY DEF WorkInv
<1>3. IssuesOK /\ [Next]_vars => TableNext
  BY StepIsTableStep
<1> QED BY <1>1, <1>2, <1>3, WorkInit, WorkStep, PTL
           DEF Spec, ImplementsIssueTable, Table!Spec, TableNext
=============================================================================
