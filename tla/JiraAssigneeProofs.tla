-------------------------- MODULE JiraAssigneeProofs --------------------------
(***************************************************************************)
(* An assignment of a Jira issue brings its assignee at most one letter,   *)
(* unless the process was started in between, and the map of the notified  *)
(* assignees is right about every issue no webhook of which is under way.  *)
(* Both need that the answer in hand is no older than the last assignment  *)
(* the bot has heard of.                                                   *)
(***************************************************************************)
EXTENDS JiraAssignee, SequenceTheorems, TLAPS

(* The issue of the webhook in hand. *)
InHand(i) == fetched # Nothing /\ Head(m_tasks) = i

(* A letter went to the assignee: the map names him, and so does an answer *)
(* in hand about his issue.                                                *)
MailedIsKnown ==
    \A i \in Issues :
        i \notin forgotten /\ letters[i] # 0 =>
            /\ m_notified_assignee_[i] = tolower[assignee[i]]
            /\ InHand(i) => tolower[fetched] = tolower[assignee[i]]

LetterInv == TypeOK /\ OneLetterPerAssignment /\ MailedIsKnown

(* No further webhook of the issue in hand is queued: its answer is new.   *)
LastAnswerIsNew ==
    \A i \in Issues :
        InHand(i) /\ i \notin missed /\ ~Queued(i, Tail(m_tasks))
            => tolower[fetched] = tolower[assignee[i]]

MapInv == TypeOK /\ MapIsJirasWhenQuiet /\ LastAnswerIsNew

-----------------------------------------------------------------------------
(* A queue that is not empty is its head and its tail. *)
LEMMA QueuedHeadTail ==
    ASSUME NEW S, NEW q \in Seq(S), q # <<>>, NEW j
    PROVE  /\ Head(q) \in S
           /\ Tail(q) \in Seq(S)
           /\ Queued(j, q) <=> Head(q) = j \/ Queued(j, Tail(q))
<1>1. /\ Head(q) \in S /\ Head(q) = q[1]
      /\ Tail(q) \in Seq(S)
      /\ Len(q) \in Nat /\ Len(q) > 0
      /\ Len(Tail(q)) = Len(q) - 1
      /\ \A n \in 1 .. Len(Tail(q)) : Tail(q)[n] = q[n + 1]
  BY HeadTailProperties
<1>2. DOMAIN q = 1 .. Len(q) /\ DOMAIN Tail(q) = 1 .. Len(Tail(q))
  BY <1>1
<1>3. ASSUME Queued(j, q), Head(q) # j PROVE Queued(j, Tail(q))
  <2>1. PICK n \in 1 .. Len(q) : q[n] = j
    BY <1>2, <1>3 DEF Queued
  <2>2. n - 1 \in 1 .. Len(Tail(q)) /\ Tail(q)[n - 1] = q[n]
    BY <1>1, <1>3, <2>1
  <2> QED
    BY <1>2, <2>1, <2>2 DEF Queued
<1>4. ASSUME Queued(j, Tail(q)) PROVE Queued(j, q)
  <2>1. PICK n \in 1 .. Len(Tail(q)) : Tail(q)[n] = j
    BY <1>2, <1>4 DEF Queued
  <2>2. n + 1 \in 1 .. Len(q) /\ q[n + 1] = j
    BY <1>1, <2>1
  <2> QED
    BY <1>2, <2>2 DEF Queued
<1>5. Head(q) = j => Queued(j, q)
  BY <1>1, <1>2 DEF Queued
<1> QED
  BY <1>1, <1>3, <1>4, <1>5

(* What a webhook adds to the queue. *)
LEMMA QueuedAppend ==
    ASSUME NEW S, NEW q \in Seq(S), NEW i \in S, NEW j
    PROVE  /\ Append(q, i) \in Seq(S) /\ Append(q, i) # <<>>
           /\ Queued(j, Append(q, i)) <=> Queued(j, q) \/ j = i
           /\ q # <<>> => Head(Append(q, i)) = Head(q)
<1> DEFINE a == Append(q, i)
<1>1. /\ a \in Seq(S)
      /\ Len(q) \in Nat /\ Len(a) = Len(q) + 1
      /\ \A n \in 1 .. Len(q) : a[n] = q[n]
      /\ a[Len(q) + 1] = i
  BY AppendProperties
<1>2. DOMAIN q = 1 .. Len(q) /\ DOMAIN a = 1 .. Len(q) + 1
  BY <1>1
<1>3. a # <<>>
  BY <1>1
<1>4. Queued(j, a) <=> Queued(j, q) \/ j = i
  BY <1>1, <1>2 DEF Queued
<1>5. q # <<>> => Head(a) = Head(q)
  <2>1. q # <<>> => Head(q) = q[1] /\ Len(q) > 0
    BY HeadTailProperties
  <2>2. Head(a) = a[1]
    BY <1>1, <1>3, HeadTailProperties
  <2> QED
    BY <1>1, <2>1, <2>2
<1> QED
  BY <1>1, <1>3, <1>4, <1>5

-----------------------------------------------------------------------------
(* The tail of a queue that is not empty grows with the queue. *)
LEMMA QueuedTailAppend ==
    ASSUME NEW S, NEW q \in Seq(S), q # <<>>, NEW i \in S, NEW j
    PROVE  Queued(j, Tail(Append(q, i))) <=> Queued(j, Tail(q)) \/ j = i
<1> DEFINE a == Append(q, i)
<1>1. /\ a \in Seq(S) /\ a # <<>>
      /\ Len(q) \in Nat /\ Len(q) > 0 /\ Len(a) = Len(q) + 1
      /\ \A n \in 1 .. Len(q) : a[n] = q[n]
      /\ a[Len(q) + 1] = i
  BY AppendProperties, QueuedAppend, HeadTailProperties
<1>2. /\ Tail(q) \in Seq(S) /\ Tail(a) \in Seq(S)
      /\ Len(Tail(q)) = Len(q) - 1 /\ Len(Tail(a)) = Len(q)
      /\ \A n \in 1 .. Len(q) - 1 : Tail(q)[n] = q[n + 1]
      /\ \A n \in 1 .. Len(q) : Tail(a)[n] = a[n + 1]
  BY <1>1, HeadTailProperties
<1>3. DOMAIN Tail(q) = 1 .. Len(q) - 1 /\ DOMAIN Tail(a) = 1 .. Len(q)
  BY <1>1, <1>2
<1>4. /\ \A n \in 1 .. Len(q) - 1 : Tail(a)[n] = Tail(q)[n]
      /\ Tail(a)[Len(q)] = i
  BY <1>1, <1>2
<1> HIDE DEF a
<1>5. Queued(j, Tail(a)) <=> Queued(j, Tail(q)) \/ j = i
  BY <1>1, <1>3, <1>4 DEF Queued
<1> QED
  BY <1>5 DEF a

(* Every step keeps the types of the variables. *)
LEMMA TypePreserved == TypeOK /\ [Next]_vars => TypeOK'
<1> SUFFICES ASSUME TypeOK, [Next]_vars PROVE TypeOK'
  OBVIOUS
<1> USE JiraAssigneeAssumption DEF TypeOK, Assignees
<1>1. ASSUME NEW i \in Issues, NEW e \in Assignees, Edit(i, e)
      PROVE  TypeOK'
  <2>1. Append(m_tasks, i) \in Seq(Issues) /\ Append(m_tasks, i) # <<>>
    BY QueuedAppend
  <2>2. edits + 1 \in 0 .. MaxEdits
    BY <1>1 DEF Edit
  <2> QED
    BY <1>1, <2>1, <2>2 DEF Edit
<1>2. ASSUME m_tasks # <<>>
      PROVE  Head(m_tasks) \in Issues /\ Tail(m_tasks) \in Seq(Issues)
  BY <1>2
<1>3. CASE Fetch
  BY <1>2, <1>3 DEF Fetch, history
<1>4. CASE FetchFailed
  BY <1>2, <1>4 DEF FetchFailed
<1>5. CASE Notify
  <2>1. tolower[fetched] \in Assignees
    BY <1>5 DEF Notify
  <2> QED
    BY <1>2, <1>5, <2>1 DEF Notify, Remembered
<1>6. CASE Restart
  BY <1>6 DEF Restart
<1>7. CASE UNCHANGED vars
  BY <1>7 DEF vars, history
<1> QED
  BY <1>1, <1>3, <1>4, <1>5, <1>6, <1>7 DEF Next, Handler

(* The variables have their types. *)
THEOREM TypeCorrect == Spec => []TypeOK
<1>1. Init => TypeOK
  BY JiraAssigneeAssumption DEF Init, TypeOK, Assignees
<1> QED
  BY <1>1, TypePreserved, PTL DEF Spec

-----------------------------------------------------------------------------
(* Every step keeps LetterInv. *)
LEMMA LetterInvInductive ==
    LetterInv /\ [Next]_vars => LetterInv'
<1> SUFFICES ASSUME LetterInv, [Next]_vars PROVE LetterInv'
  OBVIOUS
<1> USE DEF LetterInv
<1>t. TypeOK'
  BY TypePreserved
<1> SUFFICES OneLetterPerAssignment' /\ MailedIsKnown'
  BY <1>t
<1>1. ASSUME NEW i \in Issues, NEW e \in Assignees, Edit(i, e)
      PROVE  OneLetterPerAssignment' /\ MailedIsKnown'
  <2>1. m_tasks # <<>> => Head(m_tasks') = Head(m_tasks)
    BY <1>1, QueuedAppend DEF TypeOK, Edit
  <2>2. \A j \in Issues : InHand(j)' => InHand(j)
    BY <1>1, <2>1 DEF TypeOK, Edit, InHand
  <2>3. \A j \in Issues :
           /\ j \notin forgotten' => letters'[j] <= 1
           /\ letters'[j] # 0 => /\ letters[j] # 0
                                 /\ j \in forgotten' <=> j \in forgotten
                                 /\ tolower[assignee'[j]] = tolower[assignee[j]]
    BY <1>1 DEF TypeOK, Edit, OneLetterPerAssignment
  <2> QED
    BY <1>1, <2>2, <2>3 DEF Edit, OneLetterPerAssignment, MailedIsKnown
<1>2. CASE Fetch
  BY <1>2
     DEF Fetch, history, TypeOK, InHand, OneLetterPerAssignment, MailedIsKnown
<1>3. CASE FetchFailed
  BY <1>3 DEF FetchFailed, InHand, OneLetterPerAssignment, MailedIsKnown
<1>4. CASE Notify
  <2> DEFINE i == Head(m_tasks)
  <2>1. i \in Issues
    BY <1>4, QueuedHeadTail DEF Notify, TypeOK
  <2>2. InHand(i) /\ \A j \in Issues : ~InHand(j)'
    BY <1>4 DEF Notify, InHand
  <2>3. \A j \in Issues \ {i} :
           /\ letters'[j] = letters[j]
           /\ m_notified_assignee_'[j] = m_notified_assignee_[j]
           /\ assignee'[j] = assignee[j]
    BY <1>4 DEF Notify, Remembered, TypeOK
  <2>4. m_notified_assignee_'[i] = tolower[fetched]
    BY <1>4, <2>1 DEF Notify, Remembered, TypeOK
  <2>5. /\ letters'[i] \in {letters[i], letters[i] + 1}
        /\ letters'[i] # letters[i] =>
              /\ tolower[fetched] = tolower[assignee[i]]
              /\ m_notified_assignee_[i] # tolower[fetched]
    BY <1>4, <2>1 DEF Notify, Known, TypeOK
  <2>6. i \notin forgotten /\ letters[i] # 0
          => /\ m_notified_assignee_[i] = tolower[assignee[i]]
             /\ tolower[fetched] = tolower[assignee[i]]
    BY <2>1, <2>2 DEF MailedIsKnown
  <2>7. i \notin forgotten => letters[i] \in 0 .. 1
    BY <2>1 DEF TypeOK, OneLetterPerAssignment
  <2>8. assignee' = assignee /\ forgotten' = forgotten
    BY <1>4 DEF Notify
  <2>9. i \notin forgotten => letters'[i] <= 1
    BY <2>5, <2>6, <2>7
  <2>10. i \notin forgotten /\ letters'[i] # 0
           => m_notified_assignee_'[i] = tolower[assignee'[i]]
    BY <2>4, <2>5, <2>6, <2>7, <2>8
  <2> QED
    BY <2>2, <2>3, <2>8, <2>9, <2>10
       DEF OneLetterPerAssignment, MailedIsKnown
<1>5. CASE UNCHANGED vars
  BY <1>5 DEF vars, history, InHand, OneLetterPerAssignment, MailedIsKnown
<1>6. CASE Restart
  BY <1>6 DEF Restart, InHand, OneLetterPerAssignment, MailedIsKnown
<1> QED
  BY <1>1, <1>2, <1>3, <1>4, <1>5, <1>6 DEF Next, Handler

(* jiraapi.h:24: an assignment brings its assignee at most one letter, for *)
(* any issues, addresses and webhooks, until the process is started again.*)
THEOREM OneLetter == Spec => []OneLetterPerAssignment
<1>1. Init => LetterInv
  BY JiraAssigneeAssumption
     DEF Init, LetterInv, TypeOK, Assignees, OneLetterPerAssignment,
         MailedIsKnown
<1>2. LetterInv => OneLetterPerAssignment
  BY DEF LetterInv
<1> QED
  BY <1>1, <1>2, LetterInvInductive, PTL DEF Spec

-----------------------------------------------------------------------------
(* Every step keeps MapInv. *)
LEMMA MapInvInductive ==
    MapInv /\ [Next]_vars => MapInv'
<1> SUFFICES ASSUME MapInv, [Next]_vars PROVE MapInv'
  OBVIOUS
<1> USE DEF MapInv
<1>t. TypeOK'
  BY TypePreserved
<1> SUFFICES MapIsJirasWhenQuiet' /\ LastAnswerIsNew'
  BY <1>t
<1>h. ASSUME m_tasks # <<>>, NEW j \in Issues
      PROVE  Queued(j, m_tasks)
                <=> Head(m_tasks) = j \/ Queued(j, Tail(m_tasks))
  BY <1>h, QueuedHeadTail DEF TypeOK
<1>1. ASSUME NEW i \in Issues, NEW e \in Assignees, Edit(i, e)
      PROVE  MapIsJirasWhenQuiet' /\ LastAnswerIsNew'
  <2>1. \A j \in Issues : Queued(j, m_tasks') <=> Queued(j, m_tasks) \/ j = i
    BY <1>1, QueuedAppend DEF TypeOK, Edit
  <2>2. \A j \in Issues :
           InHand(j)' => /\ InHand(j)
                         /\ Queued(j, Tail(m_tasks'))
                               <=> Queued(j, Tail(m_tasks)) \/ j = i
    BY <1>1, QueuedAppend, QueuedTailAppend DEF TypeOK, Edit, InHand
  <2>3. \A j \in Issues \ {i} :
           /\ assignee'[j] = assignee[j]
           /\ j \in missed' <=> j \in missed
           /\ j \in forgotten' <=> j \in forgotten
    BY <1>1 DEF TypeOK, Edit
  <2>4. fetched' = fetched /\ m_notified_assignee_' = m_notified_assignee_
    BY <1>1 DEF Edit
  <2>5. MapIsJirasWhenQuiet'
    BY <2>1, <2>3, <2>4 DEF MapIsJirasWhenQuiet
  <2>6. LastAnswerIsNew'
    BY <2>2, <2>3, <2>4 DEF LastAnswerIsNew
  <2> QED
    BY <2>5, <2>6
<1>2. CASE Fetch
  BY <1>2 DEF Fetch, history, MapIsJirasWhenQuiet, LastAnswerIsNew, InHand
<1>3. CASE FetchFailed
  BY <1>3, <1>h
     DEF FetchFailed, MapIsJirasWhenQuiet, LastAnswerIsNew, InHand
<1>4. CASE Notify
  <2>1. \A j \in Issues : ~InHand(j)'
    BY <1>4 DEF Notify, InHand
  <2>2. /\ m_tasks # <<>> /\ m_tasks' = Tail(m_tasks)
        /\ assignee' = assignee /\ missed' = missed
        /\ forgotten' = forgotten
        /\ InHand(Head(m_tasks))
    BY <1>4 DEF Notify, TypeOK, InHand
  <2>3. \A j \in Issues :
           m_notified_assignee_'[j] = IF j = Head(m_tasks)
                                      THEN tolower[fetched]
                                      ELSE m_notified_assignee_[j]
    BY <1>4 DEF Notify, Remembered, TypeOK
  <2> QED
    BY <1>h, <2>1, <2>2, <2>3 DEF MapIsJirasWhenQuiet, LastAnswerIsNew
<1>5. CASE UNCHANGED vars
  BY <1>5 DEF vars, history, MapIsJirasWhenQuiet, LastAnswerIsNew, InHand
<1>6. CASE Restart
  BY <1>6 DEF Restart, InHand, MapIsJirasWhenQuiet, LastAnswerIsNew
<1> QED
  BY <1>1, <1>2, <1>3, <1>4, <1>5, <1>6 DEF Next, Handler

(* Of an issue without a webhook under way or lost the map knows the       *)
(* assignee, so an assignment back to an earlier assignee is mailed again. *)
THEOREM MapIsJiras == Spec => []MapIsJirasWhenQuiet
<1>1. Init => MapInv
  BY JiraAssigneeAssumption
     DEF Init, MapInv, TypeOK, Assignees, MapIsJirasWhenQuiet,
         LastAnswerIsNew, InHand
<1>2. MapInv => MapIsJirasWhenQuiet
  BY DEF MapInv
<1> QED
  BY <1>1, <1>2, MapInvInductive, PTL DEF Spec
=============================================================================
