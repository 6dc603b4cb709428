---------------------------- MODULE JiraAssignee ----------------------------
(***************************************************************************)
(* Letters to the assignees of Jira's issues.  Jira calls a webhook on any *)
(* change of an issue; the webhooks queue for the main thread (module      *)
(* MainLoop), which asks Jira who the assignee is by then, and mails him   *)
(* unless he is the one it mailed last about this issue.                   *)
(***************************************************************************)
EXTENDS Naturals, Sequences

CONSTANTS
    Issues,       \* keys of Jira's issues
    Emails,       \* addresses as Jira spells them
    NoEmail,      \* '', no assignee
    Nothing,      \* no answer of Jira in hand
    tolower,      \* the address in lower case
    MayFail,      \* may requests to Jira fail?
    MaxEdits      \* bound: changes of issues in one behaviour

ASSUME JiraAssigneeAssumption ==
    /\ NoEmail \notin Emails
    /\ Nothing \notin Emails \cup {NoEmail}
    /\ tolower \in [Emails \cup {NoEmail} -> Emails \cup {NoEmail}]
    /\ \A e \in Emails \cup {NoEmail} : tolower[e] = NoEmail <=> e = NoEmail
    /\ MayFail \in BOOLEAN
    /\ MaxEdits \in Nat

Assignees == Emails \cup {NoEmail}

VARIABLES
    assignee,              \* per issue: its assignee in Jira
    m_tasks,               \* the issues of the webhooks not yet handled
    fetched,               \* the assignee get_task_info has read, or
                           \* Nothing
    m_notified_assignee_,  \* per issue: who was mailed last, NoEmail for an
                           \* issue the map does not hold
    letters,               \* history, per issue: letters to the assignee
                           \* since the issue was assigned to him
    mailed,                \* history, per issue: who was mailed last
    missed,                \* history: the issues a webhook of which was
                           \* lost since the last assignment
    forgotten,             \* history: the issues assigned before the
                           \* process was started
    edits                  \* how many changes there have been

history == <<letters, mailed, missed, forgotten>>
vars    == <<assignee, m_tasks, fetched, m_notified_assignee_, history, edits>>

Init ==
    /\ assignee = [i \in Issues |-> NoEmail]
    /\ m_tasks = <<>>
    /\ fetched = Nothing
    /\ m_notified_assignee_ = [i \in Issues |-> NoEmail]
    /\ letters = [i \in Issues |-> 0]
    /\ mailed = [i \in Issues |-> NoEmail]
    /\ missed = {}
    /\ forgotten = {}
    /\ edits = 0

Queued(i, q) == \E n \in DOMAIN q : q[n] = i

(* Somebody changes an issue: its assignee, the spelling of his address,   *)
(* or, when e is the assignee, anything else.  Jira calls the webhook,     *)
(* which posts the task.                                                   *)
Edit(i, e) ==
    /\ edits < MaxEdits
    /\ edits' = edits + 1
    /\ assignee' = [assignee EXCEPT ![i] = e]
    /\ m_tasks' = Append(m_tasks, i)
    /\ IF tolower[e] = tolower[assignee[i]]
       THEN UNCHANGED <<letters, missed, forgotten>>
       ELSE /\ letters' = [letters EXCEPT ![i] = 0]
            /\ missed' = missed \ {i}
            /\ forgotten' = forgotten \ {i}
    /\ UNCHANGED <<fetched, m_notified_assignee_, mailed>>

(* get_task_info up to the answer of Jira. *)
Fetch ==
    /\ m_tasks # <<>>
    /\ fetched = Nothing
    /\ fetched' = assignee[Head(m_tasks)]
    /\ UNCHANGED <<assignee, m_tasks, m_notified_assignee_, history, edits>>

(* A status outside 200..299: the event is dropped. *)
FetchFailed ==
    /\ MayFail
    /\ m_tasks # <<>>
    /\ fetched = Nothing
    /\ m_tasks' = Tail(m_tasks)
    /\ missed' = missed \cup {Head(m_tasks)}
    /\ UNCHANGED <<assignee, fetched, m_notified_assignee_, letters, mailed,
                   forgotten, edits>>

(* Mutation: the first assignee of an issue is never replaced. *)
Remembered_FirstStays(i, email) ==
    IF m_notified_assignee_[i] = NoEmail \/ email = NoEmail
    THEN [m_notified_assignee_ EXCEPT ![i] = tolower[email]]
    ELSE m_notified_assignee_

(* Mutation: the spelling of the address matters. *)
Known_Spelling(i, email) ==
    email = NoEmail \/ m_notified_assignee_[i] = email

(* Mutation: only an empty entry counts as a change. *)
Known_AnyEntry(i, email) ==
    email = NoEmail \/ m_notified_assignee_[i] # NoEmail

(* remember_assignee returns false. *)
Known(i, email) ==
    tolower[email] = NoEmail \/ m_notified_assignee_[i] = tolower[email]

(* The map after remember_assignee; no assignee erases the entry. *)
Remembered(i, email) ==
    [m_notified_assignee_ EXCEPT ![i] = tolower[email]]

(* remember_assignee and send_email, which only starts a script. *)
Notify ==
    /\ fetched # Nothing
    /\ LET i     == Head(m_tasks)
           email == fetched
       IN  /\ m_notified_assignee_' = Remembered(i, email)
           /\ letters' = IF ~Known(i, email)
                            /\ tolower[email] = tolower[assignee[i]]
                         THEN [letters EXCEPT ![i] =
                                 IF @ < 2 THEN @ + 1 ELSE @]
                         ELSE letters
           /\ mailed' = IF Known(i, email) THEN mailed
                        ELSE [mailed EXCEPT ![i] = tolower[email]]
    /\ m_tasks' = Tail(m_tasks)
    /\ fetched' = Nothing
    /\ UNCHANGED <<assignee, missed, forgotten, edits>>

(* The process ends and starts again; queue and map are in its memory. *)
Restart ==
    /\ m_tasks' = <<>>
    /\ fetched' = Nothing
    /\ m_notified_assignee_' = [i \in Issues |-> NoEmail]
    /\ missed' = missed \cup {i \in Issues : Queued(i, m_tasks)}
    /\ forgotten' = Issues
    /\ UNCHANGED <<assignee, letters, mailed, edits>>

Handler == Fetch \/ FetchFailed \/ Notify

Next == (\E i \in Issues, e \in Assignees : Edit(i, e)) \/ Handler \/ Restart

(* The main thread goes on with the queue (module MainLoop); Jira answers  *)
(* or the request fails.                                                   *)
Spec == Init /\ [][Next]_vars /\ WF_vars(Handler)

-----------------------------------------------------------------------------
(* Properties *)

TypeOK ==
    /\ assignee \in [Issues -> Assignees]
    /\ m_tasks \in Seq(Issues)
    /\ fetched \in Assignees \cup {Nothing}
    /\ fetched # Nothing => m_tasks # <<>>
    /\ m_notified_assignee_ \in [Issues -> Assignees]
    /\ letters \in [Issues -> 0 .. 2]
    /\ mailed \in [Issues -> Assignees]
    /\ missed \subseteq Issues
    /\ forgotten \subseteq Issues
    /\ edits \in 0 .. MaxEdits

(* However the webhooks of several changes pile up, and although each is   *)
(* answered with a later state of the issue, an assignment brings its      *)
(* assignee at most one letter ("письмо - только на назначение",           *)
(* jiraapi.h:24), while the process knows whom it mailed.                  *)
OneLetterPerAssignment ==
    \A i \in Issues : i \notin forgotten => letters[i] <= 1

(* An assignee who stays is in the end the one mailed last about his       *)
(* issue, also across restarts, unless Jira's answer to a webhook since he *)
(* was assigned failed or the queue was lost with the process.             *)
AssigneeIsNotified ==
    \A i \in Issues, e \in Emails :
        assignee[i] = e ~> \/ mailed[i] = tolower[e]
                           \/ assignee[i] # e
                           \/ i \in missed

(* With no webhook of an issue under way the map is what Jira says of it,  *)
(* unless an answer was lost or the process started since: nobody is taken *)
(* for the assignee who no longer is one, so an assignment back to him     *)
(* brings a letter.                                                        *)
MapIsJirasWhenQuiet ==
    \A i \in Issues :
        ~Queued(i, m_tasks) /\ i \notin missed \cup forgotten
            => m_notified_assignee_[i] = tolower[assignee[i]]
=============================================================================
