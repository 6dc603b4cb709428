# tgbot_with_rest: models, checks and proofs

TLA+ models of the Telegram bot `chanserv`, the daemon `listchecker` and the
services around them, model-checked with TLC and, in part, proved with TLAPS.
Paths and lines are those of the repository (`src/chanserv.cpp:410` is written
`chanserv.cpp:410`). `PROJECT.json` maps every definition to the lines it
stands for.

## 1. The system

Consumers (employees) describe a problem to a Telegram bot; the bot creates an
issue: a card at a Trello board, a row of table `issues`, an issue in Jira. A
Trello column belongs to a contractor, so assigning an issue is moving its card.
`listchecker` watches the board and keeps the table in step with it.

| Part | State | Operations | Module |
| --- | --- | --- | --- |
| Threads and stop (`main.cpp`) | `g_stop_requested`, `stop_mutex`, condition variable, monitor and webhook threads | signal, notify, join, report every 4 h, webhook, quit timer | `MainLoop` |
| Task queue (`task_queue.h`) | `m_tasks` | `post`, `run_pending` | `MainLoop`, `TaskService` |
| Bot loop (`chanserv.cpp:101-160`) | where the loop is | connect, run the queue, long poll, back off, last run | `MainLoop` |
| Sessions (`session_store.h`, `chanserv_bot::uD`) | `m_sessions`, the pointer `uD` | `find`, `create`, `evict_idle`, the throttle of the cleanup | `SessionStore` (when), `Dialogue` (what a session holds) |
| Roles (`access.h`) | none | `role_for_callback`, `role_for_step`, `is_allowed` | `Access` |
| Messages, commands (`chanserv_on_any_message.cpp`, `chanserv_commands.cpp`) | a session's `jira_task` and `stat_` | answers of the wizards, photos, names, key reasons, service steps, `/start`, `/help` | `Dialogue` |
| Buttons (`chanserv_callbacks.cpp`) | the same, and `clicked_msg_id` | menus, wizards, service buttons, approve and reject, finish a task | `Dialogue`, `ContractorWork`, `ListChecker` |
| Revit keys (`chanserv.cpp:410-451`, table `master_keys`) | keys not yet activated | insert, approve, reject | `Dialogue` |
| Creation of an issue (`chanserv.cpp:213-338`) | Trello, `issues`, Jira, `created_card_id` | card, pictures, row, Jira issue, messages | `IssueCreation`; its part in `Dialogue` and `ListChecker` |
| Contractors' work (`chanserv.cpp:588-702`, `chanserv_callbacks.cpp:260-330`) | `pgdb_issues` | list of tasks, start, finish | `ContractorWork`; the cards in `ListChecker` |
| listchecker (`listchecker/`) | the lists of one pass | bootstrap, per-card work, deletion | `ListChecker`; what it owes table `issues`: `IssueTable` |
| Trello client (`trelloapi.cpp`) | the board (outside) | `get_card`, `archiving_card`, `create_new_card`, `add_img_to_card` | its answers in `ListChecker` and `IssueCreation`, the body of a card in `IssueText` |
| Jira client (`jiraapi.cpp`) | `m_notified_assignee_` | `get_task_info`; `create_task`, `add_attach` | `JiraAssignee`; `IssueCreation`; the fields of a task in `IssueText` |
| Rosters (`abstract_chanserv.cpp`, table `contractors`) | `v_staff`, `v_allowed_contractors`, listchecker's `v_contractors` | reload | `ContractorWork`; staff is constant |
| Keyboards (`chanserv_keyboards.cpp`) | none | which buttons a keyboard has | `Keyboards` |
| Texts (`support.cpp`, the bodies of `jiraapi.cpp` and `trelloapi.cpp`) | the fields of a task | cut, escape, list | `IssueText` |
| Configuration, DBus, build, supervision | - | - | not modelled |

How they interact:

- The Telegram client is used by the main thread alone. The webhook thread and
  the monitor post closures into the task queue; the main thread runs them
  between two long polls. A handler may start a thread (`in_thread`) and joins
  it before it returns.
- `chanserv` and `listchecker` are two processes. They share table `issues` and
  the board and take no lock; each statement commits by itself.
- supervisord starts either process again when it ends. Sessions, the queue and
  the map of notified assignees are in memory only; `issues` and `master_keys`
  survive.
- People move, archive, reopen and delete cards, and change Jira's issues, at
  any time.

What is hard: a handler changes the session, talks to Telegram, may throw
there, and only then moves the step; old keyboards stay in the chat and send
their buttons months later; one member pointer serves all users; a pass of
listchecker reads the board, the table and the board again with people in
between; an exception leaves work half done and the next pass meets it again; a
stop has to reach threads that sleep.

What makes each part correct:

- queue and loop: every posted task is run once and in order, a stop ends the
  process, what was accepted before the stop is run;
- sessions: a handler writes into its own user's session or, deciding a key,
  only into the requester's key reason;
- wizards: the issue a dialogue ends in holds the answers to its own questions;
- roles: nobody is at a step he has no role for;
- keys: one open key per user, one decision per request, and a request that
  reaches every member of staff Telegram lets it reach;
- listchecker: pending means unassigned, a contractor is told once, assigned
  work is not thrown away, rows follow their cards;
- creation of an issue: card, row, pictures and Jira issue belong together, and
  support knows what is missing;
- Jira letters: one letter per assignment, and there is one;
- session store: whoever uses the bot keeps his session, the others lose theirs;
- contractors' work: an old button meets a guard that refuses it, a started task
  can be finished, and staff hears of it once for each start; whoever gets a task
  can list it;
- texts: what was accepted arrives whole, and in a form that can be read.

## 2. The modules

**`Access`**: the numbers of the steps (`structures.h:17-43`) and the roles of
buttons and steps (`access.h`).

**`Dialogue`** extends it. Handlers run in the main thread, so one handler is
one action. `Message(u, idle)` is a message of user `u`, during whose dispatch
the sessions `idle` are evicted; `Button(u)` a button of his own; `Decision(p,
r)` a button under the key request of `r`, pressed by `p`; `KeyActivated` the
Revit plug-in; `Restart` the end of the process. A parameter `sent` (or
`stored`, `done`, `told`) says whether the handler's call to the outside
returned or threw, and an assignment that comes after the call happens only if
it returned. An answer is represented by the step at which the user gave it, so
a text in the wrong field is visible. `clicked_msg_id` is `menu` if it is the
newest menu, and `none` otherwise. The constant `Offered` says which buttons a
user has in reach, old keyboards included. `Broadcast(no)` is
`send_msg_to_staff`, which swallows a refusal and goes on to the next member;
`no` are those the message does not reach, everybody possibly. History
variables: `asked` (per user and member of staff, how the pending reason was
put to him: `not_yet`, `shown` or `refused`), `closed` (users whose last reason
was decided).

**`Keyboards`** gives each inline keyboard as the set of its callback data and
`InReach(menu)`, the buttons a user comes to from a menu. An assumption of
`MCDialogue` says that the buttons the run offers are those.

**`SessionStore`**: when a session is created, counts as used, and is erased. The
clock is kept as ages (how long a session has been idle, how long ago the last
cleanup was), since the code only compares differences. `Dispatch(u)` is a
message with the cleanup before it, `Press(u)` a button, `Decide(p, r)` a
decision, which looks up the requester's session too. History: `quiet`, how long
the user himself has done nothing.

**`ContractorWork`** extends it by the chat of each user (a message is a position
in it and carries the keyboard it shows now), `clicked_msg_id`, the messages of
the last list of tasks, the contractor of each row, and the three copies of the
roster: the table, chanserv's and listchecker's. `Board` is what listchecker and
people do to a row. A press may be one on its way that its keyboard no longer
shows: "start" asks for a message of the last list and no clicked message,
nothing else, so a late press at a task that is done brings "finish" back.
Telegram refuses to replace a keyboard by an equal one. A menu or an edit that
is delivered and not answered is an action of its own (`MenuUnanswered`,
`StartUnanswered`, `ClosingUnanswered`). What one handler does to a session's
`jira_task` is `Dialogue`'s. History: `unsure` (messages Telegram's answer to
which was lost), `started` (tasks a user was given "finish" for), `again` (tasks
staff was told a user has finished without his having started them since),
`unannounced`.

**`IssueText`** follows one field of a task from the message to the card, the row,
Jira and the list of tasks. A text is a sequence of the characters some step
treats in a way of its own; `Decoded` is what the other side reads of it, or
`Broken`. A message of the list of tasks holds five fields: of the four that are
not followed only the lengths matter, before and after the escaping (`Others`);
`Labels` is the rest of the message.

**`MainLoop`**: one action per step of the main thread, the monitor and the
webhook thread that another thread can observe. `main` is the program counter
of the main thread; `monitor` that of the monitor, which holds `stop_mutex` in
`posting`, `testing` and `blocking`. `NotifyAll` wakes the monitor only while
it waits; `WakeSpuriously` is a wake-up of the condition variable for no reason,
after which the predicate is tested again. `TaskThrows` is a Telegram error in a queued task. History: `posted`,
`done`, `lost`.

**`TaskService`**: the abstract promise of queue and loop, a FIFO service that
may end and then drops what it had taken in hand. `MainLoop!ImplementsTaskService`
is the refinement: what waits is the rest of the batch followed by the queue.

**`ListChecker`**: the board, the table, one pass of `check_the_list` cut where
the other process or people can be seen (each request, each commit, each
message), the bot's creation and finishing of an issue, and the people. A pass
that throws, or a process that dies, is `Crash`, `ConsumerUnknown` or a failing
step: the lists of the pass are gone, and the table is what it was. A row's
`contractor_*` columns are written by one UPDATE and are one field.

**`IssueTable`**: the abstract promise about table `issues`, which two processes
write without a lock: an issue gets a row at most once, a row gets a contractor
only when it has none (so a task never goes from one contractor straight to
another), and a row that is gone stays gone. The UPDATE of an assignment asks
for neither status nor contractor (`listchecker.cxx:38`), so this rests on the
order of the steps of a pass. `ListChecker!ImplementsIssueTable` refines it with
the contractor named by a row (`ContractorOf`). `ContractorWork` sees the same
table from the other process, with all issues created: its
`ImplementsIssueTable` says that buttons, lists and `Board` keep the promise.

**`JiraAssignee`**: Jira changes (`Edit`, each with a webhook), the request for
the assignee (`Fetch`, `FetchFailed`), the map and the letter (`Notify`),
`Restart`. Addresses have a lower-case form. History: `letters` to the current
assignee since he was assigned, `mailed`, `missed` (issues a webhook of which
was lost), `forgotten` (issues not assigned since the process started).

**`IssueCreation`**: `create_new_issue` cut at each call to Trello, the
database, Telegram and Jira; each may fail by itself, and the process may end
anywhere. Issues are created one after another (the main thread joins the
thread), and what they share is the session: the task that is cleared at the
end, and `created_card_id`, which is not. A dialogue may also be left
(`LeaveDialogue`): its pictures stay in the task until a button that clears it,
`/start` or `/help` (`StartOver`), or the end of the process;
`tekla_general_issue` does not clear it, so a Tekla issue takes them over.
Issues go by the number of their dialogue, and pictures carry the number of the
dialogue they were sent in, so one in the wrong place is visible. A number of
Jira carries the issue it was created for, 0 for anybody else's. History:
`kinds`, `reported`, `misread` (issues whose answer from Jira was no JSON),
`accepted`, `finished`, `abandoned`.

`MCDialogue`, `MCMainLoop`, `MCListChecker`, `MCJiraAssignee`,
`MCContractorWork` and `MCIssueText` give the constants values; the runs of
`IssueCreation` need numbers only. `DialogueProofs`,
`MainLoopProofs`, `ListCheckerProofs`, `JiraAssigneeProofs`,
`IssueCreationProofs`, `IssueTextProofs`, `SessionStoreProofs` and
`ContractorWorkProofs` hold the proofs. Definitions
named `X_Something` under a comment "Mutation" are altered forms of `X`, each a
plausible slip in that code; the named property fails when one stands in for
`X`.

## 3. The runs

| Run (cfg) | Instance | Properties | What it shows |
| --- | --- | --- | --- |
| `dialogue` (`Dialogue`) | a member of staff with every button his menu leads to, the developer beside him in a shared chat; requests go to him and to another who may refuse them; one reason | `TypeOK`, `AnswersInPlace`, `IssueKindKnown`, `MenuExcludesDialogue`, `NoDanglingSession`, `AtMostOneOpenKey`, `DecidedOnce`, `RequestReachesStaff`, `ServiceStepNeedsRole`, `OthersKeepTheirDialogue`, `ButtonsMakeNoSession` | wizards and key requests with every failure, eviction, restart and old button; a failed reply or a member who refuses takes no request from the others; two users do not disturb each other; service steps need their role; a button brings back no session |
| `project` (`DialogueProject`) | one contractor, all his buttons | `ProjectIsTheOneAskedFor` **violated** | finding 1 |
| `main_loop` (`MainLoop`) | two webhooks, two reports | `NothingLostOrOvertaken`, `NotificationArrives`, `ImplementsTaskService`, `StopEndsTheProcess`, `QueuedIsRun` | the queue, and a stop at any moment |
| `main_loop_errors` (`MainLoopErrors`) | the same | `TelegramErrorsDoNotStopTheBot` **violated** | finding 2 |
| `list_checker` (`ListChecker`) | one card, two contractors, 3 failures, statements may fail | `PendingMeansUnassigned`, `ToldOnce`, `WorkIsNotThrownAway`, `ImplementsIssueTable`, `GoneCardsLeaveTheTable`, `RowFollowsTheCard` | status, contractor and messages agree over crashes; the rework branch takes no card with a contractor; the table is the one `IssueTable` promises; what repeated passes achieve |
| `list_checker_archive` (`ListCheckerArchive`) | one card, one contractor | `FinishedTaskIsArchived` **violated** | finding 3 |
| `jira_assignee` (`JiraAssignee`) | two issues, two people, one in two spellings, 4 changes, restarts | `OneLetterPerAssignment`, `MapIsJirasWhenQuiet`, `AssigneeIsNotified` | webhooks that pile up, answers that fail; the letter comes in the end |
| `issue_creation` (`IssueCreation`) | two dialogues, finished or left, up to two pictures each, Jira's projects empty or with two issues | `RowNamesItsCard`, `PicturesStayWithTheirIssue`, `NothingFailsInSilence` | each step failing by itself, the process ending anywhere, dialogues left before and between issues |
| `issue_creation_pictures` (`IssueCreationPictures`) | one issue, one picture, Jira's projects with three issues | `AttachedToTheNewIssue` **violated** | finding 4 |
| `contractor_work` (`ContractorWork`) | a contractor with four messages, a member of staff, two issues, the clock | `IdleSessionsGo`, `SessionsInUseStay`, `ClickedIsCurrent`, `BlockingTaskCanBeFinished`, `FinishedOncePerStart`, `AssignedCanList` | lists of tasks that age while rows move, presses on their way, lost answers to menus and edits, contractors added at run time |
| `issue_text` (`IssueText`) | every text of up to five characters in every field, the other fields empty, full, or full of escapes | `CardParses`, `RowKeepsTheText`, `UncutFieldReachesJira`, `SummaryFits`, `ListingFits` | cutting and escaping on the way to Trello, the table, Jira and the list |
| `issue_text_summary` (`IssueTextSummary`) | the same | `SummaryParses` **violated** | finding 5 |

Bounds, and why they are enough:

- *Users.* A handler touches the sender's session and, in a decision, the
  requester's; eviction takes any set. Two users show every pair; the proofs
  cover any number. One reason is enough:
  `asked` begins anew with each reason, the same one typed again included. The
  state of `Dialogue` is finite, nothing else is bounded.
- *Webhooks, `MaxReports`.* Tasks differ only in who posts them. Two of each
  give a task in the batch, one in the queue and one on the way, from either
  thread. `MaxReports` is a guard of `Timeout` (and so also says that the four
  hours may never pass).
- *Cards, contractors.* Two contractors are needed for moves between them. The
  runs have one card: cards meet only in the lists of a pass and in what a throw
  leaves undone, and the proofs of section 5 cover any number of cards.
- *`MaxFailures`.* Failures in one behaviour. Three cover a crash after a commit,
  a failed statement, and another crash before the repair is done.
- *`MaxEdits`.* Changes of Jira's issues in one behaviour; four give an
  assignment, another, one back and one spelling.
- *`MaxIssues`, `MaxPhotos`, `JiraStart`.* Two dialogues of one session show what
  the first leaves for the second, finished or not; the proofs cover a chain of
  abandoned ones. Two pictures, that one may fail and the other
  does not. A project with no issues reaches the numbers 1 and 2 that are read as
  errors, one with two issues the first number that is not.
- *`MaxMessages`.* Messages with buttons in a chat: four hold a menu, a list of
  two tasks and another menu or a list of one. The member of staff has none: he is
  there to add contractors and to decide keys. Lists, clicked messages and what
  staff is told of are kept per user, so one user with messages shows them, while
  listchecker may give his rows to the other. The two issues are alike
  (`SYMMETRY`); no property of that run is about liveness.
- *`TimeToLive` 1, `CleanupPeriod` 2, `MaxAge` 2.* Ages stop at `MaxAge`, which
  must be past both limits for the comparisons to keep their sense
  (`SessionAssumption`). A period longer than the time to live is the harder
  order: sessions then expire while no cleanup is due. The code's numbers are
  the other order; the proofs cover both.
- *Widths, `MaxTyped`.* The code's widths (150, 3000, 100, 255/2, 1000, 1024,
  4096) are scaled to 2 to 7, and 33 for a message, and keep their order and sums
  (`TextAssumption`): a message of the list has room for its labels, a
  description and four short fields as they were accepted. In `Others` the fields
  not followed are empty or full (24 characters beside a description, 25 beside
  another field), with none, one, or nothing but characters to escape.
  A text of five characters is longer than every width a text is cut to before
  it is stored, so each field is met shorter, at and past its width, with every
  character at every place.

Deadlock is checked except in `JiraAssignee`, which stops when the edits are used
up, and in `IssueText`, which ends when the task has been filed.

## 4. Fairness

- `Dialogue`, `IssueCreation`, `ContractorWork` and `IssueText` have none: users
  promise nothing, their properties are safety.
- `MainLoop`: weak fairness of each of the three threads. The operating system
  runs a thread that can run, a long poll ends after its timeout
  (`chanserv.cpp:127-132`), a queued task returns or throws. Nothing is assumed
  of signals, requests or the monitor's four hours (`Timeout` is not fair), so
  `StopEndsTheProcess` does not rest on the hours passing.
- `ListChecker`: weak fairness of the pass. The timer fires every 30 seconds
  (`listchecker/main.cxx`) and supervisord restarts the process. Failures are
  finitely many by `MaxFailures`: an error that never ends (a consumer who has
  blocked the bot) does stop the pass at the same card for good.
- `JiraAssignee`: weak fairness of the main thread's work on the queue, which
  `MainLoop` shows as `QueuedIsRun`.

## 5. What is proved

For every value of the constants that meets the named assumptions
(`DialogueAssumption`, `MainLoopAssumption`, `ListCheckerAssumption`,
`JiraAssigneeAssumption`, `IssueCreationAssumption`, `TextAssumption`,
`SessionAssumption`, `WorkAssumption`), TLAPS checks:

- **`DialogueProofs`.** `TypeCorrect`; `PointerSafe` (`NoDanglingSession`),
  `RequestDecidedOnce` (`DecidedOnce`), `OneOpenKey` (`AtMostOneOpenKey`). The
  types are inductive by themselves: one lemma per kind of handler. The three
  others are proved together as `KeyInv`, since each decision rests on the
  pending reason of a session that must exist, and the key it inserts on there
  being no open one. `DecidedReason` is the step that needs them: a user whose
  last reason was decided has none in his task, whatever was evicted since.
  The second half is about each session: `StepsNeedRoles` (`ServiceStepNeedsRole`),
  `MenuAndDialogueExclude` (`MenuExcludesDialogue`), `KindIsKnown`
  (`IssueKindKnown`), `AnswersStayInPlace` (`AnswersInPlace`) and
  `RequestsReachStaff` (`RequestReachesStaff`) from one invariant
  `SessionInv`, a statement about each session by itself: its user has the role
  of its step, its fields hold the answers to their own questions, the kind is
  known from the first question on, and a current menu goes with no new task or
  family. `IssueKindKnown` speaks of the last two questions; that the kind is
  known at all the questions before is what makes it inductive.
  `OthersAreLeftAlone`
  (`OthersKeepTheirDialogue`) is an action property: message, button and
  decision are each shown to leave the other sessions alone (`LeftAlone`).
  `SessionsComeWithMessages` (`ButtonsMakeNoSession`) is another: the buttons of
  a keyboard, and of a key request at staff, outlive the session they belong to,
  and none of them makes a new one; `SessionsOutliveButtons` is the converse, no
  button ends a session.
- **`MainLoopProofs`.** `TypeCorrect`; `RunInOrder` (`NothingLostOrOvertaken`)
  from `QueueInv`, which adds where a batch may be non-empty and that a lost
  batch means the loop is never entered again (otherwise a later task could be
  run after a lost one and the order would be wrong); `MonitorIsWoken`
  (`NotificationArrives`) from `StopInv`: the main thread passes `stop_mutex`
  with the flag set, so at `notify_all` the monitor is not between its test and
  its wait. `LoopIsTaskService`: every step of the threads is a step of
  `TaskService` or a stutter under the refinement mapping.
- **`ListCheckerProofs`.** `TypeCorrect`; `PendingIsUnassigned`
  (`PendingMeansUnassigned`) and `ToldAtMostOnce` (`ToldOnce`) from `TableInv`,
  which adds that nobody has been told of the task being assigned: it was
  pending when its assignment began. `AssignedWorkIsKept`
  (`WorkIsNotThrownAway`) from `WorkInv`, which adds that during an assignment
  the column Trello named is a contractor's. It holds while table and Trello
  name the same column; after a failed UPDATE of the column they do not, and an
  assigned card can be thrown away (section 6).
  `PassesKeepTheTable` (`ImplementsIssueTable`): every step of the pass, the bot
  and the people is a step of `IssueTable` or a stutter. It needs `FreeInv`:
  while an assignment is under way, the row it is for has no contractor or is
  gone, whatever chanserv and people did since the row was read.
- **`JiraAssigneeProofs`.** `TypeCorrect`; `OneLetter` (`OneLetterPerAssignment`)
  from `LetterInv`: once a letter went to the assignee, the map names him and so
  does an answer in hand, or the next webhook would bring another; `MapIsJiras`
  (`MapIsJirasWhenQuiet`) from `MapInv`: an answer in hand with no further
  webhook of its issue behind it is up to date.
- **`IssueCreationProofs`.** `TypeCorrect`; `RowHasItsCard`, `PicturesStay`,
  `FailuresAreReported` (the three properties of the run) from `IssueInv`:
  `TaskInv` says that task, pictures and `created_card_id` belong to the issue in
  hand, or to dialogues it may have taken over (`MayCarry`), from the moment it
  begins, and that between issues only abandoned dialogues have pictures there;
  `JiraInv` that the number in hand is the new
  issue's, `SilenceInv` what support has been told at each place.
- **`IssueTextProofs`.** All five properties of the run, for texts of any length
  and all widths in the order of `TextAssumption`: `CardParsesAlways`,
  `RowKeepsTheTextAlways`, `UncutFieldReachesJiraAlways`, `SummaryFitsAlways`,
  `ListingFitsAlways`; the last rests on `AcceptedFieldsFit`, the sum of what
  can be accepted for the fields of a listing. What happens to a field is one invariant, `Staged`: it is
  accepted, escaped once, and everything later is made of that. The work is in
  what the functions compute. `EscapedReadsBack` (`Decoded(Escaped(t)) = t`) is
  an induction over the text: one character more in front is escaped by itself
  (`MappedCons`), and what follows is read as if nothing stood before it
  (`DecodedSuffix`). `CardForm` is why a card can be read although its braces
  are replaced after the escaping: the result is the escaped form of a text with
  a backslash before each brace, so `CardReadsBack` needs nothing new, and
  `CardShowsTheTextAlways` says what a card shows, which is more than that it
  can be read.
- **`SessionStoreProofs`.** `IdleSessionsAreEvicted` (`IdleSessionsGo`) and
  `SessionsInUseAreKept` (`SessionsInUseStay`) from `SessionInv`, whose addition
  is `KnownYoung`: the store never takes a session for older than its user has
  been quiet. An eviction looks at the one, the property speaks of the other.
- **`ContractorWorkProofs`.** `WorkUsesTheSessionStore`: `Spec => SessionSpec`, so
  both facts about sessions hold of the larger module. `OldButtonsAreIdle`
  (`ClickedIsCurrent`), `StartedTaskCanBeFinished` (`BlockingTaskCanBeFinished`)
  and `TasksAreFinishedOnce` (`FinishedOncePerStart`) from `WorkInv`: a list
  names each task once, and a message of it that shows "finish" is about a task
  the user has started and not finished since. The clicked message is the newest
  menu, but for menus whose answer was lost, or one of that list (`NewestMenu`).
  `AssignedAreKnown` (`AssignedCanList`) from `RosterInv`: listchecker's list is
  part of the table, and the table of chanserv's list and the unannounced.
  `ButtonsKeepTheTable` (`Spec => ImplementsIssueTable`) and `BoardIsTheTable`
  tie the module to `ListChecker`: both implement `IssueTable`, and each step of
  the table that assigns, takes back or removes one row is a step of `Board` (or
  changes nothing), so `Board` forbids nothing that a pass of `ListChecker` may
  do to a row. A contractor who is not in listchecker's list is the exception,
  as in the code.

Each invariant was model-checked before it was proved.

Not provable with these provers and left to TLC: everything under fairness
(`StopEndsTheProcess`, `QueuedIsRun`, `GoneCardsLeaveTheTable`,
`RowFollowsTheCard`, `AssigneeIsNotified`), statements about ENABLED, and anything
about RECURSIVE operators, of which the modules have none. That `ContractorWork`
implements `IssueTable` is proved and listed in no run: there it says little that
`Board` does not, and the run of `list_checker` checks it where it can fail. The induction rules
of the library take a predicate as a parameter, which the provers cannot
instantiate; the inductions of `IssueTextProofs` are over a set instead
(`NatSetInduction`, `TextInduction`), from the minimal element of a well-founded
set (`WFMin`). A recursive function is a CHOOSE to the provers, so that there is
one at all is shown first (`FlattenSteps`, `DecodedSteps`). All safety properties
of the passing runs are proved.

## 6. Findings

1. *Project overwritten.* A text at the photo step of a task falls through into
   the case of a family's project (`chanserv_on_any_message.cpp:329-341`) and
   replaces the project the user named before. Run `project`.
2. *A Telegram error ends the bot.* `run_pending()` is called outside the try
   block (`chanserv.cpp:126`), and both kinds of task send to Telegram. The
   comment at `chanserv.cpp:133` says such errors must not stop the bot. Run
   `main_loop_errors`.
3. *Finished, not archived.* `archiving_card`'s answer is not looked at
   (`chanserv_callbacks.cpp:287`): the row goes, the card stays open, and
   listchecker, which starts from the table, never sees it again. Run
   `list_checker_archive`.
4. *Pictures in a stranger's issue.* `create_task` returns 3 for an answer it
   cannot parse (`jiraapi.cpp:101`); its caller takes results from 3 on for the
   number of the new issue (`chanserv.cpp:304`), attaches the pictures to issue
   number 3 of the project and tells nobody. Run `issue_creation_pictures`.
5. *A summary cut inside an escape.* Subject and project are cut to 100 characters
   after they were escaped (`jiraapi.cpp:56`); the cut may leave a lone backslash
   before the dots, and Jira cannot parse the task. The comments at
   `chanserv.cpp:230` and `jiraapi.cpp:55` promise that everything in the query is
   escaped. Run `issue_text_summary`.

Seen while modelling, with no document that promises otherwise:

- if listchecker dies between the commit of an assignment and the message, the
  contractor is never told (the row is no longer pending);
- a card that moves from one contractor to another while under way, or between
  reading and writing, keeps the first contractor in the table;
- a card closed, met by a pass and reopened before the pass ends loses its row
  (`listchecker.cxx:320-334`);
- a key request whose every broadcast was refused stays pending though nobody
  has seen it (`support.cpp:498-506`), and an old button approves it;
- an old button of a key request approves a reason the user has typed since and
  staff has not seen, while the name is being asked;
- if the key of an approved request was inserted and the answer to the requester
  failed, the reason stays pending, and a later "reject" refuses him a key he has;
- the first two issues of a Jira project are taken for errors: support is told
  and their pictures are not attached;
- support is told that a Tekla issue could not be created when only the message
  to Tekla's administrator failed;
- a process that ends between "work has begun" and Jira leaves an issue without
  its Jira issue, and nobody knows;
- the pictures and answers of a dialogue left unfinished go into the Tekla issue
  that is begun next (`chanserv_callbacks.cpp:158-167` does not clear the task);
- a photo as the reason gives an empty reason, which staff can neither approve
  nor reject;
- after a restart any change of an issue mails its unchanged assignee once more:
  the map of notified assignees is in memory only (`jiraapi.h:51`);
- a contractor with a task under way who opens a new task or family sets
  `clicked_msg_id` to 0, and "finish" then does nothing until he starts another
  task or sends `/start` (`chanserv_callbacks.cpp:218-225`, `269`);
- that a task is not finished twice by two quick presses rests on Telegram's
  refusal to replace a keyboard by an equal one (`chanserv_callbacks.cpp:272`);
- if the answer to an edit is lost, a task blocks the others or shows "done"
  unfinished until a new list is asked for;
- a task finished from an old list is deleted although its card was given to
  another contractor meanwhile, and if both have it in their lists, staff is told
  twice (`chanserv_callbacks.cpp:268-291` asks neither row nor contractor);
- a late "start" at a task that is done brings "finish" back, and the task can be
  finished once more (`chanserv_callbacks.cpp:196-197`);
- a menu that is delivered while Telegram's answer is lost has dead buttons, and
  the menu before it keeps working;
- a contractor whose row was inserted while the answer to staff failed is unknown
  to chanserv until it reloads the list or is restarted, but known to the next
  start of listchecker;
- a failed UPDATE of the column lets `sync_distributed_card` return an old
  "rework" (`listchecker.cxx:156`), and an assigned card is thrown away: what
  `WorkIsNotThrownAway` excludes by its premise;
- most fields of a Trello card are escaped twice, so it shows `\n` and `\"`;
- fields whose escapes take a message of the list past 4096 characters make "my
  tasks" throw in a thread, which ends the bot (`chanserv.cpp:645-670`; what
  `ListingFits` excludes by its premise);
- the list of tasks of a family compares with "Создание семейства"
  (`chanserv.cpp:654`), the code stores "Создать семейство"
  (`chanserv_callbacks.cpp:252`), so the form for families never appears;
- a message to support in a catch block may itself throw.

## 7. Not modelled, and why

- Configuration, DBus, the profiling worker, image, supervision, CI and unit
  tests: read-only data, build, or output no state depends on. Supervision is
  what starts a process again in the crash actions.
- Texts and layout of keyboards and messages; the rows of table `buttons` are
  data (section 2, `Keyboards`). Staff is constant: a change needs a restart.
- The colour of cards, `send_file`, `reboot_host`, the host command, mailing as the
  bot and the GPT mode outside the session: output. `change_task_status` is
  called from nowhere.
- One-time codes, the comparison of tokens, dates: pure functions of bytes and
  time whose interesting part is arithmetic of a library; none touches a state
  modelled here.
- HTTP itself: a request is an answer, a refusal or a failure.
- In `Dialogue`, which sessions are evicted is a nondeterministic choice, so it
  covers every time to live; the clock is in `SessionStore`.
- Data races inside the Telegram library (the broadcast thread at
  `chanserv_on_any_message.cpp:117` uses the client beside the main thread).

## 8. Plan

Done, in the order of the plan, each with its proofs: `Access` and `Dialogue`
(with `Keyboards`), `MainLoop` and `TaskService`, `ListChecker`, `JiraAssignee`,
`IssueCreation`, `SessionStore`, `ContractorWork` and `IssueText`; then
`IssueTable`, through which `ContractorWork` and `ListChecker` are composed.

To come:

1. `MainLoop` composed with `JiraAssignee`, the webhooks of one being the queue of
   the other.
2. `Dialogue` composed with `SessionStore`, its choice of idle sessions refined by
   `Evicted`: who answers within the time to live keeps his dialogue.
3. One-time codes and the comparison of tokens as functions against reference
   definitions.
