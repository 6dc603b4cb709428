------------------------------ MODULE MainLoop ------------------------------
(***************************************************************************)
(* The threads of chanserv: the main thread with the long poll and the     *)
(* task queue, the thread of the Jira webhook server, the monitor thread   *)
(* that posts a report every four hours, and how they stop                 *)
(* (main.cpp:24-164, bot_start at chanserv.cpp:101-160, task_queue.h).     *)
(***************************************************************************)
EXTENDS Naturals, Sequences, FiniteSets, Functions

CONSTANTS
    Webhooks,    \* the requests Jira sends with a valid token
    Report,      \* the monitor's task, qt_bg_worker
    MaxReports   \* bound: how often the monitor posts

ASSUME MainLoopAssumption ==
    /\ IsFiniteSet(Webhooks)
    /\ Report \notin Webhooks
    /\ MaxReports \in Nat \ {0}

Tasks == Webhooks \cup {Report}

VARIABLES
    m_tasks,   \* task_queue::m_tasks
    batch,     \* the deque run_pending() has swapped out
    main,      \* where the main thread is
    stop,      \* g_stop_requested
    monitor,   \* where the monitor thread is; it holds stop_mutex in
               \* "posting", "testing" and "blocking"
    listener,  \* the webhook thread: "serving", "answering" or "done"
    posted,    \* history: the tasks in the order they were posted
    done,      \* history: the tasks in the order they were run
    lost       \* history: the tasks a throw has taken along

vars == <<m_tasks, batch, main, stop, monitor, listener, posted, done, lost>>

MainStates == {"connect", "check", "run", "batch", "poll", "sleep", "lastRun",
               "lastBatch", "failed", "returned", "barrier", "notify",
               "joinListener", "joinMonitor", "bye", "exited", "aborted"}
MonitorStates == {"start", "posting", "testing", "blocking", "waiting",
                  "notified", "timedOut", "done"}
ListenerStates == {"serving", "answering", "done"}

(* Without a secret, or when the port cannot be bound, the webhook thread  *)
(* ends at once.                                                           *)
Init ==
    /\ m_tasks = <<>> /\ batch = <<>>
    /\ main = "connect" /\ stop = FALSE
    /\ monitor = "start"
    /\ listener \in {"serving", "done"}
    /\ posted = <<>> /\ done = <<>> /\ lost = <<>>

(* Mutation: a posted task goes to the front of the deque. *)
Post_Front(t) ==
    /\ m_tasks' = <<t>> \o m_tasks
    /\ posted' = Append(posted, t)

(* task_queue::post *)
Post(t) ==
    /\ m_tasks' = Append(m_tasks, t)
    /\ posted' = Append(posted, t)

-----------------------------------------------------------------------------
(* The main thread *)

MonitorHoldsMutex == monitor \in {"posting", "testing", "blocking"}

MainUnchanged == UNCHANGED <<monitor, listener, posted, lost>>

(* getMe and deleteWebhook, before the loop: a Telegram error here also    *)
(* unwinds bot_start().                                                    *)
Connect ==
    /\ main = "connect"
    /\ main' \in {"check", "failed"}
    /\ UNCHANGED <<m_tasks, batch, stop, done>>
    /\ MainUnchanged

(* Mutation: the loop is left without a last run_pending(). *)
CheckStop_NoLastRun ==
    /\ main = "check"
    /\ main' = IF stop THEN "returned" ELSE "run"
    /\ UNCHANGED <<m_tasks, batch, stop, done>>
    /\ MainUnchanged

CheckStop ==
    /\ main = "check"
    /\ main' = IF stop THEN "lastRun" ELSE "run"
    /\ UNCHANGED <<m_tasks, batch, stop, done>>
    /\ MainUnchanged

(* Mutation: the queue is copied instead of swapped. *)
SwapQueue_Copied ==
    /\ main \in {"run", "lastRun"}
    /\ batch' = m_tasks
    /\ m_tasks' = m_tasks
    /\ main' = IF main = "run" THEN "batch" ELSE "lastBatch"
    /\ UNCHANGED <<stop, done>>
    /\ MainUnchanged

(* run_pending(): the queue is swapped out under the lock. *)
SwapQueue ==
    /\ main \in {"run", "lastRun"}
    /\ batch' = m_tasks
    /\ m_tasks' = <<>>
    /\ main' = IF main = "run" THEN "batch" ELSE "lastBatch"
    /\ UNCHANGED <<stop, done>>
    /\ MainUnchanged

RunTask ==
    /\ main \in {"batch", "lastBatch"}
    /\ batch # <<>>
    /\ done' = Append(done, Head(batch))
    /\ batch' = Tail(batch)
    /\ UNCHANGED <<m_tasks, main, stop>>
    /\ MainUnchanged

(* Both tasks send to Telegram first, and run_pending() is called outside  *)
(* the try block of the loop: the exception unwinds bot_start().           *)
TaskThrows ==
    /\ main \in {"batch", "lastBatch"}
    /\ batch # <<>>
    /\ batch' = <<>>
    /\ lost' = batch
    /\ main' = "failed"
    /\ UNCHANGED <<m_tasks, stop, done, monitor, listener, posted>>

BatchDone ==
    /\ main \in {"batch", "lastBatch"}
    /\ batch = <<>>
    /\ main' = IF main = "batch" THEN "poll" ELSE "returned"
    /\ UNCHANGED <<m_tasks, batch, stop, done>>
    /\ MainUnchanged

(* long_poll.start() returns after at most its timeout, or throws; the     *)
(* handlers it runs are module Dialogue.                                   *)
LongPoll ==
    /\ main = "poll"
    /\ main' \in {"check", "sleep"}
    /\ UNCHANGED <<m_tasks, batch, stop, done>>
    /\ MainUnchanged

(* Five seconds at most, cut short by stop. *)
Sleep ==
    /\ main = "sleep"
    /\ main' = "check"
    /\ UNCHANGED <<m_tasks, batch, stop, done>>
    /\ MainUnchanged

(* main.cpp:154, after bot_start() returned or threw. *)
RequestStop ==
    /\ main \in {"failed", "returned"}
    /\ stop' = TRUE
    /\ main' = "barrier"
    /\ UNCHANGED <<m_tasks, batch, done>>
    /\ MainUnchanged

(* Mutation: stop_mutex is not taken before the notification. *)
TakeStopMutex_NotTaken ==
    /\ main = "barrier"
    /\ main' = "notify"
    /\ UNCHANGED <<m_tasks, batch, stop, done>>
    /\ MainUnchanged

(* main.cpp:155 waits until the monitor does not hold stop_mutex. *)
TakeStopMutex ==
    /\ main = "barrier"
    /\ ~MonitorHoldsMutex
    /\ main' = "notify"
    /\ UNCHANGED <<m_tasks, batch, stop, done>>
    /\ MainUnchanged

NotifyAll ==
    /\ main = "notify"
    /\ monitor' = IF monitor = "waiting" THEN "notified" ELSE monitor
    /\ main' = "joinListener"
    /\ UNCHANGED <<m_tasks, batch, stop, listener, posted, done, lost>>

JoinListener ==
    /\ main = "joinListener"
    /\ listener = "done"
    /\ main' = "joinMonitor"
    /\ UNCHANGED <<m_tasks, batch, stop, done>>
    /\ MainUnchanged

JoinMonitor ==
    /\ main = "joinMonitor"
    /\ monitor = "done"
    /\ main' = "bye"
    /\ UNCHANGED <<m_tasks, batch, stop, done>>
    /\ MainUnchanged

(* The farewell to support is outside every try block. *)
Bye ==
    /\ main = "bye"
    /\ main' \in {"exited", "aborted"}
    /\ UNCHANGED <<m_tasks, batch, stop, done>>
    /\ MainUnchanged

Main == Connect \/ CheckStop \/ SwapQueue \/ RunTask \/ TaskThrows \/ BatchDone
        \/ LongPoll \/ Sleep \/ RequestStop \/ TakeStopMutex \/ NotifyAll
        \/ JoinListener \/ JoinMonitor \/ Bye

-----------------------------------------------------------------------------
(* The monitor thread: a do-while around wait_for with a predicate.        *)

LockStopMutex ==
    /\ monitor = "start"
    /\ monitor' = "posting"
    /\ UNCHANGED <<m_tasks, batch, main, stop, listener, posted, done, lost>>

PostReport ==
    /\ monitor = "posting"
    /\ Post(Report)
    /\ monitor' = "testing"
    /\ UNCHANGED <<batch, main, stop, listener, done, lost>>

(* The predicate of wait_for.  Between a false answer and the wait the     *)
(* thread still holds the mutex, but the flag may be set.                  *)
TestStop ==
    /\ monitor = "testing"
    /\ monitor' = IF stop THEN "done" ELSE "blocking"
    /\ UNCHANGED <<m_tasks, batch, main, stop, listener, posted, done, lost>>

Block ==
    /\ monitor = "blocking"
    /\ monitor' = "waiting"
    /\ UNCHANGED <<m_tasks, batch, main, stop, listener, posted, done, lost>>

Timeout ==
    /\ monitor = "waiting"
    /\ Len(SelectSeq(posted, LAMBDA t : t = Report)) < MaxReports
    /\ monitor' = "timedOut"
    /\ UNCHANGED <<m_tasks, batch, main, stop, listener, posted, done, lost>>

(* A condition variable may wake without a reason. *)
WakeSpuriously ==
    /\ monitor = "waiting"
    /\ monitor' = "notified"
    /\ UNCHANGED <<m_tasks, batch, main, stop, listener, posted, done, lost>>

(* Awake, with the mutex again: after the timeout wait_for returns the     *)
(* predicate, after a notification it goes back to testing it.             *)
WakeUp ==
    /\ monitor \in {"notified", "timedOut"}
    /\ monitor' = IF monitor = "notified" THEN "testing"
                  ELSE IF stop THEN "done" ELSE "posting"
    /\ UNCHANGED <<m_tasks, batch, main, stop, listener, posted, done, lost>>

Monitor == LockStopMutex \/ PostReport \/ TestStop \/ Block \/ WakeUp

-----------------------------------------------------------------------------
(* The webhook thread: one request at a time; the timer that looks at the  *)
(* stop flag runs in the same event loop.                                  *)

Receive(w) ==
    /\ listener = "serving"
    /\ w \notin Range(posted)
    /\ Post(w)
    /\ listener' = "answering"
    /\ UNCHANGED <<batch, main, stop, monitor, done, lost>>

(* "Queued", status 200 *)
Answer ==
    /\ listener = "answering"
    /\ listener' = "serving"
    /\ UNCHANGED <<m_tasks, batch, main, stop, monitor, posted, done, lost>>

QuitLoop ==
    /\ listener = "serving"
    /\ stop
    /\ listener' = "done"
    /\ UNCHANGED <<m_tasks, batch, main, stop, monitor, posted, done, lost>>

Listener == Answer \/ QuitLoop

-----------------------------------------------------------------------------
(* SIGINT or SIGTERM only sets the flag. *)
Signal ==
    /\ ~stop
    /\ stop' = TRUE
    /\ UNCHANGED <<m_tasks, batch, main, monitor, listener, posted, done, lost>>

Ended == main \in {"exited", "aborted"}

Terminating == Ended /\ UNCHANGED vars

Next == Main \/ Monitor \/ Timeout \/ WakeSpuriously
        \/ (\E w \in Webhooks : Receive(w))
        \/ Listener \/ Signal \/ Terminating

(* The operating system runs every thread that can run; a poll ends after  *)
(* its timeout of five seconds, a task returns or throws.  Nothing is      *)
(* assumed of signals, of requests, or of the four hours passing.          *)
Fairness == WF_vars(Main) /\ WF_vars(Monitor) /\ WF_vars(Listener)

Spec == Init /\ [][Next]_vars /\ Fairness

-----------------------------------------------------------------------------
(* Properties *)

TypeOK ==
    /\ m_tasks \in Seq(Tasks) /\ batch \in Seq(Tasks)
    /\ main \in MainStates /\ stop \in BOOLEAN
    /\ monitor \in MonitorStates /\ listener \in ListenerStates
    /\ posted \in Seq(Tasks) /\ done \in Seq(Tasks)
    /\ lost \in Seq(Tasks)

(* Every posted task has been run, was taken along by the throw of a task  *)
(* before it in the same batch, is in hand, or waits: nothing is lost,     *)
(* duplicated or overtaken, whatever other threads post between the swap   *)
(* and the end of a batch (main.cpp:96: strictly one after the other).     *)
NothingLostOrOvertaken == posted = done \o lost \o batch \o m_tasks

(* Once the main thread waits for the monitor to end, the monitor neither  *)
(* sleeps nor is about to: it has seen the flag, will see it, or was woken *)
(* (the empty critical section at main.cpp:155).                           *)
NotificationArrives ==
    main \in {"joinListener", "joinMonitor"}
        => monitor \notin {"blocking", "waiting"}

(* The main thread and its queue implement the service the posting         *)
(* threads rely on: first in, first out, each task once.                   *)
Service == INSTANCE TaskService WITH
              waiting <- batch \o m_tasks, serving <- lost = <<>>

ImplementsTaskService == Service!Spec

(* The stop reaches every thread: neither a notification sent while the    *)
(* monitor is about to block nor the join order leaves the process         *)
(* waiting, even if the monitor's four hours never pass.                   *)
StopEndsTheProcess == stop ~> Ended

(* What a webhook has queued while the loop runs is run, also when the     *)
(* stop arrives first (chanserv.cpp:139), unless a task throws.            *)
InLoop == main \in {"check", "run", "batch", "poll", "sleep"}

QueuedIsRun ==
    \A w \in Webhooks :
        w \in Range(posted) /\ InLoop /\ ~stop
            ~> w \in Range(done) \/ lost # <<>>

(* "Сетевые ошибки и ошибки Telegram не должны останавливать бота"         *)
(* (chanserv.cpp:133): the loop is left only when a stop was requested.    *)
TelegramErrorsDoNotStopTheBot == [][InLoop /\ ~InLoop' => stop]_vars
=============================================================================
