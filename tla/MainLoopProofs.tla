--------------------------- MODULE MainLoopProofs ---------------------------
(* What the threads of chanserv keep for any webhooks, and why main thread *)
(* and queue implement TaskService.                                        *)
(*                                                                         *)
(* The order of the tasks rests on where a batch can be: only between the  *)
(* swap and BatchDone, so the swap never overwrites one; and a throw is    *)
(* the last thing that happens to the queue, so what it drops is a         *)
(* contiguous piece of what was posted.                                    *)
EXTENDS MainLoop, SequenceTheorems, TLAPS

(* The main thread works on a batch. *)
InBatch == main \in {"batch", "lastBatch"}

(* The main thread has left, or is about to leave, bot_start(). *)
Stopping == main \in {"barrier", "notify", "joinListener", "joinMonitor",
                      "bye", "exited", "aborted"}

(* After a throw the loop is never entered again. *)
QueueInv ==
    /\ TypeOK
    /\ batch # <<>> => InBatch
    /\ lost # <<>> => main = "failed" \/ Stopping
    /\ NothingLostOrOvertaken

(* The main thread passes stop_mutex with the flag set: a monitor that     *)
(* takes the mutex later reads the flag before it blocks.                  *)
StopInv ==
    /\ TypeOK
    /\ Stopping => stop
    /\ main = "notify" => monitor # "blocking"
    /\ NotificationArrives

-----------------------------------------------------------------------------
(* A posted task lands at the end of what waits. *)
LEMMA PostedLast ==
    ASSUME NEW S, NEW a \in Seq(S), NEW b \in Seq(S), NEW t \in S
    PROVE  /\ Append(a, t) \in Seq(S)
           /\ a \o Append(b, t) = Append(a \o b, t)
<1>1. /\ <<t>> \in Seq(S) /\ a \o b \in Seq(S)
      /\ Append(b, t) = b \o <<t>> /\ Append(a \o b, t) = (a \o b) \o <<t>>
  BY ConcatProperties, AppendIsConcat
<1> QED
  BY <1>1, ConcatAssociative, AppendProperties

(* The first task of a batch is the first of what waits. *)
LEMMA FirstOfBatch ==
    ASSUME NEW S, NEW a \in Seq(S), NEW b \in Seq(S), a # <<>>
    PROVE  /\ a \o b # <<>>
           /\ Head(a \o b) = Head(a)
           /\ Tail(a \o b) = Tail(a) \o b
           /\ Tail(a) \in Seq(S) /\ Head(a) \in S
<1>1. /\ Tail(a) \in Seq(S) /\ Head(a) \in S /\ Len(Tail(a)) = Len(a) - 1
      /\ \A i \in 1 .. Len(Tail(a)) : Tail(a)[i] = a[i + 1]
  BY HeadTailProperties
<1>2. a \o b # <<>>
  BY ConcatEqualIffEmpty
<1>3. a \o b \in Seq(S) /\ Tail(a) \o b \in Seq(S)
  BY <1>1, ConcatProperties
<1>4. Head(a \o b) = Head(a)
  BY ConcatProperties, LenProperties
<1>5. Tail(a \o b) = Tail(a) \o b
  <2>1. Len(Tail(a \o b)) = Len(Tail(a) \o b)
    BY <1>1, <1>2, <1>3, ConcatProperties, HeadTailProperties, LenProperties
  <2>2. ASSUME NEW i \in 1 .. Len(Tail(a) \o b)
        PROVE  Tail(a \o b)[i] = (Tail(a) \o b)[i]
    BY <1>1, <1>2, <1>3, ConcatProperties, HeadTailProperties, LenProperties
  <2>3. Tail(a \o b) \in Seq(S)
    BY <1>2, <1>3, HeadTailProperties
  <2> QED
    BY <2>1, <2>2, <2>3, <1>3, SeqEqual
<1> QED
  BY <1>1, <1>2, <1>4, <1>5

(* A task that has been run moves from the front of the batch to the end   *)
(* of what is done.                                                        *)
LEMMA RunMovesHead ==
    ASSUME NEW S, NEW d \in Seq(S), NEW a \in Seq(S), NEW m \in Seq(S),
           a # <<>>
    PROVE  /\ Append(d, Head(a)) \o <<>> \o Tail(a) \o m = d \o <<>> \o a \o m
           /\ Append(d, Head(a)) \in Seq(S) /\ Tail(a) \in Seq(S)
<1> DEFINE h == <<Head(a)>>
<1>1. Tail(a) \in Seq(S) /\ Head(a) \in S /\ h \in Seq(S)
  BY HeadTailProperties
<1>2. Append(d, Head(a)) = d \o h /\ d \o h \in Seq(S)
  BY <1>1, AppendIsConcat, ConcatProperties
<1>3. a = h \o Tail(a)
  BY <1>1, SubSeqFull, SubSeqRecursiveFirst, TailIsSubSeq, LenProperties,
     HeadTailProperties
<1>4. (d \o h) \o Tail(a) = d \o a
  <2> HIDE DEF h
  <2>1. \A r \in Seq(S) : (d \o h) \o r = d \o (h \o r)
    <3> TAKE r \in Seq(S)
    <3>1. h \in Seq(S)
      BY <1>1
    <3> QED
      BY <3>1, ConcatAssociative, SMTT(30)
  <2> QED
    BY <2>1, <1>1, <1>3
<1>5. d \o <<>> = d /\ (d \o h) \o <<>> = d \o h
  BY <1>2, ConcatEmptySeq
<1> QED
  BY <1>1, <1>2, <1>4, <1>5

-----------------------------------------------------------------------------
(* Init satisfies every part of the invariants. *)
LEMMA InitKeeps == Init => TypeOK /\ QueueInv /\ StopInv
<1> SUFFICES ASSUME Init PROVE TypeOK /\ QueueInv /\ StopInv
  OBVIOUS
<1>1. \A S : <<>> \in Seq(S)
  BY EmptySeq
<1>2. TypeOK
  BY <1>1 DEF Init, TypeOK, MainStates, MonitorStates, ListenerStates
<1>3. posted = done \o lost \o batch \o m_tasks
  BY <1>1, ConcatEmptySeq DEF Init
<1> QED
  BY <1>2, <1>3 DEF Init, QueueInv, StopInv, NothingLostOrOvertaken, Stopping,
     NotificationArrives

(* Posting keeps the types of the two sequences it appends to. *)
LEMMA PostTyped ==
    ASSUME TypeOK, NEW t \in Tasks, Post(t)
    PROVE  m_tasks' \in Seq(Tasks) /\ posted' \in Seq(Tasks)
BY AppendProperties DEF TypeOK, Post

(* Every step keeps the types of the variables. *)
LEMMA TypePreserved == TypeOK /\ [Next]_vars => TypeOK'
<1> SUFFICES ASSUME TypeOK, [Next]_vars PROVE TypeOK'
  OBVIOUS
<1> USE DEF MainStates, MonitorStates, ListenerStates, MainUnchanged
<1>1. CASE RunTask
  <2>1. Head(batch) \in Tasks /\ Tail(batch) \in Seq(Tasks)
    BY <1>1, HeadTailProperties DEF RunTask, TypeOK
  <2>2. done' \in Seq(Tasks)
    BY <1>1, <2>1, AppendProperties DEF RunTask, TypeOK
  <2> QED
    BY <1>1, <2>1, <2>2 DEF RunTask, TypeOK
<1>2. CASE SwapQueue \/ TaskThrows
  BY <1>2, EmptySeq DEF SwapQueue, TaskThrows, TypeOK
<1>3. CASE Connect \/ CheckStop \/ BatchDone \/ LongPoll \/ Sleep
  BY <1>3 DEF Connect, CheckStop, BatchDone, LongPoll, Sleep, TypeOK
<1>4. CASE \/ RequestStop \/ TakeStopMutex \/ NotifyAll \/ JoinListener
           \/ JoinMonitor \/ Bye
  BY <1>4 DEF RequestStop, TakeStopMutex, NotifyAll, JoinListener,
     JoinMonitor, Bye, TypeOK
<1>5. CASE PostReport
  BY <1>5, PostTyped DEF PostReport, TypeOK, Tasks
<1>6. CASE LockStopMutex \/ TestStop \/ Block \/ WakeUp
  BY <1>6 DEF LockStopMutex, TestStop, Block, WakeUp, TypeOK
<1>7. CASE Timeout \/ WakeSpuriously \/ Listener \/ Signal
  BY <1>7 DEF Timeout, WakeSpuriously, Listener, Answer, QuitLoop, Signal,
     TypeOK
<1>8. ASSUME NEW w \in Webhooks, Receive(w)
      PROVE  TypeOK'
  BY <1>8, PostTyped DEF Receive, TypeOK, Tasks
<1>9. CASE UNCHANGED vars
  BY <1>9 DEF vars, TypeOK
<1> QED
  BY <1>1, <1>2, <1>3, <1>4, <1>5, <1>6, <1>7, <1>8, <1>9
  DEF Next, Main, Monitor, Terminating

(* The queue, the batch, the flag, the three program counters and the      *)
(* histories have their types.                                             *)
THEOREM TypeCorrect == Spec => []TypeOK
BY InitKeeps, TypePreserved, PTL DEF Spec

-----------------------------------------------------------------------------
(* Nothing is lost or overtaken. *)

(* What another thread posts goes to the end of the account of the queue. *)
LEMMA PostKeepsOrder ==
    ASSUME QueueInv, NEW t \in Tasks, Post(t),
           UNCHANGED <<batch, done, lost>>
    PROVE  NothingLostOrOvertaken'
<1>1. /\ done \in Seq(Tasks) /\ lost \in Seq(Tasks) /\ batch \in Seq(Tasks)
      /\ m_tasks \in Seq(Tasks)
  BY DEF QueueInv, TypeOK
<1>2. done \o lost \o batch \in Seq(Tasks)
  BY <1>1, ConcatProperties
<1>3. (done \o lost \o batch) \o Append(m_tasks, t)
        = Append((done \o lost \o batch) \o m_tasks, t)
  BY <1>1, <1>2, PostedLast
<1> QED
  BY <1>3 DEF Post, QueueInv, NothingLostOrOvertaken

(* A step keeps QueueInv. *)
LEMMA QueueInvInductive == QueueInv /\ [Next]_vars => QueueInv'
<1> SUFFICES ASSUME QueueInv, [Next]_vars PROVE QueueInv'
  OBVIOUS
<1>1. TypeOK'
  BY TypePreserved DEF QueueInv
<1>2. /\ done \in Seq(Tasks) /\ lost \in Seq(Tasks) /\ batch \in Seq(Tasks)
      /\ m_tasks \in Seq(Tasks)
  BY DEF QueueInv, TypeOK
<1> USE DEF InBatch, Stopping, MainUnchanged
<1>3. CASE SwapQueue
  <2>1. batch = <<>> /\ lost = <<>>
    BY <1>3 DEF SwapQueue, QueueInv
  <2>2. done \o <<>> \o <<>> \o m_tasks = done \o <<>> \o m_tasks \o <<>>
    <3>1. done \o <<>> = done /\ done \o m_tasks \in Seq(Tasks)
      BY <1>2, ConcatEmptySeq, ConcatProperties
    <3> QED
      BY <3>1, ConcatEmptySeq
  <2> QED
    BY <1>1, <1>3, <2>1, <2>2 DEF SwapQueue, QueueInv, NothingLostOrOvertaken
<1>4. CASE RunTask
  <2>1. lost = <<>>
    BY <1>4 DEF RunTask, QueueInv
  <2>2. Append(done, Head(batch)) \o <<>> \o Tail(batch) \o m_tasks
          = done \o <<>> \o batch \o m_tasks
    <3>1. batch # <<>>
      BY <1>4 DEF RunTask
    <3> QED
      BY <1>2, <3>1, RunMovesHead, SMTT(30)
  <2>3. done \o <<>> \o batch \o m_tasks = done \o lost \o batch \o m_tasks
    BY <2>1
  <2>4. NothingLostOrOvertaken'
    BY <1>4, <2>1, <2>2, <2>3 DEF RunTask, QueueInv, NothingLostOrOvertaken
  <2> QED
    BY <1>1, <1>4, <2>1, <2>4 DEF RunTask, QueueInv
<1>5. CASE TaskThrows
  <2>1. lost = <<>>
    BY <1>5 DEF TaskThrows, QueueInv
  <2>2. done \o <<>> \o batch \o m_tasks = done \o batch \o <<>> \o m_tasks
    <3>1. done \o <<>> = done /\ done \o batch \in Seq(Tasks)
      BY <1>2, ConcatEmptySeq, ConcatProperties
    <3> QED
      BY <3>1, ConcatEmptySeq
  <2> QED
    BY <1>1, <1>5, <2>1, <2>2 DEF TaskThrows, QueueInv, NothingLostOrOvertaken
<1>6. CASE BatchDone
  BY <1>1, <1>6 DEF BatchDone, QueueInv, NothingLostOrOvertaken
<1>7. CASE Connect \/ CheckStop \/ LongPoll \/ Sleep
  BY <1>1, <1>7 DEF Connect, CheckStop, LongPoll, Sleep, QueueInv,
     NothingLostOrOvertaken
<1>8. CASE \/ RequestStop \/ TakeStopMutex \/ NotifyAll \/ JoinListener
           \/ JoinMonitor \/ Bye
  BY <1>1, <1>8 DEF RequestStop, TakeStopMutex, NotifyAll, JoinListener,
     JoinMonitor, Bye, QueueInv, NothingLostOrOvertaken
<1>9. CASE PostReport
  <2>1. NothingLostOrOvertaken'
    BY <1>9, PostKeepsOrder DEF PostReport, Tasks
  <2> QED
    BY <1>1, <1>9, <2>1 DEF PostReport, QueueInv
<1>10. ASSUME NEW w \in Webhooks, Receive(w)
       PROVE  QueueInv'
  <2>1. NothingLostOrOvertaken'
    BY <1>10, PostKeepsOrder DEF Receive, Tasks
  <2> QED
    BY <1>1, <1>10, <2>1 DEF Receive, QueueInv
<1>11. CASE \/ LockStopMutex \/ TestStop \/ Block \/ WakeUp \/ Timeout
            \/ WakeSpuriously \/ Listener \/ Signal \/ UNCHANGED vars
  BY <1>1, <1>11 DEF LockStopMutex, TestStop, Block, WakeUp, Timeout,
     WakeSpuriously, Listener, Answer, QuitLoop, Signal, vars, QueueInv,
     NothingLostOrOvertaken
<1> QED
  BY <1>3, <1>4, <1>5, <1>6, <1>7, <1>8, <1>9, <1>10, <1>11
  DEF Next, Main, Monitor, Terminating

(* Posted tasks are run once and in the order they were posted, whatever   *)
(* the threads post between the swap and the end of a batch; only a throw  *)
(* drops tasks, and only those of its own batch.                           *)
THEOREM RunInOrder == Spec => []NothingLostOrOvertaken
<1>1. QueueInv => NothingLostOrOvertaken
  BY DEF QueueInv
<1> QED
  BY <1>1, InitKeeps, QueueInvInductive, PTL DEF Spec

-----------------------------------------------------------------------------
(* The stop reaches the monitor. *)

(* A step keeps StopInv. *)
LEMMA StopInvInductive == StopInv /\ [Next]_vars => StopInv'
<1> SUFFICES ASSUME StopInv, [Next]_vars PROVE StopInv'
  OBVIOUS
<1>1. TypeOK'
  BY TypePreserved DEF StopInv
<1> USE <1>1 DEF Stopping, NotificationArrives, StopInv, MainUnchanged
<1>2. CASE Connect \/ CheckStop \/ BatchDone \/ LongPoll \/ Sleep
  BY <1>2 DEF Connect, CheckStop, BatchDone, LongPoll, Sleep
<1>3. CASE SwapQueue \/ RunTask \/ TaskThrows
  BY <1>3 DEF SwapQueue, RunTask, TaskThrows
<1>4. CASE RequestStop \/ JoinListener \/ JoinMonitor \/ Bye
  BY <1>4 DEF RequestStop, JoinListener, JoinMonitor, Bye
<1>5. CASE TakeStopMutex
  BY <1>5 DEF TakeStopMutex, MonitorHoldsMutex
<1>6. CASE NotifyAll
  BY <1>6 DEF NotifyAll
<1>7. CASE TestStop
  BY <1>7 DEF TestStop
<1>8. CASE Block
  BY <1>8 DEF Block
<1>9. CASE LockStopMutex \/ PostReport \/ WakeUp
  BY <1>9 DEF LockStopMutex, PostReport, WakeUp
<1>10. CASE Timeout \/ WakeSpuriously \/ Listener \/ Signal \/ UNCHANGED vars
  BY <1>10 DEF Timeout, WakeSpuriously, Listener, Answer, QuitLoop, Signal,
     vars
<1>11. ASSUME NEW w \in Webhooks, Receive(w)
       PROVE  StopInv'
  BY <1>11 DEF Receive
<1> QED
  BY <1>2, <1>3, <1>4, <1>5, <1>6, <1>7, <1>8, <1>9, <1>10, <1>11
  DEF Next, Main, Monitor, Terminating

(* The notification is never lost: the main thread does not wait for a     *)
(* monitor that sleeps, or is about to sleep, for four hours.              *)
THEOREM MonitorIsWoken == Spec => []NotificationArrives
<1>1. StopInv => NotificationArrives
  BY DEF StopInv
<1> QED
  BY <1>1, InitKeeps, StopInvInductive, PTL DEF Spec

-----------------------------------------------------------------------------
(* Main thread and queue implement TaskService. *)

ServiceVars == <<batch \o m_tasks, done, lost = <<>>>>

ServiceNext == [Service!Next]_ServiceVars

(* A post of either thread is a post of the service. *)
LEMMA PostIsPost ==
    ASSUME QueueInv, NEW t \in Tasks, Post(t),
           UNCHANGED <<batch, done, lost>>
    PROVE  ServiceNext
<1>1. batch \o Append(m_tasks, t) = Append(batch \o m_tasks, t)
  BY PostedLast DEF QueueInv, TypeOK
<1>2. Service!Post(t)
  BY <1>1 DEF Post, Service!Post
<1> QED
  BY <1>2 DEF ServiceNext, Service!Next

(* Every step of the threads is a step of the service or none. *)
LEMMA StepIsServiceStep == QueueInv /\ [Next]_vars => ServiceNext
<1> SUFFICES ASSUME QueueInv, [Next]_vars PROVE ServiceNext
  OBVIOUS
<1>1. batch \in Seq(Tasks) /\ m_tasks \in Seq(Tasks)
  BY DEF QueueInv, TypeOK
<1> USE DEF MainUnchanged
<1>2. CASE SwapQueue
  <2>1. batch = <<>>
    BY <1>2 DEF SwapQueue, QueueInv, InBatch
  <2>2. m_tasks \o <<>> = <<>> \o m_tasks
    BY <1>1, ConcatEmptySeq
  <2> QED
    BY <1>2, <2>1, <2>2 DEF SwapQueue, ServiceNext, ServiceVars
<1>3. CASE RunTask
  <2>1. lost = <<>>
    BY <1>3 DEF RunTask, QueueInv, InBatch, Stopping
  <2>2. /\ batch \o m_tasks # <<>>
        /\ Head(batch \o m_tasks) = Head(batch)
        /\ Tail(batch \o m_tasks) = Tail(batch) \o m_tasks
    BY <1>1, <1>3, FirstOfBatch DEF RunTask
  <2>3. Service!Perform
    BY <1>3, <2>1, <2>2 DEF RunTask, Service!Perform
  <2> QED
    BY <2>3 DEF ServiceNext, Service!Next
<1>4. CASE TaskThrows
  <2>1. lost = <<>>
    BY <1>4 DEF TaskThrows, QueueInv, InBatch, Stopping
  <2>2. SubSeq(batch \o m_tasks, Len(batch) + 1, Len(batch \o m_tasks))
          = <<>> \o m_tasks
    <3>1. /\ batch \o m_tasks \in Seq(Tasks)
          /\ Len(batch \o m_tasks) = Len(batch) + Len(m_tasks)
          /\ Len(batch) \in Nat /\ Len(m_tasks) \in Nat
      BY <1>1, ConcatProperties, LenProperties
    <3>2. <<>> \o m_tasks = m_tasks
      BY <1>1, ConcatEmptySeq
    <3> DEFINE rest == SubSeq(batch \o m_tasks, Len(batch) + 1,
                              Len(batch) + Len(m_tasks))
    <3>3. /\ rest \in Seq(Tasks) /\ Len(rest) = Len(m_tasks)
          /\ \A i \in 1 .. Len(m_tasks) :
                rest[i] = (batch \o m_tasks)[Len(batch) + i]
      <4>1. \A i \in Len(batch) + 1 .. Len(batch) + Len(m_tasks) :
               (batch \o m_tasks)[i] \in Tasks
        BY <3>1, ElementOfSeq
      <4> QED
        BY <3>1, <4>1, SubSeqProperties
    <3>4. \A i \in 1 .. Len(m_tasks) :
             (batch \o m_tasks)[Len(batch) + i] = m_tasks[i]
      BY <1>1, <3>1, ConcatProperties
    <3>5. rest = m_tasks
      BY <1>1, <3>3, <3>4, SeqEqual
    <3> QED
      BY <3>1, <3>2, <3>5
  <2>3. Len(batch) \in 0 .. Len(batch \o m_tasks)
    BY <1>1, ConcatProperties, LenProperties
  <2>4. Service!End
    BY <1>4, <2>1, <2>2, <2>3 DEF TaskThrows, Service!End
  <2> QED
    BY <2>4 DEF ServiceNext, Service!Next
<1>5. CASE Connect \/ CheckStop \/ BatchDone \/ LongPoll \/ Sleep
  BY <1>5 DEF Connect, CheckStop, BatchDone, LongPoll, Sleep, ServiceNext,
     ServiceVars
<1>6. CASE \/ RequestStop \/ TakeStopMutex \/ NotifyAll \/ JoinListener
           \/ JoinMonitor \/ Bye
  BY <1>6 DEF RequestStop, TakeStopMutex, NotifyAll, JoinListener,
     JoinMonitor, Bye, ServiceNext, ServiceVars
<1>7. CASE PostReport
  BY <1>7, PostIsPost DEF PostReport, Tasks
<1>8. ASSUME NEW w \in Webhooks, Receive(w)
      PROVE  ServiceNext
  BY <1>8, PostIsPost DEF Receive, Tasks
<1>9. CASE \/ LockStopMutex \/ TestStop \/ Block \/ WakeUp \/ Timeout
           \/ WakeSpuriously \/ Listener \/ Signal \/ UNCHANGED vars
  BY <1>9 DEF LockStopMutex, TestStop, Block, WakeUp, Timeout,
     WakeSpuriously, Listener, Answer, QuitLoop, Signal, vars, ServiceNext,
     ServiceVars
<1> QED
  BY <1>2, <1>3, <1>4, <1>5, <1>6, <1>7, <1>8, <1>9
  DEF Next, Main, Monitor, Terminating

(* The threads that post may rely on a plain FIFO service: the swap, the   *)
(* batches and the stop of the main thread are invisible to them.          *)
THEOREM LoopIsTaskService == Spec => ImplementsTaskService
<1>1. Init => Service!Init
  BY EmptySeq, ConcatEmptySeq DEF Init, Service!Init
<1>2. QueueInv /\ [Next]_vars => ServiceNext
  BY StepIsServiceStep
<1> QED
  BY <1>1, <1>2, InitKeeps, QueueInvInductive, PTL
  DEF Spec, ImplementsTaskService, Service!Spec, ServiceNext, ServiceVars
=============================================================================
