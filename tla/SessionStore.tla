---------------------------- MODULE SessionStore ----------------------------
(***************************************************************************)
(* session_store and evict_idle_sessions: when a session is created, when  *)
(* it counts as used, and when it is thrown away.                          *)
(*                                                                         *)
(* The clock is modelled by ages: how long a session has not been used,    *)
(* and how long ago the last cleanup was.  The code only compares the two  *)
(* with a time to live and a period, so ages are counted up to a bound     *)
(* and stay there.                                             *)
(***************************************************************************)
EXTENDS Naturals

CONSTANTS
    Users,          \* Telegram users that talk to the bot
    TimeToLive,     \* session_ttl_hours, 24 if it is not positive
    CleanupPeriod,  \* a cleanup runs at most once in ten minutes
    MaxAge,         \* bound: ages are counted up to it
    NoSession

ASSUME SessionAssumption ==
    /\ TimeToLive \in Nat \ {0}
    /\ CleanupPeriod \in Nat \ {0}
    /\ MaxAge \in Nat
    /\ MaxAge > TimeToLive
    /\ MaxAge >= CleanupPeriod
    /\ NoSession \notin Nat

VARIABLES
    idle,          \* per user: now - last_activity, or NoSession
    sinceCleanup,  \* now - m_last_sessions_cleanup
    quiet          \* history: how long ago the user's own last message, or
                   \* last press that reached his session, was

sessions == <<idle, sinceCleanup, quiet>>

Ages == 0 .. MaxAge

InitSessions ==
    /\ idle = [u \in Users |-> NoSession]
    /\ sinceCleanup = 0
    /\ quiet = [u \in Users |-> 0]

HasSession(u) == idle[u] # NoSession

Older(age, d) == IF age + d > MaxAge THEN MaxAge ELSE age + d

TimePasses(d) ==
    /\ idle' = [u \in Users |-> IF HasSession(u) THEN Older(idle[u], d)
                                ELSE NoSession]
    /\ sinceCleanup' = Older(sinceCleanup, d)
    /\ quiet' = [u \in Users |-> IF HasSession(u) THEN Older(quiet[u], d)
                                 ELSE 0]

-----------------------------------------------------------------------------
Expired(u) == HasSession(u) /\ idle[u] > TimeToLive

CleanupDue == sinceCleanup >= CleanupPeriod

(* Those whose session the cleanup before a message erases, if it is due. *)
Evicted == IF CleanupDue THEN {u \in Users : Expired(u)} ELSE {}

(* Mutation: every message puts the cleanup off. *)
Dispatch_CleanupPutOff(u) ==
    /\ idle' = [v \in Users |-> IF v = u THEN 0
                                ELSE IF v \in Evicted THEN NoSession
                                ELSE idle[v]]
    /\ sinceCleanup' = 0
    /\ quiet' = [v \in Users |-> IF v \in Evicted \cup {u} THEN 0
                                 ELSE quiet[v]]

(* session_dispatcher, for a message of u: first the cleanup, which may    *)
(* take the sender's own session, then find or create.                     *)
Dispatch(u) ==
    /\ idle' = [v \in Users |-> IF v = u THEN 0
                                ELSE IF v \in Evicted THEN NoSession
                                ELSE idle[v]]
    /\ sinceCleanup' = IF CleanupDue THEN 0 ELSE sinceCleanup
    /\ quiet' = [v \in Users |-> IF v \in Evicted \cup {u} THEN 0
                                 ELSE quiet[v]]

(* Mutation: find returns the session without marking it as used. *)
Found_NotMarked(v) == idle[v]

(* find: a session that is looked up counts as used. *)
Found(v) == IF HasSession(v) THEN 0 ELSE NoSession

(* A button of u: only the sessions us are looked up, none is created.  A  *)
(* decision about a key looks up the requester's too.                      *)
LookUp(u, us) ==
    /\ idle' = [v \in Users |-> IF v \in us THEN Found(v) ELSE idle[v]]
    /\ quiet' = [quiet EXCEPT ![u] = IF u \in us THEN 0 ELSE @]
    /\ UNCHANGED sinceCleanup

Press(u) == HasSession(u) /\ LookUp(u, {u})

(* A decision of p about the request of r.  If r's session is gone and the *)
(* notice of that is delivered, the handler ends there.                    *)
Decide(p, r) ==
    \/ LookUp(p, {p, r})
    \/ ~HasSession(r) /\ LookUp(p, {})

(* The process ends: the sessions exist in memory only. *)
ForgetSessions ==
    /\ idle' = [u \in Users |-> NoSession]
    /\ sinceCleanup' = 0
    /\ quiet' = [u \in Users |-> 0]

NextSessions ==
    \/ TimePasses(1)
    \/ \E u \in Users : Dispatch(u) \/ Press(u)
    \/ \E p, r \in Users : Decide(p, r)
    \/ ForgetSessions

SessionSpec == InitSessions /\ [][NextSessions]_sessions

-----------------------------------------------------------------------------
(* Properties *)

SessionsTypeOK ==
    /\ idle \in [Users -> Ages \cup {NoSession}]
    /\ sinceCleanup \in Ages
    /\ quiet \in [Users -> Ages]

(* No session outlives its time to live by more than the time since the    *)
(* last cleanup, so that one more message after the period ends it: the    *)
(* table does not grow without bound (chanserv_on_any_message.cpp:68).     *)
IdleSessionsGo ==
    \A u \in Users : HasSession(u) => idle[u] <= TimeToLive + sinceCleanup

(* Nobody who has used the bot within the time to live loses his session,  *)
(* and with it his dialogue or his list of tasks, unless the process ends. *)
SessionsInUseStay ==
    [][ForgetSessions \/ \A u \in Users :
          HasSession(u) /\ quiet[u] <= TimeToLive => idle'[u] # NoSession]_sessions
=============================================================================
