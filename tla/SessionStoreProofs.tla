------------------------- MODULE SessionStoreProofs -------------------------
(***************************************************************************)
(* The sessions of SessionStore, for any users, time to live and period.   *)
(* An eviction looks at the age the store keeps, the property at the time  *)
(* the user himself was quiet: the invariant that joins them is that the   *)
(* store never thinks a session older than its user is quiet.              *)
(***************************************************************************)
EXTENDS SessionStore, TLAPS

KnownYoung == \A u \in Users : HasSession(u) => idle[u] <= quiet[u]

SessionInv == SessionsTypeOK /\ IdleSessionsGo /\ KnownYoung

-----------------------------------------------------------------------------
(* Ages grow to the bound and keep their order. *)
LEMMA OlderAge ==
    \A a \in Ages : Older(a, 1) \in Ages
BY SessionAssumption DEF Ages, Older

LEMMA OlderKeepsOrder ==
    \A a, b \in Ages : a <= b => Older(a, 1) <= Older(b, 1)
BY SessionAssumption DEF Ages, Older

LEMMA OlderKeepsLag ==
    \A a, b \in Ages :
        a <= TimeToLive + b => Older(a, 1) <= TimeToLive + Older(b, 1)
BY SessionAssumption DEF Ages, Older

LEMMA ZeroIsAnAge == 0 \in Ages /\ NoSession \notin Ages
BY SessionAssumption DEF Ages

LEMMA SessionsInit == InitSessions => SessionInv
BY SessionAssumption, ZeroIsAnAge
   DEF InitSessions, SessionInv, SessionsTypeOK, IdleSessionsGo, KnownYoung,
       HasSession

LEMMA TimePassesKeeps == SessionInv /\ TimePasses(1) => SessionInv'
<1>1. SUFFICES ASSUME SessionInv, TimePasses(1) PROVE SessionInv'
  OBVIOUS
<1>2. SessionsTypeOK'
  BY <1>1, OlderAge, ZeroIsAnAge
     DEF SessionInv, SessionsTypeOK, TimePasses, HasSession
<1>3. \A u \in Users : HasSession(u)' =>
         /\ HasSession(u)
         /\ idle[u] \in Ages
         /\ idle'[u] = Older(idle[u], 1)
         /\ quiet'[u] = Older(quiet[u], 1)
  BY <1>1 DEF SessionInv, SessionsTypeOK, TimePasses, HasSession
<1>4. IdleSessionsGo'
  BY <1>1, <1>3, OlderKeepsLag
     DEF SessionInv, SessionsTypeOK, IdleSessionsGo, TimePasses
<1>5. KnownYoung'
  BY <1>1, <1>3, OlderKeepsOrder DEF SessionInv, SessionsTypeOK, KnownYoung
<1> QED BY <1>2, <1>4, <1>5 DEF SessionInv

LEMMA DispatchKeeps ==
    \A u \in Users : SessionInv /\ Dispatch(u) => SessionInv'
<1>1. SUFFICES ASSUME NEW u \in Users, SessionInv, Dispatch(u)
               PROVE SessionInv'
  OBVIOUS
<1>2. SessionsTypeOK'
  BY <1>1, ZeroIsAnAge DEF SessionInv, SessionsTypeOK, Dispatch
<1>3. ASSUME NEW v \in Users, HasSession(v)' PROVE
         /\ idle'[v] <= TimeToLive + sinceCleanup'
         /\ idle'[v] <= quiet'[v]
  <2>1. CASE v = u
    BY <1>1, <2>1, ZeroIsAnAge, SessionAssumption
       DEF SessionInv, SessionsTypeOK, Dispatch, Ages
  <2>2. CASE v # u
    <3>1. v \notin Evicted /\ idle'[v] = idle[v] /\ quiet'[v] = quiet[v]
      BY <1>1, <1>3, <2>2
         DEF SessionInv, SessionsTypeOK, Dispatch, HasSession
    <3>2. HasSession(v) /\ idle[v] \in Ages
      BY <1>1, <1>3, <3>1 DEF SessionInv, SessionsTypeOK, HasSession
    <3>3. CASE CleanupDue
      BY <1>1, <3>1, <3>2, <3>3, SessionAssumption
         DEF SessionInv, SessionsTypeOK, KnownYoung, Dispatch, Evicted,
             Expired, Ages
    <3>4. CASE ~CleanupDue
      BY <1>1, <3>1, <3>2, <3>4
         DEF SessionInv, IdleSessionsGo, KnownYoung, Dispatch
    <3> QED BY <3>3, <3>4
  <2> QED BY <2>1, <2>2
<1> QED BY <1>2, <1>3 DEF SessionInv, IdleSessionsGo, KnownYoung

LEMMA LookUpKeeps ==
    \A u \in Users, us \in SUBSET Users :
        SessionInv /\ LookUp(u, us) => SessionInv'
<1>1. SUFFICES ASSUME NEW u \in Users, NEW us \in SUBSET Users,
                      SessionInv, LookUp(u, us)
               PROVE SessionInv'
  OBVIOUS
<1>2. SessionsTypeOK'
  BY <1>1, ZeroIsAnAge DEF SessionInv, SessionsTypeOK, LookUp, Found
<1>3. ASSUME NEW v \in Users, HasSession(v)' PROVE
         /\ idle'[v] <= TimeToLive + sinceCleanup'
         /\ idle'[v] <= quiet'[v]
  <2>1. HasSession(v) /\ idle[v] \in Ages
    BY <1>1, <1>3 DEF SessionInv, SessionsTypeOK, LookUp, Found, HasSession
  <2>2. CASE v \in us
    BY <1>1, <1>2, <2>1, <2>2, SessionAssumption
       DEF SessionInv, SessionsTypeOK, LookUp, Found, Ages
  <2>3. CASE v \notin us
    <3>1. idle'[v] = idle[v] /\ sinceCleanup' = sinceCleanup
      BY <1>1, <2>3 DEF SessionInv, SessionsTypeOK, LookUp
    <3>2. quiet'[v] = quiet[v]
      BY <1>1, <2>3 DEF SessionInv, SessionsTypeOK, LookUp
    <3> QED BY <1>1, <2>1, <3>1, <3>2
            DEF SessionInv, IdleSessionsGo, KnownYoung
  <2> QED BY <2>2, <2>3
<1> QED BY <1>2, <1>3 DEF SessionInv, IdleSessionsGo, KnownYoung

LEMMA SessionStepKeeps ==
    SessionInv /\ [NextSessions]_sessions => SessionInv'
<1>1. SUFFICES ASSUME SessionInv, [NextSessions]_sessions PROVE SessionInv'
  OBVIOUS
<1>2. CASE TimePasses(1)
  BY <1>1, <1>2, TimePassesKeeps
<1>3. ASSUME NEW u \in Users, Dispatch(u) PROVE SessionInv'
  BY <1>1, <1>3, DispatchKeeps
<1>4. ASSUME NEW u \in Users, Press(u) PROVE SessionInv'
  BY <1>1, <1>4, LookUpKeeps DEF Press
<1>5. ASSUME NEW p \in Users, NEW r \in Users, Decide(p, r) PROVE SessionInv'
  BY <1>1, <1>5, LookUpKeeps DEF Decide
<1>6. CASE ForgetSessions
  BY <1>6, SessionAssumption, ZeroIsAnAge
     DEF ForgetSessions, SessionInv, SessionsTypeOK, IdleSessionsGo,
         KnownYoung, HasSession
<1>7. CASE UNCHANGED sessions
  BY <1>1, <1>7
     DEF sessions, SessionInv, SessionsTypeOK, IdleSessionsGo, KnownYoung,
         HasSession
<1> QED BY <1>1, <1>2, <1>3, <1>4, <1>5, <1>6, <1>7 DEF NextSessions

THEOREM SessionInvariant == SessionSpec => []SessionInv
BY SessionsInit, SessionStepKeeps, PTL DEF SessionSpec

-----------------------------------------------------------------------------
(* No session outlives its time to live by more than the time since the    *)
(* last cleanup of evict_idle_sessions, for any users and periods.         *)
THEOREM IdleSessionsAreEvicted == SessionSpec => []IdleSessionsGo
<1>1. SessionInv => IdleSessionsGo
  BY DEF SessionInv
<1> QED BY <1>1, SessionInvariant, PTL

(* A session is only thrown away when its user has been quiet for longer   *)
(* than the time to live.                                                  *)
LEMMA StepKeepsSessionsInUse ==
    SessionInv /\ NextSessions =>
        \/ ForgetSessions
        \/ \A u \in Users :
              HasSession(u) /\ quiet[u] <= TimeToLive => idle'[u] # NoSession
<1>1. SUFFICES ASSUME SessionInv, NextSessions, ~ForgetSessions,
                      NEW u \in Users, HasSession(u), quiet[u] <= TimeToLive
               PROVE  idle'[u] # NoSession
  OBVIOUS
<1>2. idle[u] \in Ages /\ idle[u] <= TimeToLive /\ quiet[u] \in Ages
  BY <1>1, SessionAssumption
     DEF SessionInv, SessionsTypeOK, KnownYoung, HasSession, Ages
<1>3. CASE TimePasses(1)
  BY <1>1, <1>2, <1>3, OlderAge, ZeroIsAnAge DEF TimePasses
<1>4. ASSUME NEW v \in Users, Dispatch(v) PROVE idle'[u] # NoSession
  <2>1. u \notin Evicted
    BY <1>2, SessionAssumption DEF Evicted, Expired, Ages
  <2> QED BY <1>1, <1>2, <1>4, <2>1, ZeroIsAnAge DEF Dispatch
<1>5. ASSUME NEW v \in Users, NEW us \in SUBSET Users, LookUp(v, us)
      PROVE idle'[u] # NoSession
  BY <1>1, <1>2, <1>5, ZeroIsAnAge DEF LookUp, Found
<1> QED BY <1>1, <1>3, <1>4, <1>5 DEF NextSessions, Press, Decide

(* Whoever has used the bot within the time to live keeps his session and  *)
(* all it holds, whoever else writes or presses, until the process ends.   *)
THEOREM SessionsInUseAreKept == SessionSpec => SessionsInUseStay
<1>1. SessionInv /\ [NextSessions]_sessions =>
        [ForgetSessions \/ \A u \in Users :
           HasSession(u) /\ quiet[u] <= TimeToLive
              => idle'[u] # NoSession]_sessions
  BY StepKeepsSessionsInUse
<1> QED BY <1>1, SessionInvariant, PTL DEF SessionSpec, SessionsInUseStay
=============================================================================
