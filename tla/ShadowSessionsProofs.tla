-------------------------- MODULE ShadowSessionsProofs --------------------------
(***************************************************************************)
(* Whatever clients and gates there are, the business code of the box is   *)
(* told of each closure once, no session is forgotten, and the timer       *)
(* detaches none whose gate is there.                                      *)
(***************************************************************************)
EXTENDS ShadowSessions, SequenceTheorems, FiniteSetTheorems, TLAPS

\* The parts of the type that the argument needs.
SessionsType ==
    /\ session \in [Clients -> {"none", "establishing", "attached", "refused", "detached"}]
    /\ shutdown \in [Clients -> BOOLEAN]
    /\ told \in [Clients -> Nat]
    /\ victims \subseteq Clients

\* A session is in the container, or among those the timer is about to close,
\* or has been closed: in one of these places, never in two.
Accounted ==
    \A c \in Clients :
        /\ session[c] # "detached" => told[c] = 0 /\ c \notin victims
        /\ session[c] = "detached" /\ c \in victims => told[c] = 0
        /\ session[c] = "detached" /\ c \notin victims => told[c] = 1

\* Who has been told finds the session shut down, for good.
Marked == \A c \in Clients : told[c] # 0 => shutdown[c] = TRUE

IInv == SessionsType /\ Accounted /\ Marked

-------------------------------------------------------------------------------
\* Nothing has happened to any session at first.
LEMMA InitIInv == Init => IInv
  BY DEF Init, IInv, SessionsType, Accounted, Marked

\* What the gates, the clients and the business code do keeps the invariant:
\* a closure notification detaches, marks and tells in one step, and finds
\* only sessions that the timer has not detached.
LEMMA SessionStep ==
  ASSUME IInv, NEW c \in Clients, Session(c)
  PROVE  IInv'
<1> USE DEF IInv, SessionsType, Accounted, Marked, timerVars
<1>1. CASE Websocket_establishment_request(c)
  BY <1>1 DEF Websocket_establishment_request
<1>2. CASE attach_session(c)
  BY <1>2 DEF attach_session
<1>3. CASE RefuseSession(c)
  BY <1>3 DEF RefuseSession
<1>4. CASE Shutdown(c)
  BY <1>4 DEF Shutdown
<1>5. CASE SendClosure(c)
  BY <1>5 DEF SendClosure
<1>6. CASE Websocket_closure_notification(c)
  <2>1. CASE session[c] = "attached"
    <3>1. /\ session' = [session EXCEPT ![c] = "detached"]
          /\ shutdown' = [shutdown EXCEPT ![c] = TRUE]
          /\ told' = [told EXCEPT ![c] = @ + 1]
          /\ victims' = victims
      BY <1>6, <2>1 DEF Websocket_closure_notification
    <3>2. told[c] = 0 /\ c \notin victims
      BY <2>1
    <3>3. told' = [told EXCEPT ![c] = 1]
      BY <3>1, <3>2
    <3>4. SessionsType'
      BY <3>1, <3>3
    <3>5. Accounted'
      BY <3>1, <3>2, <3>3
    <3>6. Marked'
      BY <3>1, <3>3
    <3> QED BY <3>4, <3>5, <3>6
  <2>2. CASE session[c] # "attached"
    BY <1>6, <2>2 DEF Websocket_closure_notification
  <2> QED BY <2>1, <2>2
<1>7. CASE LoseClosure(c)
  BY <1>7 DEF LoseClosure
<1> QED BY <1>1, <1>2, <1>3, <1>4, <1>5, <1>6, <1>7 DEF Session, Establishing

\* The timer takes sessions out of the container only when it has closed those
\* it took out before, and tells of each as it leaves the list.
LEMMA TimerStep ==
  ASSUME IInv, ping_timer_proc
  PROVE  IInv'
<1> USE DEF IInv, SessionsType, Accounted, Marked
<1>1. CASE Collect \/ Check \/ EndChecks \/ EndRun
  BY <1>1 DEF Collect, Check, EndChecks, EndRun
<1>2. CASE RemoveNext
  <2> DEFINE gone == {c \in Attached : PairOf[c] = Last(expired)}
  <2>1. /\ victims = {} /\ victims' = gone
        /\ session' = [c \in Clients |-> IF c \in gone THEN "detached" ELSE session[c]]
        /\ UNCHANGED <<shutdown, told>>
    BY <1>2 DEF RemoveNext
  <2>2. \A c \in gone : c \in Clients /\ session[c] = "attached"
    BY DEF Attached
  <2> HIDE DEF gone
  <2> QED BY <2>1, <2>2
<1>3. ASSUME NEW c \in Clients, CloseVictim(c)
      PROVE  IInv'
  BY <1>3 DEF CloseVictim
<1> QED BY <1>1, <1>2, <1>3 DEF ping_timer_proc

\* Every step, of a session or of the timer, keeps each session accounted for.
THEOREM Invariance == Spec => []IInv
<1>1. IInv /\ [Next]_vars => IInv'
  <2> SUFFICES ASSUME IInv, [Next]_vars PROVE IInv'
    OBVIOUS
  <2>1. CASE \E c \in Clients : Session(c)
    BY <2>1, SessionStep
  <2>2. CASE \E p \in Pairs : LosePair(p)
    BY <2>2 DEF LosePair, timerVars, IInv, SessionsType, Accounted, Marked
  <2>3. CASE ping_timer_proc
    BY <2>3, TimerStep
  <2>4. CASE UNCHANGED vars
    BY <2>4 DEF vars, timerVars, IInv, SessionsType, Accounted, Marked
  <2> QED BY <2>1, <2>2, <2>3, <2>4 DEF Next
<1> QED BY InitIInv, <1>1, PTL DEF Spec

(***************************************************************************)
(* However the closure notification of a gate, the timer and the business  *)
(* code race, handle_websocket_closure is called at most once for a        *)
(* session, which is then detached and shut down.                          *)
(***************************************************************************)
THEOREM ClosuresAreToldOnce == Spec => []ToldOnce
<1>1. IInv => ToldOnce
  BY DEF IInv, SessionsType, Accounted, Marked, ToldOnce
<1> QED BY <1>1, Invariance, PTL

(***************************************************************************)
(* No session leaves the container without the business code having been   *)
(* told, but those the timer still has on its list.                        *)
(***************************************************************************)
THEOREM SessionsAreNotForgotten == Spec => []NoneForgotten
<1>1. IInv => NoneForgotten
  BY DEF IInv, SessionsType, Accounted, Marked, NoneForgotten
<1> QED BY <1>1, Invariance, PTL

-------------------------------------------------------------------------------
\* The timer's own variables, and what it learns.
TimerType ==
    /\ up \in [Pairs -> BOOLEAN]
    /\ closure \in [Clients -> {"none", "sent", "over"}]
    /\ stage \in {"idle", "checking", "removing"}
    /\ expired \in Seq(Pairs) /\ index \in 1..(Len(expired) + 1)
    /\ collected \subseteq Clients
    /\ missed \subseteq Pairs

\* The container holds finitely many sessions.
ContainerIsFinite == IsFiniteSet(Attached)

\* What the checks have passed is gone, and in the end all that is left.
CheckedAreGone ==
    /\ stage = "checking" => \A i \in 1..(index - 1) : ~up[expired[i]]
    /\ stage = "removing" => \A i \in 1..Len(expired) : ~up[expired[i]]

TimerInv == IInv /\ TimerType /\ ContainerIsFinite /\ CheckedAreGone /\ OnlyGoneAreDetached

\* The set of what finitely many sessions belong to has a first, second, ... member.
LEMMA ImageIsFinite ==
  ASSUME NEW C \in SUBSET Clients, IsFiniteSet(C)
  PROVE  IsFiniteSet({PairOf[c] : c \in C}) /\ {PairOf[c] : c \in C} \subseteq Pairs
<1> DEFINE f == [c \in C |-> PairOf[c]]
           P == {PairOf[c] : c \in C}
<1>1. P \subseteq Pairs
  BY PairsAssumption
<1>2. f \in Surjection(C, P)
  BY DEF Surjection
<1>3. IsFiniteSet(P)
  BY <1>2, FS_Surjection
<1> QED BY <1>1, <1>3

\* Walking through a finite set of pairs visits pairs.
LEMMA InOrderType ==
  ASSUME NEW S \in SUBSET Pairs, IsFiniteSet(S), NEW s \in InOrder(S)
  PROVE  s \in Seq(Pairs)
<1>1. Cardinality(S) \in Nat
  BY FS_CardinalityType
<1>2. s \in [1..Cardinality(S) -> S]
  BY DEF InOrder, SetToSeqs
<1> QED BY <1>1, <1>2

\* What is left of a sequence of which one element has been erased.
LEMMA RemoveAtFacts ==
  ASSUME NEW S, NEW s \in Seq(S), NEW i \in 1..Len(s)
  PROVE  /\ RemoveAt(s, i) \in Seq(S)
         /\ Len(RemoveAt(s, i)) = Len(s) - 1
         /\ \A j \in 1..(i - 1) : RemoveAt(s, i)[j] = s[j]
<1> DEFINE a == SubSeq(s, 1, i - 1)
           b == SubSeq(s, i + 1, Len(s))
<1>1. Len(s) \in Nat
  OBVIOUS
<1>2. /\ a \in Seq(S) /\ Len(a) = i - 1
      /\ \A j \in 1..(i - 1) : a[j] = s[j]
  BY <1>1, SubSeqProperties
<1>3. b \in Seq(S) /\ Len(b) = Len(s) - i
  BY <1>1, SubSeqProperties
<1> HIDE DEF a, b
<1>4. a \o b \in Seq(S) /\ Len(a \o b) = Len(s) - 1
  <2>1. a \o b \in Seq(S) /\ Len(a \o b) = Len(a) + Len(b)
    BY <1>2, <1>3, ConcatProperties
  <2>2. Len(a) + Len(b) = Len(s) - 1
    BY <1>1, <1>2, <1>3
  <2> QED BY <2>1, <2>2
<1>5. ASSUME NEW j \in 1..(i - 1)
      PROVE  (a \o b)[j] = s[j]
  <2>1. j \in 1..(Len(a) + Len(b)) /\ j <= Len(a)
    BY <1>1, <1>2, <1>3
  <2>2. (a \o b)[j] = a[j]
    BY <1>2, <1>3, <2>1, ConcatProperties
  <2> QED BY <1>2, <2>2
<1>6. RemoveAt(s, i) = a \o b
  BY DEF RemoveAt, a, b
<1> QED BY <1>4, <1>5, <1>6

\* The container grows by one session at a time.
LEMMA AttachedStaysFinite ==
  ASSUME IInv, ContainerIsFinite, [Next]_vars
  PROVE  ContainerIsFinite'
<1> USE DEF IInv, SessionsType, timerVars
<1>1. ASSUME NEW c \in Clients, Attached' \subseteq Attached \cup {c}
      PROVE  ContainerIsFinite'
  <2>1. IsFiniteSet(Attached \cup {c})
    BY FS_AddElement DEF ContainerIsFinite
  <2> QED BY <1>1, <2>1, FS_Subset DEF ContainerIsFinite
<1>2. ASSUME Attached' \subseteq Attached
      PROVE  ContainerIsFinite'
  BY <1>2, FS_Subset DEF ContainerIsFinite
<1>3. ASSUME NEW c \in Clients, Session(c)
      PROVE  Attached' \subseteq Attached \cup {c}
  BY <1>3 DEF Attached, Session, Establishing, Websocket_establishment_request, attach_session,
              RefuseSession, Shutdown, SendClosure, Websocket_closure_notification, LoseClosure
<1>4. CASE \E p \in Pairs : LosePair(p)
  BY <1>2, <1>4 DEF Attached, LosePair
<1>5. CASE ping_timer_proc
  <2>1. CASE RemoveNext
    BY <1>2, <2>1 DEF Attached, RemoveNext
  <2>2. CASE Collect \/ Check \/ EndChecks \/ EndRun \/ \E c \in Clients : CloseVictim(c)
    BY <1>2, <2>2 DEF Attached, Collect, Check, EndChecks, EndRun, CloseVictim
  <2> QED BY <1>5, <2>1, <2>2 DEF ping_timer_proc
<1>6. CASE UNCHANGED vars
  BY <1>2, <1>6 DEF Attached, vars
<1> QED BY <1>1, <1>3, <1>4, <1>5, <1>6 DEF Next

\* A session leaves the container, other than by the timer, as its closure arrives.
LEMMA SessionKeepsTimer ==
  ASSUME TimerInv, NEW c \in Clients, Session(c)
  PROVE  TimerType' /\ CheckedAreGone' /\ OnlyGoneAreDetached'
<1> USE DEF TimerInv, TimerType, IInv, SessionsType, OnlyGoneAreDetached, timerVars
<1>1. UNCHANGED <<up, timerVars>>
  BY DEF Session, Establishing, Websocket_establishment_request, attach_session,
         RefuseSession, Shutdown, SendClosure, Websocket_closure_notification, LoseClosure
<1>2. CheckedAreGone'
  BY <1>1 DEF CheckedAreGone
<1>3. TimerType'
  BY <1>1 DEF Session, Establishing, Websocket_establishment_request, attach_session,
              RefuseSession, Shutdown, SendClosure, Websocket_closure_notification, LoseClosure
<1>4. OnlyGoneAreDetached'
  <2>1. CASE Websocket_establishment_request(c)
    BY <2>1 DEF Websocket_establishment_request
  <2>2. CASE attach_session(c)
    BY <2>2 DEF attach_session
  <2>3. CASE RefuseSession(c)
    BY <2>3 DEF RefuseSession
  <2>4. CASE Shutdown(c)
    BY <2>4 DEF Shutdown
  <2>5. CASE SendClosure(c)
    BY <2>5 DEF SendClosure
  <2>6. CASE Websocket_closure_notification(c)
    BY <2>6 DEF Websocket_closure_notification
  <2>7. CASE LoseClosure(c)
    BY <2>7 DEF LoseClosure
  <2> QED BY <2>1, <2>2, <2>3, <2>4, <2>5, <2>6, <2>7 DEF Session, Establishing
<1> QED BY <1>2, <1>3, <1>4

\* A gate found gone stays gone, so what the timer removes in the end may be
\* removed, although it looks at the gates one by one, and long before.
LEMMA TimerKeepsTimer ==
  ASSUME TimerInv, ping_timer_proc
  PROVE  TimerType' /\ CheckedAreGone' /\ OnlyGoneAreDetached'
<1> USE DEF TimerInv, TimerType, IInv, SessionsType
<1>0. Len(expired) \in Nat
  OBVIOUS
<1>1. CASE Collect
  <2>1. expired' \in Seq(Pairs)
    <3>1. Attached \in SUBSET Clients
      BY DEF Attached
    <3> QED BY <1>1, <3>1, ImageIsFinite, InOrderType DEF Collect, ContainerIsFinite
  <2>2. index' = 1 /\ 1 \in 1..(Len(expired') + 1)
    BY <1>1, <2>1, LenProperties DEF Collect
  <2>3. TimerType'
    BY <1>1, <2>1, <2>2 DEF Collect, Attached
  <2>4. CheckedAreGone'
    BY <1>1, <2>2 DEF Collect, CheckedAreGone
  <2>5. OnlyGoneAreDetached'
    BY <1>1 DEF Collect, OnlyGoneAreDetached
  <2> QED BY <2>3, <2>4, <2>5
<1>2. CASE Check
  <2>0. index \in 1..Len(expired) /\ stage' = "checking"
    BY <1>0, <1>2 DEF Check
  <2>1. CASE up[expired[index]]
    <3>1. expired' = RemoveAt(expired, index) /\ index' = index
      BY <1>2, <2>1 DEF Check
    <3>2. /\ expired' \in Seq(Pairs) /\ Len(expired') = Len(expired) - 1
          /\ \A j \in 1..(index - 1) : expired'[j] = expired[j]
      BY <2>0, <3>1, RemoveAtFacts
    <3>3. index' \in 1..(Len(expired') + 1)
      BY <1>0, <2>0, <3>1, <3>2
    <3>4. TimerType'
      BY <1>2, <3>2, <3>3 DEF Check
    <3>5. CheckedAreGone'
      BY <1>2, <2>0, <3>1, <3>2 DEF Check, CheckedAreGone
    <3> QED BY <1>2, <3>4, <3>5 DEF Check, OnlyGoneAreDetached
  <2>2. CASE ~up[expired[index]]
    <3>1. expired' = expired /\ index' = index + 1
      BY <1>2, <2>2 DEF Check
    <3>2. index' \in 1..(Len(expired') + 1)
      BY <1>0, <2>0, <3>1
    <3>3. TimerType'
      BY <1>2, <3>1, <3>2 DEF Check
    <3>4. CheckedAreGone'
      BY <1>0, <1>2, <2>0, <2>2, <3>1 DEF Check, CheckedAreGone
    <3> QED BY <1>2, <3>3, <3>4 DEF Check, OnlyGoneAreDetached
  <2> QED BY <2>1, <2>2
<1>3. CASE EndChecks
  <2>1. index - 1 = Len(expired) /\ expired' = expired /\ index' = 1 /\ up' = up
    BY <1>0, <1>3 DEF EndChecks
  <2>2. TimerType'
    BY <1>0, <1>3, <2>1 DEF EndChecks
  <2>3. CheckedAreGone'
    BY <1>3, <2>1 DEF EndChecks, CheckedAreGone
  <2> QED BY <1>3, <2>2, <2>3 DEF EndChecks, OnlyGoneAreDetached
<1>4. CASE RemoveNext
  <2> DEFINE gone == {c \in Attached : PairOf[c] = Last(expired)}
  <2>1. /\ stage = "removing" /\ index <= Len(expired) /\ index' = index + 1
        /\ session' = [c \in Clients |-> IF c \in gone THEN "detached" ELSE session[c]]
        /\ UNCHANGED <<up, closure, stage, expired, collected, missed>>
    BY <1>4 DEF RemoveNext
  <2>2. TimerType'
    BY <1>0, <2>1
  <2>3. CheckedAreGone'
    BY <2>1 DEF CheckedAreGone
  <2>4. ~up[Last(expired)]
    <3>1. Len(expired) \in 1..Len(expired)
      BY <1>0, <2>1
    <3> QED BY <2>1, <3>1 DEF CheckedAreGone, Last
  <2>5. \A c \in gone : ~up[PairOf[c]]
    BY <2>4
  <2> HIDE DEF gone
  <2>6. OnlyGoneAreDetached'
    BY <2>1, <2>5 DEF OnlyGoneAreDetached
  <2> QED BY <2>2, <2>3, <2>6
<1>5. CASE EndRun
  <2>1. \A c \in Clients : PairOf[c] \in Pairs
    BY PairsAssumption
  <2>2. missed' \subseteq Pairs
    BY <1>5, <2>1 DEF EndRun
  <2> QED BY <1>5, <2>2 DEF EndRun, CheckedAreGone, OnlyGoneAreDetached
<1>6. ASSUME NEW c \in Clients, CloseVictim(c)
      PROVE  TimerType' /\ CheckedAreGone' /\ OnlyGoneAreDetached'
  BY <1>6 DEF CloseVictim, CheckedAreGone, OnlyGoneAreDetached
<1> QED BY <1>1, <1>2, <1>3, <1>4, <1>5, <1>6 DEF ping_timer_proc

\* Whatever happens while the timer waits, what it has found gone is gone.
THEOREM TimerInvariance == Spec => []TimerInv
<1>1. Init => TimerType /\ ContainerIsFinite /\ CheckedAreGone /\ OnlyGoneAreDetached
  <2> SUFFICES ASSUME Init
               PROVE  TimerType /\ ContainerIsFinite /\ CheckedAreGone /\ OnlyGoneAreDetached
    OBVIOUS
  <2>1. Attached = {}
    BY DEF Init, Attached
  <2>2. ContainerIsFinite
    BY <2>1, FS_EmptySet DEF ContainerIsFinite
  <2>3. <<>> \in Seq(Pairs) /\ 1 \in 1..(Len(<<>>) + 1)
    OBVIOUS
  <2> QED BY <2>2, <2>3 DEF Init, TimerType, CheckedAreGone, OnlyGoneAreDetached
<1>2. TimerInv /\ [Next]_vars
        => (TimerType /\ ContainerIsFinite /\ CheckedAreGone /\ OnlyGoneAreDetached)'
  <2> SUFFICES ASSUME TimerInv, [Next]_vars
               PROVE  TimerType' /\ CheckedAreGone' /\ OnlyGoneAreDetached'
    BY AttachedStaysFinite DEF TimerInv
  <2>1. CASE \E c \in Clients : Session(c)
    BY <2>1, SessionKeepsTimer
  <2>2. ASSUME NEW p \in Pairs, LosePair(p)
        PROVE  TimerType' /\ CheckedAreGone' /\ OnlyGoneAreDetached'
    <3>1. up' = [up EXCEPT ![p] = FALSE] /\ UNCHANGED <<session, closure, timerVars>>
      BY <2>2 DEF LosePair
    <3>2. up' \in [Pairs -> BOOLEAN] /\ \A q \in Pairs : ~up[q] => ~up'[q]
      BY <3>1 DEF TimerInv, TimerType
    <3>3. TimerType'
      BY <3>1, <3>2 DEF TimerInv, TimerType, timerVars
    <3>4. \A i \in 1..Len(expired) : expired[i] \in Pairs
      BY DEF TimerInv, TimerType
    <3>5. index - 1 <= Len(expired)
      BY DEF TimerInv, TimerType
    <3>6. CheckedAreGone'
      <4>1. \A i \in 1..(index - 1) : i \in 1..Len(expired)
        BY <3>5 DEF TimerInv, TimerType
      <4> QED BY <3>1, <3>2, <3>4, <4>1 DEF TimerInv, CheckedAreGone, timerVars
    <3>7. OnlyGoneAreDetached'
      BY <3>1, <3>2, PairsAssumption DEF TimerInv, OnlyGoneAreDetached
    <3> QED BY <3>3, <3>6, <3>7
  <2>3. CASE ping_timer_proc
    BY <2>3, TimerKeepsTimer
  <2>4. CASE UNCHANGED vars
    BY <2>4 DEF vars, TimerInv, TimerType, CheckedAreGone, OnlyGoneAreDetached
  <2> QED BY <2>1, <2>2, <2>3, <2>4 DEF Next
<1>3. TimerInv <=> IInv /\ TimerType /\ ContainerIsFinite /\ CheckedAreGone /\ OnlyGoneAreDetached
  BY DEF TimerInv
<1> QED BY <1>1, <1>2, <1>3, Invariance, PTL DEF Spec

\* Every variable of the supervisor and of its timer keeps its type.
THEOREM TypeCorrect == Spec => []TypeOK
<1>1. TimerInv => TypeOK
  BY DEF TimerInv, TimerType, IInv, SessionsType, TypeOK
<1> QED BY <1>1, TimerInvariance, PTL

(***************************************************************************)
(* The timer asks for one gate after another, waiting for each answer with *)
(* the container unlocked, and erases from its list while it walks through *)
(* it: still the sessions it detaches are those of a gate that cannot be   *)
(* reached, and every other one is detached because the gate said so.      *)
(***************************************************************************)
THEOREM TheReachableStay == Spec => []OnlyGoneAreDetached
<1>1. TimerInv => OnlyGoneAreDetached
  BY DEF TimerInv
<1> QED BY <1>1, TimerInvariance, PTL

===============================================================================
