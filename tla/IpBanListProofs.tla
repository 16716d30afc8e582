---------------------------- MODULE IpBanListProofs ----------------------------
(***************************************************************************)
(* For any addresses, counters, maxima and durations: a ban lasts exactly  *)
(* as long as it was imposed for, and nobody is banned for events that one *)
(* window does not hold; and if bans last at least as long as windows, an  *)
(* address that is not banned has had at most twice the maximum of events  *)
(* in the last window.                                                     *)
(***************************************************************************)
EXTENDS IpBanList, FiniteSetTheorems, TLAPS

\* The parts of the type that the argument needs.
ListType ==
    /\ element \in [Ips -> Elements]
    /\ now \in Nat
    /\ bannedUntil \in [Ips -> Nat]

\* While a ban of ip lasts, the container remembers it, and the deadline by
\* which it forgets is the end of the ban; it remembers no other ban of ip.
Remembered(ip) ==
    /\ bannedUntil[ip] > now =>
        /\ element[ip].present
        /\ element[ip].ban_expiry_time = bannedUntil[ip]
        /\ element[ip].expiry_time = bannedUntil[ip]
    /\ element[ip].present /\ element[ip].ban_expiry_time > now =>
        element[ip].ban_expiry_time = bannedUntil[ip]

IInv == ListType /\ \A ip \in Ips : Remembered(ip)

-------------------------------------------------------------------------------
\* What is in the container has the fields of an element, and what is absent
\* is Absent.
LEMMA ElementFacts ==
  ASSUME NEW e \in Elements
  PROVE  /\ e.present \in BOOLEAN
         /\ e.present =>
             /\ e.expiry_time \in Nat /\ e.ban_expiry_time \in Nat
             /\ e.counters \in [Counters -> Nat]
             /\ e \in [present: {TRUE}, expiry_time: Nat, counters: [Counters -> Nat],
                       ban_expiry_time: Nat]
<1>1. CASE e = Absent
  BY <1>1 DEF Absent
<1>2. CASE e \in [present: {TRUE}, expiry_time: Nat, counters: [Counters -> Nat],
                 ban_expiry_time: Nat]
  BY <1>2
<1> QED BY <1>1, <1>2 DEF Elements

\* The elements that are present.
Present ==
    [present: {TRUE}, expiry_time: Nat, counters: [Counters -> Nat], ban_expiry_time: Nat]

\* Another count leaves an element its deadlines.
LEMMA CountedFacts ==
  ASSUME NEW e \in Present, NEW c \in Counters
  PROVE  LET f == [e EXCEPT !.counters[c] = @ + 1] IN
         /\ f \in Present
         /\ f.expiry_time = e.expiry_time
         /\ f.ban_expiry_time = e.ban_expiry_time
<1> DEFINE n == [e.counters EXCEPT ![c] = @ + 1]
<1>1. n \in [Counters -> Nat]
  BY DEF Present
<1>2. [e EXCEPT !.counters[c] = @ + 1] = [e EXCEPT !.counters = n]
  OBVIOUS
<1> HIDE DEF n
<1>3. [e EXCEPT !.counters = n] \in Present
  BY <1>1 DEF Present
<1>4. /\ [e EXCEPT !.counters = n].expiry_time = e.expiry_time
      /\ [e EXCEPT !.counters = n].ban_expiry_time = e.ban_expiry_time
  BY DEF Present
<1> QED BY <1>2, <1>3, <1>4

\* A ban sets both deadlines to its end.
LEMMA BannedFacts ==
  ASSUME NEW e \in Present, now + BanDuration \in Nat
  PROVE  /\ Banned(e) \in Present
         /\ Banned(e).expiry_time = now + BanDuration
         /\ Banned(e).ban_expiry_time = now + BanDuration
<1>1. ASSUME NEW x \in Nat
      PROVE  LET f == [e EXCEPT !.expiry_time = x, !.ban_expiry_time = x] IN
             f \in Present /\ f.expiry_time = x /\ f.ban_expiry_time = x
  <2>1. [e EXCEPT !.expiry_time = x, !.ban_expiry_time = x] \in Present
    BY DEF Present
  <2>2. /\ [e EXCEPT !.expiry_time = x, !.ban_expiry_time = x].expiry_time = x
        /\ [e EXCEPT !.expiry_time = x, !.ban_expiry_time = x].ban_expiry_time = x
    BY DEF Present
  <2> QED BY <2>1, <2>2
<1> QED BY <1>1 DEF Banned

\* An address with a ban that lasts is not erased, and an erased one had none.
LEMMA AfterExpiryFacts ==
  ASSUME IInv, NEW ip \in Ips
  PROVE  /\ AfterExpiry(ip) \in Elements
         /\ AfterExpiry(ip).present => AfterExpiry(ip) = element[ip]
         /\ bannedUntil[ip] > now => AfterExpiry(ip) = element[ip]
<1>1. element[ip] \in Elements /\ Absent \in Elements /\ Absent.present = FALSE
  BY DEF IInv, ListType, Elements, Absent
<1>2. bannedUntil[ip] > now => ~Expired(ip)
  <2> SUFFICES ASSUME bannedUntil[ip] > now PROVE ~(element[ip].expiry_time <= now)
    BY DEF Expired
  <2> QED BY DEF IInv, ListType, Remembered
<1> QED BY <1>1, <1>2 DEF AfterExpiry

\* The element that an event is counted in has the ban of the address, if
\* there is one that lasts.
LEMMA FindOrCreateFacts ==
  ASSUME IInv, NEW ip \in Ips
  PROVE  LET e == FindOrCreate(ip) IN
         /\ e \in [present: {TRUE}, expiry_time: Nat, counters: [Counters -> Nat],
                   ban_expiry_time: Nat]
         /\ bannedUntil[ip] > now => e = element[ip]
         /\ e.ban_expiry_time > now => e = element[ip]
<1>1. now \in Nat /\ now + Window \in Nat
  BY DurationsAssumption DEF IInv, ListType
<1>2. CASE AfterExpiry(ip).present
  <2>1. FindOrCreate(ip) = element[ip]
    BY <1>2, AfterExpiryFacts DEF FindOrCreate
  <2> QED BY <1>2, <2>1, AfterExpiryFacts, ElementFacts
<1>3. CASE ~AfterExpiry(ip).present
  <2>1. FindOrCreate(ip) = [present |-> TRUE, expiry_time |-> now + Window,
             counters |-> [c \in Counters |-> 0], ban_expiry_time |-> 0]
    BY <1>3 DEF FindOrCreate
  <2>2. ~(bannedUntil[ip] > now)
    BY <1>3, AfterExpiryFacts DEF IInv, Remembered
  <2> QED BY <1>1, <2>1, <2>2
<1> QED BY <1>2, <1>3

\* Counting changes neither deadline, and a ban sets both to its end.
LEMMA CountStep ==
  ASSUME IInv, NEW ip \in Ips, NEW c \in Counters, accumulate_and_check_ban(ip, c)
  PROVE  IInv'
<1> DEFINE found   == FindOrCreate(ip)
           counted == [found EXCEPT !.counters[c] = @ + 1]
           bans    == ReachesMax(counted.counters[c], c)
           next    == IF bans THEN Banned(counted) ELSE counted
           end     == now + BanDuration
<1>1. /\ found \in Present
      /\ bannedUntil[ip] > now => found = element[ip]
      /\ found.ban_expiry_time > now => found = element[ip]
  BY FindOrCreateFacts DEF Present
<1>2. /\ counted \in Present
      /\ counted.expiry_time = found.expiry_time
      /\ counted.ban_expiry_time = found.ban_expiry_time
  BY <1>1, CountedFacts
<1>3. now \in Nat /\ end \in Nat /\ end > now
  BY DurationsAssumption DEF IInv, ListType
<1>4. /\ Banned(counted) \in Present
      /\ Banned(counted).expiry_time = end
      /\ Banned(counted).ban_expiry_time = end
  BY <1>2, <1>3, BannedFacts
<1>5. /\ element' = [x \in Ips |-> IF x # ip THEN AfterExpiry(x) ELSE next]
      /\ bannedUntil' = IF bans THEN [bannedUntil EXCEPT ![ip] = end] ELSE bannedUntil
      /\ now' = now
  BY DEF accumulate_and_check_ban
<1>6. next \in Present /\ Present \subseteq Elements
  BY <1>2, <1>4 DEF Elements, Present
<1> HIDE DEF next, counted, found, bans
<1>7. ListType'
  BY <1>3, <1>5, <1>6, AfterExpiryFacts DEF IInv, ListType
<1>8. ASSUME NEW x \in Ips, x # ip
      PROVE  Remembered(x)'
  <2>1. element'[x] = AfterExpiry(x) /\ bannedUntil'[x] = bannedUntil[x] /\ now' = now
    BY <1>5, <1>8 DEF IInv, ListType
  <2> QED BY <2>1, AfterExpiryFacts DEF IInv, Remembered
<1>9. Remembered(ip)'
  <2>1. CASE bans
    <3>1. element'[ip] = Banned(counted) /\ bannedUntil'[ip] = end
      BY <1>5, <2>1 DEF IInv, ListType, next
    <3>2. element'[ip].present
      BY <3>1, <1>4 DEF Present
    <3> QED BY <3>1, <3>2, <1>4 DEF Remembered
  <2>2. CASE ~bans
    <3>1. element'[ip] = counted /\ bannedUntil'[ip] = bannedUntil[ip] /\ now' = now
      BY <1>5, <2>2 DEF IInv, ListType, next
    <3>2. counted.present /\ found.present
      BY <1>1, <1>2 DEF Present
    <3>3. Remembered(ip)
      BY DEF IInv
    <3>4. /\ bannedUntil[ip] > now => found.expiry_time = bannedUntil[ip]
          /\ bannedUntil[ip] > now => found.ban_expiry_time = bannedUntil[ip]
          /\ found.ban_expiry_time > now => found.ban_expiry_time = bannedUntil[ip]
      BY <1>1, <3>2, <3>3 DEF Remembered
    <3> QED BY <3>1, <3>2, <3>4, <1>2 DEF Remembered
  <2> QED BY <2>1, <2>2
<1> QED BY <1>7, <1>8, <1>9 DEF IInv

\* A ban that is lifted is forgotten on both sides.
LEMMA RemoveStep ==
  ASSUME IInv, NEW ip \in Ips, remove_ban(ip)
  PROVE  IInv'
<1>1. Absent \in Elements /\ Absent.present = FALSE
  BY DEF Elements, Absent
<1>2. /\ element' = [element EXCEPT ![ip] = Absent]
      /\ bannedUntil' = [bannedUntil EXCEPT ![ip] = 0]
      /\ now' = now
  BY DEF remove_ban
<1>3. ListType'
  BY <1>1, <1>2 DEF IInv, ListType
<1>4. ASSUME NEW x \in Ips
      PROVE  Remembered(x)'
  <2>1. CASE x = ip
    BY <1>1, <1>2, <2>1 DEF IInv, ListType, Remembered
  <2>2. CASE x # ip
    BY <1>2, <2>2 DEF IInv, ListType, Remembered
  <2> QED BY <2>1, <2>2
<1> QED BY <1>3, <1>4 DEF IInv

\* As time passes, bans only end.
LEMMA TickStep ==
  ASSUME IInv, Tick
  PROVE  IInv'
<1>1. now \in Nat /\ now' = now + 1 /\ UNCHANGED <<element, bannedUntil>>
  BY DEF IInv, ListType, Tick
<1>2. ListType'
  BY <1>1 DEF IInv, ListType
<1>3. ASSUME NEW x \in Ips
      PROVE  Remembered(x)'
  <2>1. bannedUntil[x] \in Nat /\ (element[x].present => element[x].ban_expiry_time \in Nat)
    BY ElementFacts DEF IInv, ListType
  <2> QED BY <1>1, <2>1 DEF IInv, Remembered
<1> QED BY <1>2, <1>3 DEF IInv

\* Every operation keeps the deadline of a banned address at the end of its ban.
THEOREM Invariance == Spec => []IInv
<1>1. Init => IInv
  <2> SUFFICES ASSUME Init PROVE IInv
    OBVIOUS
  <2>1. Absent \in Elements /\ Absent.present = FALSE
    BY DEF Elements, Absent
  <2> QED BY <2>1 DEF Init, IInv, ListType, Remembered
<1>2. IInv /\ [Next]_vars => IInv'
  <2> SUFFICES ASSUME IInv, [Next]_vars PROVE IInv'
    OBVIOUS
  <2>1. CASE \E ip \in Ips, c \in Counters : accumulate_and_check_ban(ip, c)
    BY <2>1, CountStep
  <2>2. CASE \E ip \in Ips : remove_ban(ip)
    BY <2>2, RemoveStep
  <2>3. CASE Tick
    BY <2>3, TickStep
  <2>4. CASE UNCHANGED vars
    BY <2>4 DEF vars, IInv, ListType, Remembered
  <2> QED BY <2>1, <2>2, <2>3, <2>4 DEF Next
<1> QED BY <1>1, <1>2, PTL DEF Spec

(***************************************************************************)
(* Whatever the events of all addresses, which erase each other's expired  *)
(* elements and share one deadline per address, get_ban_time_remaining     *)
(* answers what is left of the ban last imposed, and nothing after it.     *)
(***************************************************************************)
THEOREM BansLast == Spec => []BansAreServed
<1>1. IInv => BansAreServed
  <2> SUFFICES ASSUME IInv, NEW ip \in Ips
               PROVE  get_ban_time_remaining(ip) =
                        IF bannedUntil[ip] > now THEN bannedUntil[ip] - now ELSE 0
    BY DEF BansAreServed
  <2>1. Remembered(ip)
    BY DEF IInv
  <2> QED BY <2>1 DEF Remembered, get_ban_time_remaining
<1> QED BY <1>1, Invariance, PTL

-------------------------------------------------------------------------------
\* What the history variables hold.
HistoryType ==
    /\ events \in [Ips -> [Counters -> SUBSET ((0..now) \X (1..MaxPerTick))]]
    /\ last \in [banned: {TRUE}, ip: Ips, counter: Counters, before: BOOLEAN] \cup {NoBan}

\* Every operation keeps the types of the past.
LEMMA HistoryStep ==
  ASSUME IInv, HistoryType, [Next]_vars
  PROVE  HistoryType'
<1>0. now \in Nat
  BY DEF IInv, ListType
<1>1. ASSUME NEW ip \in Ips, NEW c \in Counters, accumulate_and_check_ban(ip, c)
      PROVE  HistoryType'
  <2> DEFINE before == get_ban_time_remaining(ip) > 0
  <2>1. PICK n \in 1..MaxPerTick :
            events' = [events EXCEPT ![ip][c] = events[ip][c] \cup {<<now, n>>}]
    BY <1>1 DEF accumulate_and_check_ban
  <2>2. now' = now /\ <<now, n>> \in (0..now) \X (1..MaxPerTick)
    BY <1>0, <1>1 DEF accumulate_and_check_ban
  <2>3. events[ip][c] \cup {<<now, n>>} \in SUBSET ((0..now) \X (1..MaxPerTick))
    BY <2>2 DEF HistoryType
  <2>4. events' = [events EXCEPT ![ip] = [events[ip] EXCEPT ![c] = events[ip][c] \cup {<<now, n>>}]]
    BY <2>1
  <2>5. events' \in [Ips -> [Counters -> SUBSET ((0..now') \X (1..MaxPerTick))]]
    BY <2>2, <2>3, <2>4 DEF HistoryType
  <2>6. before \in BOOLEAN
    OBVIOUS
  <2>7. last' \in {[banned |-> TRUE, ip |-> ip, counter |-> c, before |-> before], NoBan}
    BY <1>1 DEF accumulate_and_check_ban
  <2> HIDE DEF before
  <2>8. [banned |-> TRUE, ip |-> ip, counter |-> c, before |-> before]
            \in [banned: {TRUE}, ip: Ips, counter: Counters, before: BOOLEAN]
    BY <2>6
  <2> QED BY <2>5, <2>7, <2>8 DEF HistoryType
<1>2. ASSUME NEW ip \in Ips, remove_ban(ip)
      PROVE  HistoryType'
  <2>1. NoEvents \in [Counters -> SUBSET ((0..now) \X (1..MaxPerTick))]
    BY DEF NoEvents
  <2> QED BY <1>2, <2>1 DEF remove_ban, HistoryType
<1>3. CASE Tick
  <2>1. now' = now + 1 /\ 0..now \subseteq 0..now'
    BY <1>0, <1>3 DEF Tick
  <2>2. ASSUME NEW ip \in Ips, NEW c \in Counters
        PROVE  {e \in events[ip][c] : e[1] > now' - Window} \in SUBSET ((0..now') \X (1..MaxPerTick))
    BY <2>1 DEF HistoryType
  <2> QED BY <1>3, <2>2 DEF Tick, HistoryType
<1>4. CASE UNCHANGED vars
  BY <1>4 DEF vars, HistoryType
<1> QED BY <1>1, <1>2, <1>3, <1>4 DEF Next

\* Deadlines, bans and the past keep their types.
THEOREM HistoryInvariance == Spec => [](IInv /\ HistoryType)
<1>1. Init => HistoryType
  BY DEF Init, HistoryType, NoEvents
<1>2. IInv /\ HistoryType /\ [Next]_vars => HistoryType'
  BY HistoryStep
<1> QED BY <1>1, <1>2, Invariance, PTL DEF Spec

\* The list and what is remembered of its past keep their types: in particular
\* an operation never leaves half an element.
THEOREM TypeCorrect == Spec => []TypeOK
<1>1. IInv /\ HistoryType => TypeOK
  BY DEF IInv, ListType, HistoryType, TypeOK
<1> QED BY <1>1, HistoryInvariance, PTL

-------------------------------------------------------------------------------
\* Events of one kind, of one address, at moment t: pairs of a moment and a number.
EventSets(t) == SUBSET ((0..t) \X (1..MaxPerTick))

Since(E, t)   == {x \in E : x[1] >= t}
Earlier(E, t) == {x \in E : x[1] < t}
After(E, t)   == {x \in E : x[1] > t}

\* The events of the last window happened while there was an element for them.
Dated(e, E, t) ==
    \A x \in E : x[1] > t - Window /\ x[1] < IF e.present THEN e.expiry_time ELSE t

\* How many events of kind c one window has room for without a ban.
Allowed(c) == IF CounterMax[c] = 0 THEN 0 ELSE CounterMax[c] - 1

\* Without a ban, the counter holds the events since the window began, all of
\* them until the window ends, and is below the maximum.
Windowed(e, E, c, t) ==
    LET start == e.expiry_time - Window IN
    /\ start \in 0..t
    /\ Cardinality(Since(E, start)) <= e.counters[c]
    /\ t < e.expiry_time => Cardinality(Since(E, start)) = e.counters[c]
    /\ e.counters[c] <= Allowed(c)

\* With one, the counter holds the events after the last ban, if it has not
\* reached the maximum; if it has, there are none, as each would be a new ban.
BanDated(e, E, c, t) ==
    LET start == e.ban_expiry_time - BanDuration IN
    /\ e.expiry_time = e.ban_expiry_time
    /\ start \in 0..t
    /\ IF ReachesMax(e.counters[c], c) THEN After(E, start) = {}
       ELSE Cardinality(After(E, start)) <= e.counters[c]

\* What the last window holds of earlier windows one window had room for.
Room(e, E, c) ==
    BanDuration >= Window =>
        /\ ~e.present => Cardinality(E) <= Allowed(c)
        /\ e.present /\ e.ban_expiry_time = 0 =>
            Cardinality(Earlier(E, e.expiry_time - Window)) <= Allowed(c)

\* The element e accounts for the events E of kind c, at moment t.
Fits(e, E, c, t) ==
    /\ Dated(e, E, t)
    /\ e.present /\ e.ban_expiry_time = 0 => Windowed(e, E, c, t)
    /\ e.present /\ e.ban_expiry_time # 0 => BanDated(e, E, c, t)
    /\ Room(e, E, c)

Accounted == \A ip \in Ips, c \in Counters : Fits(element[ip], events[ip][c], c, now)

\* There are finitely many events, and fewer in a part of them.
LEMMA EventSetFacts ==
  ASSUME NEW t \in Nat, NEW E \in EventSets(t), NEW F \in SUBSET E
  PROVE  /\ IsFiniteSet(F) /\ Cardinality(F) \in Nat /\ Cardinality(E) \in Nat
         /\ Cardinality(F) <= Cardinality(E)
<1>1. IsFiniteSet(0..t) /\ IsFiniteSet(1..MaxPerTick)
  BY FS_Interval, BoundsAssumption
<1>2. IsFiniteSet((0..t) \X (1..MaxPerTick))
  BY <1>1, FS_Product
<1>3. IsFiniteSet(E)
  BY <1>2, FS_Subset DEF EventSets
<1>4. IsFiniteSet(F) /\ Cardinality(F) <= Cardinality(E)
  BY <1>3, FS_Subset
<1> QED BY <1>3, <1>4, FS_CardinalityType

\* Its moment and number are the parts of an event.
LEMMA EventFacts ==
  ASSUME NEW t \in Nat, NEW E \in EventSets(t), NEW x \in E
  PROVE  x[1] \in 0..t
  BY DEF EventSets

\* The largest count that a window may have without a ban.
LEMMA AllowedFacts ==
  ASSUME NEW c \in Counters
  PROVE  /\ CounterMax[c] \in Nat /\ Allowed(c) \in Nat
         /\ \A n \in Nat : ~ReachesMax(n, c) => n <= Allowed(c)
         /\ Allowed(c) + 1 >= CounterMax[c] /\ Allowed(c) <= CounterMax[c]
<1>1. CounterMax[c] \in Nat
  BY MaximaAssumption
<1> QED BY <1>1 DEF Allowed, ReachesMax

\* No events, no element.
LEMMA FitsNothing ==
  ASSUME NEW c \in Counters, NEW t
  PROVE  Fits(Absent, {}, c, t)
<1>1. Cardinality({}) = 0 /\ Absent.present = FALSE
  BY FS_EmptySet DEF Absent
<1> QED BY <1>1, AllowedFacts DEF Fits, Dated, Room

\* Once the deadline of an element has passed, whether of its window or of its
\* ban, the events that remain are few enough for one window, and past.
LEMMA FitsExpired ==
  ASSUME NEW e \in Elements, NEW c \in Counters, NEW t \in Nat, NEW E \in EventSets(t),
         Fits(e, E, c, t), e.present => e.expiry_time <= t
  PROVE  Fits(Absent, E, c, t)
<1>1. Absent.present = FALSE
  BY DEF Absent
<1>2. CASE ~e.present
  BY <1>1, <1>2 DEF Fits, Dated, Room
<1>3. CASE e.present
  <2>1. e.expiry_time \in Nat /\ e.ban_expiry_time \in Nat /\ e.counters[c] \in Nat
    BY <1>3, ElementFacts
  <2>2. \A x \in E : x[1] \in Nat /\ x[1] > t - Window /\ x[1] < t
    BY <1>3, <2>1, EventFacts, DurationsAssumption DEF Fits, Dated
  <2>3. Dated(Absent, E, t)
    BY <1>1, <2>2 DEF Dated
  <2>4. ASSUME BanDuration >= Window
        PROVE  Cardinality(E) <= Allowed(c)
    <3>1. CASE e.ban_expiry_time = 0
      <4>1. Windowed(e, E, c, t)
        BY <1>3, <3>1 DEF Fits
      <4>2. Since(E, e.expiry_time - Window) = E
        BY <1>3, <2>1, <2>2, DurationsAssumption DEF Since
      <4>3. Cardinality(E) <= e.counters[c] /\ e.counters[c] <= Allowed(c)
        BY <4>1, <4>2 DEF Windowed
      <4> QED BY <2>1, <4>3, EventSetFacts, AllowedFacts
    <3>2. CASE e.ban_expiry_time # 0
      <4>1. BanDated(e, E, c, t)
        BY <1>3, <3>2 DEF Fits
      <4>2. After(E, e.ban_expiry_time - BanDuration) = E
        BY <1>3, <2>1, <2>2, <2>4, <4>1, DurationsAssumption DEF After, BanDated
      <4>3. CASE ReachesMax(e.counters[c], c)
        BY <4>1, <4>2, <4>3, FS_EmptySet, AllowedFacts DEF BanDated
      <4>4. CASE ~ReachesMax(e.counters[c], c)
        <5>1. Cardinality(E) <= e.counters[c] /\ e.counters[c] <= Allowed(c)
          BY <2>1, <4>1, <4>2, <4>4, AllowedFacts DEF BanDated
        <5> QED BY <2>1, <5>1, EventSetFacts, AllowedFacts
      <4> QED BY <4>3, <4>4
    <3> QED BY <3>1, <3>2
  <2> QED BY <1>1, <2>3, <2>4 DEF Fits, Room
<1> QED BY <1>2, <1>3

\* A new element starts its window at this moment, with no events.
LEMMA FitsCreated ==
  ASSUME NEW e \in Present, NEW c \in Counters, NEW t \in Nat, NEW E \in EventSets(t),
         Fits(Absent, E, c, t),
         e.expiry_time = t + Window, e.ban_expiry_time = 0, e.counters[c] = 0
  PROVE  Fits(e, E, c, t)
<1>1. Absent.present = FALSE /\ e.present = TRUE
  BY DEF Absent, Present
<1>2. \A x \in E : x[1] \in Nat /\ x[1] > t - Window /\ x[1] < t
  BY <1>1, EventFacts DEF Fits, Dated
<1>3. Since(E, e.expiry_time - Window) = {} /\ Earlier(E, e.expiry_time - Window) = E
  BY <1>2, DurationsAssumption DEF Since, Earlier
<1>4. Dated(e, E, t)
  BY <1>1, <1>2, DurationsAssumption DEF Dated
<1>5. Windowed(e, E, c, t)
  <2>1. e.expiry_time - Window \in 0..t
    BY DurationsAssumption
  <2>2. Cardinality(Since(E, e.expiry_time - Window)) = 0
    BY <1>3, FS_EmptySet
  <2>3. 0 <= Allowed(c)
    BY AllowedFacts
  <2> QED BY <2>1, <2>2, <2>3 DEF Windowed
<1>6. Room(e, E, c)
  BY <1>1, <1>3 DEF Fits, Room
<1> QED BY <1>1, <1>4, <1>5, <1>6 DEF Fits

\* Another kind of event is not affected by a count.
LEMMA FitsOther ==
  ASSUME NEW e \in Present, NEW f \in Present, NEW c \in Counters, NEW t, NEW E,
         Fits(e, E, c, t), f.expiry_time = e.expiry_time,
         f.ban_expiry_time = e.ban_expiry_time, f.counters[c] = e.counters[c]
  PROVE  Fits(f, E, c, t)
  BY DEF Fits, Dated, Windowed, BanDated, Room, Present

\* One more event, below the maximum, before the deadline.
LEMMA FitsCounted ==
  ASSUME NEW e \in Present, NEW f \in Present, NEW c \in Counters, NEW t \in Nat,
         NEW E \in EventSets(t), NEW n \in 1..MaxPerTick, <<t, n>> \notin E,
         Fits(e, E, c, t), t < e.expiry_time,
         f.expiry_time = e.expiry_time, f.ban_expiry_time = e.ban_expiry_time,
         f.counters[c] = e.counters[c] + 1, ~ReachesMax(f.counters[c], c)
  PROVE  Fits(f, E \cup {<<t, n>>}, c, t)
<1> DEFINE F == E \cup {<<t, n>>}
<1>1. /\ e.present = TRUE /\ f.present = TRUE
      /\ e.expiry_time \in Nat /\ e.ban_expiry_time \in Nat /\ e.counters[c] \in Nat
  BY DEF Present
<1>2. Dated(f, F, t)
  <2>1. \A x \in E : x[1] > t - Window /\ x[1] < f.expiry_time
    BY <1>1 DEF Fits, Dated
  <2>2. \A x \in F : x \in E \/ x[1] = t
    OBVIOUS
  <2>3. t > t - Window /\ t < f.expiry_time
    BY DurationsAssumption
  <2> QED BY <1>1, <2>1, <2>2, <2>3 DEF Dated
<1>3. ASSUME e.ban_expiry_time = 0
      PROVE  Windowed(f, F, c, t) /\ Room(f, F, c)
  <2> DEFINE start == e.expiry_time - Window
  <2>1. Windowed(e, E, c, t) /\ Room(e, E, c)
    BY <1>1, <1>3 DEF Fits
  <2>2. start \in 0..t
    BY <2>1 DEF Windowed
  <2>3. Since(F, start) = Since(E, start) \cup {<<t, n>>} /\ <<t, n>> \notin Since(E, start)
    BY <2>2 DEF Since
  <2>4. Earlier(F, start) = Earlier(E, start)
    BY <2>2 DEF Earlier
  <2>5. Cardinality(Since(E, start)) = e.counters[c]
    BY <2>1 DEF Windowed
  <2>6. IsFiniteSet(Since(E, start))
    <3>1. Since(E, start) \in SUBSET E
      BY DEF Since
    <3> QED BY <3>1, EventSetFacts
  <2>7. Cardinality(Since(F, start)) = f.counters[c]
    BY <2>3, <2>5, <2>6, FS_AddElement
  <2>8. f.counters[c] \in Nat /\ f.counters[c] <= Allowed(c)
    BY <1>1, AllowedFacts
  <2>9. Windowed(f, F, c, t)
    <3>1. f.expiry_time - Window = start
      OBVIOUS
    <3> HIDE DEF start, F
    <3> QED BY <2>2, <2>7, <2>8, <3>1 DEF Windowed
  <2>10. Room(f, F, c)
    <3>1. f.expiry_time - Window = start
      OBVIOUS
    <3> HIDE DEF F
    <3> QED BY <1>1, <1>3, <2>1, <2>4, <3>1 DEF Room
  <2> QED BY <2>9, <2>10
<1>4. ASSUME e.ban_expiry_time # 0
      PROVE  BanDated(f, F, c, t)
  <2> DEFINE start == e.ban_expiry_time - BanDuration
  <2>1. BanDated(e, E, c, t)
    BY <1>1, <1>4 DEF Fits
  <2>2. start \in 0..t
    BY <2>1 DEF BanDated
  <2>3. ~ReachesMax(e.counters[c], c)
    BY <1>1, AllowedFacts DEF ReachesMax
  <2>4. Cardinality(After(E, start)) <= e.counters[c]
    BY <2>1, <2>3 DEF BanDated
  <2>5. After(F, start) \in {After(E, start), After(E, start) \cup {<<t, n>>}}
    BY DEF After
  <2>6. IsFiniteSet(After(E, start)) /\ Cardinality(After(E, start)) \in Nat
    <3>1. After(E, start) \in SUBSET E
      BY DEF After
    <3> QED BY <3>1, EventSetFacts
  <2> HIDE DEF start, F
  <2>7. Cardinality(After(E, start) \cup {<<t, n>>})
            \in {Cardinality(After(E, start)), Cardinality(After(E, start)) + 1}
    BY <2>6, FS_AddElement
  <2>8. Cardinality(After(F, start)) \in {Cardinality(After(E, start)), Cardinality(After(E, start)) + 1}
    BY <2>5, <2>7
  <2>9. Cardinality(After(F, start)) <= f.counters[c]
    BY <1>1, <2>4, <2>6, <2>8
  <2> QED BY <2>1, <2>2, <2>9 DEF BanDated, start
<1>5. Room(f, F, c)
  <2>1. CASE e.ban_expiry_time = 0
    BY <1>3, <2>1
  <2>2. CASE e.ban_expiry_time # 0
    BY <1>1, <2>2 DEF Room
  <2> QED BY <2>1, <2>2
<1> HIDE DEF F
<1>6. Fits(f, F, c, t)
  BY <1>1, <1>2, <1>3, <1>4, <1>5 DEF Fits
<1> QED BY <1>6 DEF F

\* A ban starts at this moment, after all events there have been.
LEMMA FitsBanned ==
  ASSUME NEW e \in Present, NEW c \in Counters, NEW t \in Nat, NEW E \in EventSets(t),
         \A x \in E : x[1] > t - Window,
         e.expiry_time = t + BanDuration, e.ban_expiry_time = t + BanDuration
  PROVE  Fits(e, E, c, t)
<1>1. e.present = TRUE /\ e.counters[c] \in Nat /\ e.ban_expiry_time # 0
  <2>1. t + BanDuration # 0
    BY DurationsAssumption
  <2>2. e.present = TRUE /\ e.counters \in [Counters -> Nat]
    BY DEF Present
  <2> QED BY <2>1, <2>2
<1>2. \A x \in E : x[1] \in Nat /\ x[1] <= t
  BY EventFacts
<1>3. After(E, e.ban_expiry_time - BanDuration) = {}
  BY <1>2, DurationsAssumption DEF After
<1>4. Dated(e, E, t)
  BY <1>1, <1>2, DurationsAssumption DEF Dated
<1>5. BanDated(e, E, c, t)
  <2>1. e.ban_expiry_time - BanDuration \in 0..t
    BY DurationsAssumption
  <2>2. Cardinality({}) = 0 /\ 0 <= e.counters[c]
    BY <1>1, FS_EmptySet
  <2>3. e.expiry_time = e.ban_expiry_time
    OBVIOUS
  <2> QED BY <1>3, <2>1, <2>2, <2>3 DEF BanDated
<1> QED BY <1>1, <1>4, <1>5 DEF Fits, Room

\* As time passes, events drop out of the last window, but not out of the one
\* that still counts them.
LEMMA FitsLater ==
  ASSUME NEW e \in Elements, NEW c \in Counters, NEW t \in Nat, NEW E \in EventSets(t),
         Fits(e, E, c, t)
  PROVE  Fits(e, {x \in E : x[1] > t + 1 - Window}, c, t + 1)
<1> DEFINE F == {x \in E : x[1] > t + 1 - Window}
<1>0. e.present =>
        e.expiry_time \in Nat /\ e.ban_expiry_time \in Nat /\ e.counters[c] \in Nat
  BY ElementFacts
<1>1. \A x \in E : x[1] \in Nat
  BY EventFacts
<1>2. Dated(e, F, t + 1)
  <2>1. \A x \in F : x[1] \in Nat /\ x[1] > t + 1 - Window
    BY <1>1
  <2>2. \A x \in E : x[1] < IF e.present THEN e.expiry_time ELSE t
    BY DEF Fits, Dated
  <2>3. F \subseteq E
    OBVIOUS
  <2> HIDE DEF F
  <2>4. CASE e.present
    BY <2>1, <2>2, <2>3, <2>4, <1>0, DurationsAssumption DEF Dated
  <2>5. CASE ~e.present
    BY <2>1, <2>2, <2>3, <2>5, DurationsAssumption DEF Dated
  <2> QED BY <2>4, <2>5
<1>3. \A s \in Int : /\ Cardinality(Since(F, s)) <= Cardinality(Since(E, s))
                     /\ Cardinality(Earlier(F, s)) <= Cardinality(Earlier(E, s))
                     /\ Cardinality(After(F, s)) <= Cardinality(After(E, s))
                     /\ Cardinality(Since(F, s)) \in Nat /\ Cardinality(Since(E, s)) \in Nat
                     /\ Cardinality(Earlier(F, s)) \in Nat /\ Cardinality(Earlier(E, s)) \in Nat
                     /\ Cardinality(After(F, s)) \in Nat /\ Cardinality(After(E, s)) \in Nat
  <2> SUFFICES ASSUME NEW s \in Int
               PROVE  \A U \in {<<Since(E, s), Since(F, s)>>, <<Earlier(E, s), Earlier(F, s)>>,
                                <<After(E, s), After(F, s)>>} :
                        /\ Cardinality(U[2]) <= Cardinality(U[1])
                        /\ Cardinality(U[2]) \in Nat /\ Cardinality(U[1]) \in Nat
    OBVIOUS
  <2>1. ASSUME NEW G \in SUBSET E, NEW H \in SUBSET G
        PROVE  /\ Cardinality(H) <= Cardinality(G)
               /\ Cardinality(H) \in Nat /\ Cardinality(G) \in Nat
    <3>1. G \in EventSets(t)
      BY DEF EventSets
    <3> QED BY <3>1, EventSetFacts
  <2>2. /\ Since(E, s) \in SUBSET E /\ Since(F, s) \in SUBSET Since(E, s)
        /\ Earlier(E, s) \in SUBSET E /\ Earlier(F, s) \in SUBSET Earlier(E, s)
        /\ After(E, s) \in SUBSET E /\ After(F, s) \in SUBSET After(E, s)
    BY DEF Since, Earlier, After
  <2> QED BY <2>1, <2>2
<1>4. ASSUME e.present, e.ban_expiry_time = 0
      PROVE  Windowed(e, F, c, t + 1) /\ Room(e, F, c)
  <2> DEFINE start == e.expiry_time - Window
  <2>1. Windowed(e, E, c, t) /\ Room(e, E, c)
    BY <1>4 DEF Fits
  <2>2. start \in 0..t /\ start \in Int
    BY <2>1 DEF Windowed
  <2>3. t + 1 < e.expiry_time => Since(F, start) = Since(E, start)
    BY <1>0, <1>1, <1>4, <2>2, DurationsAssumption DEF Since
  <2>4. Cardinality(Since(F, start)) <= e.counters[c]
    <3>1. Cardinality(Since(E, start)) <= e.counters[c]
      BY <2>1 DEF Windowed
    <3> QED BY <1>0, <1>3, <1>4, <2>2, <3>1
  <2>5. t + 1 < e.expiry_time => Cardinality(Since(F, start)) = e.counters[c]
    <3>1. t + 1 < e.expiry_time => t < e.expiry_time
      BY <1>0, <1>4
    <3> QED BY <2>1, <2>3, <3>1 DEF Windowed
  <2>6. Windowed(e, F, c, t + 1)
    BY <2>1, <2>2, <2>4, <2>5 DEF Windowed
  <2>7. Room(e, F, c)
    <3>1. BanDuration >= Window => Cardinality(Earlier(E, start)) <= Allowed(c)
      BY <1>4, <2>1 DEF Room
    <3>2. BanDuration >= Window => Cardinality(Earlier(F, start)) <= Allowed(c)
      BY <1>3, <2>2, <3>1, AllowedFacts
    <3> QED BY <1>4, <3>2 DEF Room
  <2> QED BY <2>6, <2>7
<1>5. ASSUME e.present, e.ban_expiry_time # 0
      PROVE  BanDated(e, F, c, t + 1) /\ Room(e, F, c)
  <2> DEFINE start == e.ban_expiry_time - BanDuration
  <2>1. BanDated(e, E, c, t)
    BY <1>5 DEF Fits
  <2>2. start \in 0..(t + 1) /\ start \in Int
    BY <2>1 DEF BanDated
  <2>3. ReachesMax(e.counters[c], c) => After(F, start) = {}
    BY <2>1 DEF BanDated, After
  <2>4. ~ReachesMax(e.counters[c], c) => Cardinality(After(F, start)) <= e.counters[c]
    <3>1. ~ReachesMax(e.counters[c], c) => Cardinality(After(E, start)) <= e.counters[c]
      BY <2>1 DEF BanDated
    <3> QED BY <1>0, <1>3, <1>5, <2>2, <3>1
  <2> QED BY <1>5, <2>1, <2>2, <2>3, <2>4 DEF BanDated, Room
<1>6. ASSUME ~e.present
      PROVE  Room(e, F, c)
  <2>1. F \in SUBSET E
    OBVIOUS
  <2>2. Cardinality(F) <= Cardinality(E) /\ Cardinality(F) \in Nat /\ Cardinality(E) \in Nat
    <3>1. F \in EventSets(t)
      BY <2>1 DEF EventSets
    <3> QED BY <2>1, <3>1, EventSetFacts
  <2>3. BanDuration >= Window => Cardinality(E) <= Allowed(c)
    BY <1>6 DEF Fits, Room
  <2> QED BY <1>6, <2>2, <2>3, AllowedFacts DEF Room
<1> HIDE DEF F
<1>7. Fits(e, F, c, t + 1)
  BY <1>0, <1>2, <1>4, <1>5, <1>6, ElementFacts DEF Fits
<1> QED BY <1>7 DEF F

-------------------------------------------------------------------------------
FullInv == IInv /\ HistoryType /\ Accounted /\ NoBanForOldEvents

\* The types of the parts.
LEMMA PartTypes ==
  ASSUME FullInv, NEW ip \in Ips, NEW c \in Counters
  PROVE  /\ now \in Nat /\ element[ip] \in Elements /\ events[ip][c] \in EventSets(now)
         /\ Fits(element[ip], events[ip][c], c, now)
  BY DEF FullInv, IInv, ListType, HistoryType, Accounted, EventSets

\* What is left when the expired elements have been erased accounts for the
\* same events.
LEMMA AfterExpiryFits ==
  ASSUME FullInv, NEW ip \in Ips, NEW c \in Counters
  PROVE  Fits(AfterExpiry(ip), events[ip][c], c, now)
<1>1. CASE Expired(ip)
  <2>1. element[ip].expiry_time <= now /\ AfterExpiry(ip) = Absent
    BY <1>1 DEF Expired, AfterExpiry
  <2> QED BY <2>1, PartTypes, FitsExpired
<1>2. CASE ~Expired(ip)
  BY <1>2, PartTypes DEF AfterExpiry
<1> QED BY <1>1, <1>2

\* So does the element that an event is counted in, whose deadline is to come.
LEMMA FindOrCreateFits ==
  ASSUME FullInv, NEW ip \in Ips
  PROVE  /\ FindOrCreate(ip) \in Present
         /\ now < FindOrCreate(ip).expiry_time
         /\ \A c \in Counters : Fits(FindOrCreate(ip), events[ip][c], c, now)
<1>1. FindOrCreate(ip) \in Present /\ now \in Nat
  BY FindOrCreateFacts DEF Present, FullInv, IInv, ListType
<1>2. CASE AfterExpiry(ip).present
  <2>1. FindOrCreate(ip) = AfterExpiry(ip)
    BY <1>2 DEF FindOrCreate
  <2>2. element[ip].present /\ ~Expired(ip) /\ AfterExpiry(ip) = element[ip]
    BY <1>2 DEF AfterExpiry, Expired, Absent
  <2>3. now < element[ip].expiry_time
    <3>1. element[ip].expiry_time \in Nat
      BY <1>1, <2>1, <2>2 DEF Present
    <3> QED BY <1>1, <2>2, <3>1 DEF Expired
  <2> QED BY <1>1, <2>1, <2>2, <2>3, AfterExpiryFits
<1>3. CASE ~AfterExpiry(ip).present
  <2> DEFINE new == [present |-> TRUE, expiry_time |-> now + Window,
                     counters |-> [c \in Counters |-> 0], ban_expiry_time |-> 0]
  <2>1. FindOrCreate(ip) = new
    BY <1>3 DEF FindOrCreate
  <2>2. /\ new.expiry_time = now + Window /\ new.ban_expiry_time = 0
        /\ \A c \in Counters : new.counters[c] = 0
    OBVIOUS
  <2>3. AfterExpiry(ip) = Absent
    <3>1. AfterExpiry(ip) \in Elements
      BY AfterExpiryFacts DEF FullInv
    <3> QED BY <1>3, <3>1 DEF Elements
  <2> HIDE DEF new
  <2>4. \A c \in Counters : Fits(new, events[ip][c], c, now)
    BY <1>1, <2>1, <2>2, <2>3, AfterExpiryFits, PartTypes, FitsCreated
  <2>5. now < new.expiry_time
    BY <1>1, <2>2, DurationsAssumption
  <2> QED BY <1>1, <2>1, <2>4, <2>5
<1> QED BY <1>2, <1>3

\* Erasing, counting and banning keep the account of every address, and nobody
\* who was not banned is banned for less than the maximum of recent events.
LEMMA CountKeepsAccount ==
  ASSUME FullInv, NEW ip \in Ips, NEW c \in Counters, accumulate_and_check_ban(ip, c)
  PROVE  Accounted' /\ NoBanForOldEvents'
<1> DEFINE found   == FindOrCreate(ip)
           n0      == found.counters[c] + 1
           counted == [found EXCEPT !.counters[c] = @ + 1]
           bans    == ReachesMax(counted.counters[c], c)
           after   == IF bans THEN Banned(counted) ELSE counted
<1>1. /\ found \in Present /\ now < found.expiry_time /\ now \in Nat
      /\ \A d \in Counters : Fits(found, events[ip][d], d, now)
  BY FindOrCreateFits DEF FullInv, IInv, ListType
<1>2. /\ counted \in Present
      /\ counted.expiry_time = found.expiry_time
      /\ counted.ban_expiry_time = found.ban_expiry_time
  BY <1>1, CountedFacts
<1>3. /\ counted.counters[c] = n0 /\ n0 \in Nat
      /\ \A d \in Counters : d # c => counted.counters[d] = found.counters[d]
  <2>1. counted = [found EXCEPT !.counters = [found.counters EXCEPT ![c] = n0]]
    OBVIOUS
  <2>2. found.counters \in [Counters -> Nat]
    BY <1>1 DEF Present
  <2> HIDE DEF found
  <2>3. counted.counters = [found.counters EXCEPT ![c] = n0]
    BY <1>1, <2>1 DEF Present
  <2> QED BY <2>2, <2>3
<1>4. PICK n \in 1..MaxPerTick :
        /\ <<now, n>> \notin events[ip][c]
        /\ events' = [events EXCEPT ![ip][c] = events[ip][c] \cup {<<now, n>>}]
  BY DEF accumulate_and_check_ban
<1>5. /\ element' = [x \in Ips |-> IF x # ip THEN AfterExpiry(x) ELSE after]
      /\ now' = now
      /\ ~bans => last' = NoBan
      /\ bans => last' = [banned |-> TRUE, ip |-> ip, counter |-> c,
                          before |-> get_ban_time_remaining(ip) > 0]
  BY DEF accumulate_and_check_ban
<1> DEFINE E == events[ip][c]
           F == E \cup {<<now, n>>}
<1>6. /\ \A x \in Ips, d \in Counters : x # ip \/ d # c => events'[x][d] = events[x][d]
      /\ events'[ip][c] = F
  <2>1. events \in [Ips -> [Counters -> SUBSET ((0..now) \X (1..MaxPerTick))]]
    BY DEF FullInv, HistoryType
  <2> HIDE DEF F, found
  <2>2. events' = [events EXCEPT ![ip] = [events[ip] EXCEPT ![c] = F]]
    BY <1>4 DEF F
  <2> QED BY <2>1, <2>2
<1>7. ASSUME NEW x \in Ips, x # ip, NEW d \in Counters
      PROVE  Fits(element[x], events[x][d], d, now)'
  <2>1. element'[x] = AfterExpiry(x) /\ events'[x][d] = events[x][d]
    BY <1>5, <1>6, <1>7
  <2>2. Fits(element'[x], events'[x][d], d, now')
    BY <1>5, <2>1, AfterExpiryFits
  <2> QED BY <2>2
<1>8. E \in EventSets(now) /\ F \in EventSets(now) /\ IsFiniteSet(E)
  <2>1. E \in EventSets(now)
    BY PartTypes
  <2>2. F \in EventSets(now)
    BY <1>1, <2>1 DEF EventSets
  <2> QED BY <1>1, <2>1, <2>2, EventSetFacts
<1>9. element'[ip] = after
  BY <1>5
<1>10. ASSUME bans
       PROVE  \A d \in Counters : Fits(after, events'[ip][d], d, now)
  <2>1. now + BanDuration \in Nat
    BY <1>1, DurationsAssumption
  <2>2. /\ Banned(counted) \in Present
        /\ Banned(counted).expiry_time = now + BanDuration
        /\ Banned(counted).ban_expiry_time = now + BanDuration
    BY <1>2, <2>1, BannedFacts
  <2>3. after = Banned(counted)
    BY <1>10
  <2> HIDE DEF after, counted, found, E
  <2>4. ASSUME NEW d \in Counters
        PROVE  /\ events'[ip][d] \in EventSets(now)
               /\ \A x \in events'[ip][d] : x[1] > now - Window
    <3>1. \A x \in events[ip][d] : x[1] > now - Window
      BY <1>1 DEF Fits, Dated
    <3>2. events[ip][d] \in EventSets(now)
      BY PartTypes
    <3>3. now > now - Window
      BY <1>1, DurationsAssumption
    <3>4. events'[ip][d] \in {events[ip][d], events[ip][d] \cup {<<now, n>>}}
      BY <1>6 DEF E
    <3>5. \A x \in events'[ip][d] : x \in events[ip][d] \/ x[1] = now
      BY <3>4
    <3>6. events'[ip][d] \in EventSets(now)
      BY <1>6, <1>8, <3>2
    <3> QED BY <3>1, <3>3, <3>5, <3>6
  <2> QED BY <1>1, <2>2, <2>3, <2>4, FitsBanned
<1>11. ASSUME ~bans
       PROVE  \A d \in Counters : Fits(after, events'[ip][d], d, now)
  <2>1. after = counted /\ ~ReachesMax(counted.counters[c], c)
    BY <1>11
  <2> HIDE DEF after, counted, found, E
  <2>2. Fits(counted, events'[ip][c], c, now)
    <3>1. Fits(found, E, c, now)
      BY <1>1 DEF E
    <3>2. <<now, n>> \notin E
      BY <1>4 DEF E
    <3> QED BY <1>1, <1>2, <1>3, <1>6, <1>8, <2>1, <3>1, <3>2, FitsCounted
  <2>3. ASSUME NEW d \in Counters, d # c
        PROVE  Fits(counted, events'[ip][d], d, now)
    <3>1. events'[ip][d] = events[ip][d] /\ counted.counters[d] = found.counters[d]
      BY <1>3, <1>6, <2>3
    <3> QED BY <1>1, <1>2, <3>1, FitsOther
  <2> QED BY <2>1, <2>2, <2>3
<1>12. Accounted'
  <2> HIDE DEF after, bans, counted, found, E
  <2>1. ASSUME NEW d \in Counters
        PROVE  Fits(element'[ip], events'[ip][d], d, now')
    BY <1>5, <1>9, <1>10, <1>11
  <2> SUFFICES ASSUME NEW x \in Ips, NEW d \in Counters
               PROVE  Fits(element[x], events[x][d], d, now)'
    BY DEF Accounted
  <2>2. CASE x = ip
    <3>1. Fits(element'[x], events'[x][d], d, now')
      BY <2>1, <2>2
    <3> QED BY <3>1
  <2>3. CASE x # ip
    BY <1>7, <2>3
  <2> QED BY <2>2, <2>3
<1>13. NoBanForOldEvents'
  <2>1. CASE ~bans
    BY <1>5, <2>1 DEF NoBanForOldEvents, NoBan
  <2>2. CASE bans
    <3>1. last'.banned /\ last'.ip = ip /\ last'.counter = c
          /\ last'.before = (get_ban_time_remaining(ip) > 0)
      BY <1>5, <2>2
    <3>2. CounterMax[c] \in Nat /\ n0 >= CounterMax[c]
      BY <1>3, <2>2, AllowedFacts DEF ReachesMax
    <3>3. Cardinality(F) = Cardinality(E) + 1 /\ Cardinality(E) \in Nat
      BY <1>1, <1>4, <1>8, FS_AddElement, EventSetFacts
    <3>4. ASSUME ~(get_ban_time_remaining(ip) > 0)
          PROVE  found.ban_expiry_time = 0
      <4> SUFFICES ASSUME found.ban_expiry_time # 0
                   PROVE  FALSE
        OBVIOUS
      <4>1. found.expiry_time \in Nat /\ found.ban_expiry_time \in Nat /\ found.present = TRUE
        BY <1>1 DEF Present
      <4>2. found.ban_expiry_time = found.expiry_time
        BY <1>1, <4>1 DEF Fits, BanDated
      <4>3. found = element[ip]
        BY <1>1, <4>1, <4>2, FindOrCreateFacts DEF FullInv
      <4>4. get_ban_time_remaining(ip) = found.ban_expiry_time - now
        BY <1>1, <4>1, <4>2, <4>3 DEF get_ban_time_remaining
      <4> QED BY <1>1, <3>4, <4>1, <4>2, <4>4
    <3>5. ASSUME found.ban_expiry_time = 0
          PROVE  found.counters[c] <= Cardinality(E)
      <4>1. found.present = TRUE
        BY <1>1 DEF Present
      <4>2. Windowed(found, E, c, now)
        BY <1>1, <3>5, <4>1 DEF Fits
      <4>3. Cardinality(Since(E, found.expiry_time - Window)) = found.counters[c]
        BY <1>1, <4>2 DEF Windowed
      <4>4. Since(E, found.expiry_time - Window) \in SUBSET E
        BY DEF Since
      <4> QED BY <1>1, <1>8, <4>3, <4>4, EventSetFacts
    <3>6. found.counters[c] \in Nat
      BY <1>1 DEF Present
    <3> HIDE DEF found, E, F
    <3>7. ~(get_ban_time_remaining(ip) > 0) => Cardinality(F) >= CounterMax[c]
      BY <3>2, <3>3, <3>4, <3>5, <3>6
    <3>8. Recent(ip, c)' = Cardinality(F)
      BY <1>6 DEF Recent
    <3> QED BY <3>1, <3>7, <3>8 DEF NoBanForOldEvents, Recent
  <2> QED BY <2>1, <2>2
<1> QED BY <1>12, <1>13

\* A ban that is lifted takes the element and the events with it.
LEMMA RemoveKeepsAccount ==
  ASSUME FullInv, NEW ip \in Ips, remove_ban(ip)
  PROVE  Accounted' /\ NoBanForOldEvents'
<1>1. /\ element' = [element EXCEPT ![ip] = Absent]
      /\ events' = [events EXCEPT ![ip] = NoEvents]
      /\ now' = now /\ last' = NoBan
  BY DEF remove_ban
<1>2. ASSUME NEW x \in Ips, NEW d \in Counters
      PROVE  Fits(element'[x], events'[x][d], d, now')
  <2>1. CASE x = ip
    <3>1. element'[x] = Absent /\ events'[x][d] = {}
      BY <1>1, <2>1 DEF FullInv, IInv, ListType, HistoryType, NoEvents
    <3> QED BY <3>1, FitsNothing
  <2>2. CASE x # ip
    <3>1. element'[x] = element[x] /\ events'[x] = events[x]
      BY <1>1, <2>2 DEF FullInv, IInv, ListType, HistoryType
    <3> QED BY <1>1, <3>1, PartTypes
  <2> QED BY <2>1, <2>2
<1>3. Accounted'
  BY <1>2 DEF Accounted
<1>4. NoBanForOldEvents'
  BY <1>1 DEF NoBanForOldEvents, NoBan
<1> QED BY <1>3, <1>4

\* Time passes for all of them.
LEMMA TickKeepsAccount ==
  ASSUME FullInv, Tick
  PROVE  Accounted' /\ NoBanForOldEvents'
<1>1. /\ now' = now + 1 /\ element' = element /\ last' = NoBan
      /\ events' = [ip \in Ips |-> [c \in Counters |->
                        {e \in events[ip][c] : e[1] > now' - Window}]]
  BY DEF Tick
<1>2. ASSUME NEW x \in Ips, NEW d \in Counters
      PROVE  Fits(element'[x], events'[x][d], d, now')
  <2>1. element'[x] = element[x]
        /\ events'[x][d] = {e \in events[x][d] : e[1] > now + 1 - Window}
    <3>1. element'[x] = element[x] /\ now' - Window = now + 1 - Window
      BY <1>1, PartTypes, DurationsAssumption
    <3>2. events'[x][d] = {e \in events[x][d] : e[1] > now' - Window}
      BY <1>1
    <3> QED BY <3>1, <3>2
  <2> QED BY <1>1, <2>1, PartTypes, FitsLater
<1>3. Accounted'
  BY <1>2 DEF Accounted
<1>4. NoBanForOldEvents'
  BY <1>1 DEF NoBanForOldEvents, NoBan
<1> QED BY <1>3, <1>4

\* Every operation keeps the account of the events of the last window.
THEOREM AccountInvariance == Spec => []FullInv
<1>1. Init => FullInv
  <2> SUFFICES ASSUME Init PROVE FullInv
    OBVIOUS
  <2>1. IInv
    <3>1. Absent \in Elements /\ Absent.present = FALSE
      BY DEF Elements, Absent
    <3> QED BY <3>1 DEF Init, IInv, ListType, Remembered
  <2>2. HistoryType
    BY DEF Init, HistoryType, NoEvents
  <2>3. Accounted
    BY FitsNothing DEF Init, NoEvents, Accounted
  <2>4. NoBanForOldEvents
    BY DEF Init, NoBanForOldEvents, NoBan
  <2> QED BY <2>1, <2>2, <2>3, <2>4 DEF FullInv
<1>2. FullInv /\ [Next]_vars => (Accounted /\ NoBanForOldEvents)'
  <2> SUFFICES ASSUME FullInv, [Next]_vars PROVE Accounted' /\ NoBanForOldEvents'
    OBVIOUS
  <2>1. CASE \E ip \in Ips, c \in Counters : accumulate_and_check_ban(ip, c)
    BY <2>1, CountKeepsAccount
  <2>2. CASE \E ip \in Ips : remove_ban(ip)
    BY <2>2, RemoveKeepsAccount
  <2>3. CASE Tick
    BY <2>3, TickKeepsAccount
  <2>4. CASE UNCHANGED vars
    BY <2>4 DEF vars, FullInv, Accounted, NoBanForOldEvents, Recent
  <2> QED BY <2>1, <2>2, <2>3, <2>4 DEF Next
<1>3. FullInv <=> IInv /\ HistoryType /\ Accounted /\ NoBanForOldEvents
  BY DEF FullInv
<1> QED BY <1>1, <1>2, <1>3, HistoryInvariance, PTL DEF Spec

(***************************************************************************)
(* An address that is not banned is only banned by events which, with the  *)
(* one that brings the ban, are as many as the configured maximum within   *)
(* the last window: the counter never counts an event of an earlier        *)
(* window, or one of the time of an earlier ban.                           *)
(***************************************************************************)
THEOREM BansAreDeserved == Spec => []NoBanForOldEvents
<1>1. FullInv => NoBanForOldEvents
  BY DEF FullInv
<1> QED BY <1>1, AccountInvariance, PTL

(***************************************************************************)
(* Although windows start where events happen to fall, so that a burst at  *)
(* the end of one may be followed by a burst at the start of the next, an  *)
(* address that is not banned has had at most twice the maximum of events  *)
(* in the last window, if bans last at least as long as windows.           *)
(***************************************************************************)
THEOREM RatesAreLimited == Spec => []RateIsLimited
<1>1. FullInv => RateIsLimited
  <2> SUFFICES ASSUME FullInv, BanDuration >= Window, NEW ip \in Ips, NEW c \in Counters,
                      get_ban_time_remaining(ip) = 0
               PROVE  Recent(ip, c) <= 2 * CounterMax[c]
    BY DEF RateIsLimited
  <2> DEFINE e == element[ip]
             E == events[ip][c]
  <2>1. /\ now \in Nat /\ e \in Elements /\ E \in EventSets(now)
        /\ Fits(e, E, c, now)
    BY PartTypes
  <2>2. /\ Allowed(c) \in Nat /\ Cardinality(E) \in Nat
        /\ CounterMax[c] \in Nat /\ Allowed(c) <= CounterMax[c]
    BY <2>1, AllowedFacts, EventSetFacts
  <2>3. CASE e.present => e.expiry_time <= now
    <3>1. Fits(Absent, E, c, now)
      BY <2>1, <2>3, FitsExpired
    <3>2. Cardinality(E) <= Allowed(c)
      BY <3>1 DEF Fits, Room, Absent
    <3> QED BY <2>2, <3>2 DEF Recent
  <2>4. CASE e.present /\ ~(e.expiry_time <= now)
    <3>1. e.expiry_time \in Nat /\ e.ban_expiry_time \in Nat /\ e.counters[c] \in Nat
      BY <2>1, <2>4, ElementFacts
    <3>2. e.ban_expiry_time = 0
      <4> SUFFICES ASSUME e.ban_expiry_time # 0
                   PROVE  FALSE
        OBVIOUS
      <4>1. e.ban_expiry_time = e.expiry_time
        BY <2>1, <2>4 DEF Fits, BanDated
      <4>2. get_ban_time_remaining(ip) = e.ban_expiry_time - now
        BY <2>1, <2>4, <3>1, <4>1 DEF get_ban_time_remaining
      <4> QED BY <2>1, <2>4, <3>1, <4>1, <4>2
    <3> DEFINE start == e.expiry_time - Window
    <3>3. Windowed(e, E, c, now) /\ Room(e, E, c)
      BY <2>1, <2>4, <3>2 DEF Fits
    <3>4. Cardinality(Since(E, start)) <= e.counters[c] /\ e.counters[c] <= Allowed(c)
      BY <3>3 DEF Windowed
    <3>5. Cardinality(Earlier(E, start)) <= Allowed(c)
      BY <2>4, <3>2, <3>3 DEF Room
    <3>6. start \in 0..now
      BY <3>3 DEF Windowed
    <3> HIDE DEF start, E, e
    <3>7. /\ IsFiniteSet(Since(E, start)) /\ Cardinality(Since(E, start)) \in Nat
          /\ IsFiniteSet(Earlier(E, start)) /\ Cardinality(Earlier(E, start)) \in Nat
      <4>1. Since(E, start) \in SUBSET E /\ Earlier(E, start) \in SUBSET E
        BY DEF Since, Earlier
      <4>2. \A G \in SUBSET E : G \in EventSets(now)
        BY <2>1 DEF EventSets
      <4> QED BY <2>1, <4>1, <4>2, EventSetFacts
    <3>8. E = Since(E, start) \cup Earlier(E, start) /\ Since(E, start) \cap Earlier(E, start) = {}
      <4>1. \A x \in E : x[1] \in 0..now
        BY <2>1, EventFacts
      <4> QED BY <2>1, <3>6, <4>1 DEF Since, Earlier
    <3>9. Cardinality(E) = Cardinality(Since(E, start)) + Cardinality(Earlier(E, start))
      <4> DEFINE S == Since(E, start)
                 T == Earlier(E, start)
      <4>1. Cardinality(S \cap T) = 0 /\ Cardinality(S) \in Nat /\ Cardinality(T) \in Nat
        BY <3>7, <3>8, FS_EmptySet
      <4>2. Cardinality(S \cup T) = Cardinality(S) + Cardinality(T) - Cardinality(S \cap T)
        BY <3>7, FS_Union
      <4>3. Cardinality(E) = Cardinality(S \cup T)
        BY <3>8
      <4> HIDE DEF S, T
      <4>4. Cardinality(E) = Cardinality(S) + Cardinality(T)
        BY <4>1, <4>2, <4>3
      <4> QED BY <4>4 DEF S, T
    <3>10. Cardinality(E) <= 2 * Allowed(c)
      BY <2>2, <3>1, <3>4, <3>5, <3>7, <3>9 DEF e
    <3> QED BY <2>2, <3>10 DEF Recent, E
  <2> QED BY <2>3, <2>4
<1> QED BY <1>1, AccountInvariance, PTL

===============================================================================
