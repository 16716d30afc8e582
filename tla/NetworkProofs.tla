----------------------------- MODULE NetworkProofs -----------------------------
(***************************************************************************)
(* The connections between the servers.  Whatever foyers, gates and        *)
(* clients there are, and however connections come and go during a         *)
(* broadcast, no client is sent it twice.  The broadcast relies on foyers  *)
(* that have one connection to the box: their connectors, however many     *)
(* runs of the timer overlap, never have two connections to one host.      *)
(***************************************************************************)
EXTENDS Broadcast, Connector, SequenceTheorems, FiniteSetTheorems, WellFoundedInduction, TLAPS

Alive(s) == session[s] \in {"connected", "accepting", "registered"}

\* The sessions that the acceptor knows, or a broadcast has yet to visit, have
\* said their hello: none of them is still to come to life.
Made == {s \in Sessions : session[s] \in {"registered", "down", "destroyed"}}

\* A foyer has one connection at a time.
OneAlive == \A s, t \in Sessions : Alive(s) /\ Alive(t) /\ FoyerOf[s] = FoyerOf[t] => s = t

KnownAreMade ==
    /\ IsFiniteSet(known) /\ known \subseteq Made
    /\ \A s \in Sessions : held[s] = "hello" => session[s] \in {"accepting", "down"}

\* A broadcast visits each of them once.
TodoOnce ==
    /\ \A i \in 1..Len(todo) : todo[i] \in Made
    /\ \A i, j \in 1..Len(todo) : todo[i] = todo[j] => i = j
    /\ acceptor = "broadcast" => current = started /\ current # 0

\* A broadcast is on its way over sessions that are up, and reaches each foyer
\* over one of them.
OnTheWay == \A s \in Sessions : toFoyer[s] # {} => session[s] = "registered"

\* Nobody has heard of broadcasts to come.
NoneToCome ==
    /\ \A s \in Sessions : \A n \in toFoyer[s] : n <= started
    /\ \A l \in Links : \A m \in toGate[l] : m.cast <= started
    /\ \A c \in Clients : \A i \in 1..Len(got[c]) : got[c][i] <= started

\* The broadcast n has not been through the foyer f.
Unheard(f, n) ==
    /\ \A l \in Links : \A m \in toGate[l] : l[1] = f => m.cast # n
    /\ \A c \in Clients : \A i \in 1..Len(got[c]) : EntryOf[c] = f => got[c][i] # n

\* A broadcast that is on its way to a foyer has not been there, nor has one
\* that is still to be sent there.
OnceToFoyer ==
    /\ \A s \in Sessions : \A n \in toFoyer[s] : Unheard(FoyerOf[s], n)
    /\ acceptor = "broadcast" =>
        \A i \in 1..Len(todo) : session[todo[i]] = "registered" =>
            /\ Unheard(FoyerOf[todo[i]], current)
            /\ current \notin toFoyer[todo[i]]

\* One that is on its way to a gate is there once, and has not been sent to
\* the clients it is for.
OnceToGate ==
    \A l \in Links : \A m \in toGate[l] :
        /\ m.clients = ClientsAt(l[1], l[2])
        /\ \A k \in toGate[l] : k.cast = m.cast => k = m
        /\ \A c \in m.clients : \A i \in 1..Len(got[c]) : got[c][i] # m.cast

IInv ==
    /\ TypeOK /\ OneAlive /\ KnownAreMade /\ TodoOnce /\ OnTheWay /\ NoneToCome
    /\ OnceToFoyer /\ OnceToGate /\ BroadcastOnce

-------------------------------------------------------------------------------
\* Nothing has been sent at first.
LEMMA InitIInv == Init => IInv
<1> SUFFICES ASSUME Init PROVE IInv
  OBVIOUS
<1>1. TypeOK
  BY ConstantsAssumption DEF Init, TypeOK
<1>2. OneAlive /\ KnownAreMade /\ OnTheWay
  BY FS_EmptySet DEF Init, OneAlive, Alive, KnownAreMade, OnTheWay
<1>3. TodoOnce /\ NoneToCome /\ OnceToFoyer
  BY DEF Init, TodoOnce, NoneToCome, OnceToFoyer
<1>4. OnceToGate /\ BroadcastOnce
  BY DEF Init, OnceToGate, BroadcastOnce, IsInjective
<1> QED BY <1>1, <1>2, <1>3, <1>4 DEF IInv

\* Every step keeps the types.
LEMMA TypeStep ==
  ASSUME TypeOK, IsFiniteSet(known), TodoOnce, [Next]_vars
  PROVE  TypeOK'
<1> USE DEF TypeOK, sessionVars, castVars, routeVars
<1>1. ASSUME NEW s \in Sessions,
             \/ Connect(s) \/ BeginHello(s) \/ Register(s) \/ BeginSend(s)
             \/ EndSend(s) \/ Destroy(s)
      PROVE  TypeOK'
  BY <1>1 DEF Connect, BeginHello, Register, BeginSend, EndSend, Destroy
<1>2. ASSUME NEW s \in Sessions, Lose(s)
      PROVE  TypeOK'
  BY <1>2 DEF Lose
<1>3. ASSUME NEW s \in Sessions, BeginLookUp(s) \/ EndLookUp(s)
      PROVE  TypeOK'
  <2>1. todo' \in Seq(Sessions)
    <3>1. todo' = <<s>> \/ todo' = <<>>
      BY <1>3 DEF BeginLookUp, EndLookUp
    <3>2. <<s>> \in Seq(Sessions) /\ <<>> \in Seq(Sessions)
      OBVIOUS
    <3> QED BY <3>1, <3>2
  <2>3. acceptor' \in {"lookup", "free"}
    BY <1>3 DEF BeginLookUp, EndLookUp
  <2>2. UNCHANGED <<session, known, held, current, started, toFoyer, linked, toGate, open, got>>
    BY <1>3 DEF BeginLookUp, EndLookUp
  <2> QED BY <2>1, <2>2, <2>3
<1>4. ASSUME NEW s \in Sessions, Visit(s)
      PROVE  TypeOK'
  <2>1. Tail(todo) \in Seq(Sessions)
    BY <1>4 DEF Visit
  <2>2. toFoyer' \in [Sessions -> SUBSET Casts]
    <3>1. CASE Expired(s) \/ session[s] = "down"
      BY <1>4, <3>1 DEF Visit
    <3>2. CASE ~(Expired(s) \/ session[s] = "down")
      <4>1. toFoyer' = [toFoyer EXCEPT ![s] = toFoyer[s] \cup {current}] /\ acceptor = "broadcast"
        BY <1>4, <3>2 DEF Visit
      <4>2. current \in Casts
        BY <4>1, ConstantsAssumption DEF TodoOnce, Casts
      <4> QED BY <4>1, <4>2
    <3> QED BY <3>1, <3>2
  <2> QED BY <1>4, <2>1, <2>2 DEF Visit
<1>5. CASE BeginBroadcast
  <2>1. todo' \in Seq(Sessions)
    <3>1. Cardinality(known) \in Nat
      BY FS_CardinalityType
    <3>2. todo' \in [1..Cardinality(known) -> known]
      BY <1>5 DEF BeginBroadcast, SetToSeqs
    <3> QED BY <3>1, <3>2
  <2>2. started + 1 \in 0..MaxBroadcasts
    BY <1>5, ConstantsAssumption DEF BeginBroadcast
  <2> QED BY <1>5, <2>1, <2>2 DEF BeginBroadcast
<1>6. CASE EndBroadcast
  BY <1>6, ConstantsAssumption DEF EndBroadcast
<1>7. ASSUME NEW s \in Sessions, NEW n \in toFoyer[s], Forward(s, n)
      PROVE  TypeOK'
  <2> DEFINE f == FoyerOf[s]
  <2>1. \A g, order : Packed(n, f, g, order) \in Notification
    <3>1. \A g : ClientsAt(f, g) \subseteq Clients
      BY DEF ClientsAt
    <3>2. n \in Casts
      BY <1>7
    <3> QED BY <3>1, <3>2 DEF Packed, Notification
  <2>2. PICK order : toGate' = [l \in Links |->
                IF l[1] = f /\ l[2] \in Receivers(f)
                THEN toGate[l] \cup {Packed(n, f, l[2], order)} ELSE toGate[l]]
    BY <1>7 DEF Forward
  <2>3. toGate' \in [Links -> SUBSET Notification]
    BY <2>1, <2>2 DEF Links
  <2> QED BY <1>7, <2>3 DEF Forward
<1>8. ASSUME NEW l \in Links, NEW m \in toGate[l], Deliver(l, m)
      PROVE  TypeOK'
  <2>1. m.cast \in Casts
    BY DEF Notification
  <2>2. got' \in [Clients -> Seq(Casts)]
    BY <1>8, <2>1 DEF Deliver
  <2> QED BY <1>8, <2>2 DEF Deliver
<1>9. ASSUME NEW l \in Links, LoseLink(l)
      PROVE  TypeOK'
  BY <1>9 DEF LoseLink
<1>10. ASSUME NEW c \in Clients, Leave(c)
       PROVE  TypeOK'
  BY <1>10 DEF Leave
<1>11. CASE UNCHANGED vars
  BY <1>11 DEF vars
<1> QED BY <1>1, <1>2, <1>3, <1>4, <1>5, <1>6, <1>7, <1>8, <1>9, <1>10, <1>11 DEF Next

-------------------------------------------------------------------------------
\* Steps of the sessions.  A session comes to life while no other of its foyer
\* is alive, and is registered before any broadcast knows it.
LEMMA SessionStep ==
  ASSUME IInv, TypeOK', OneAlive', KnownAreMade', Made \subseteq Made',
         \A x \in Sessions : session'[x] = "registered" => session[x] = "registered" \/ x \notin Made,
         \A x \in Sessions : toFoyer'[x] \subseteq toFoyer[x],
         \A x \in Sessions : toFoyer'[x] # {} => session'[x] = session[x] \/ session'[x] = "registered",
         UNCHANGED <<castVars, routeVars>>
  PROVE  IInv'
<1> USE DEF castVars, routeVars
<1>1. TodoOnce'
  BY DEF IInv, TodoOnce
<1>2. OnTheWay'
  BY DEF IInv, OnTheWay
<1>3. NoneToCome'
  BY DEF IInv, NoneToCome
<1>4. OnceToFoyer'
  <2>1. \A s \in Sessions : \A n \in toFoyer'[s] : Unheard(FoyerOf[s], n)'
    BY DEF IInv, OnceToFoyer, Unheard
  <2>2. ASSUME acceptor = "broadcast", NEW i \in 1..Len(todo), session'[todo[i]] = "registered"
        PROVE  (Unheard(FoyerOf[todo[i]], current) /\ current \notin toFoyer[todo[i]])'
    <3>1. todo' = todo /\ current' = current /\ toFoyer'[todo[i]] \subseteq toFoyer[todo[i]]
      BY DEF IInv, TypeOK
    <3>2. todo[i] \in Made
      BY <3>1 DEF IInv, TodoOnce
    <3>3. todo[i] \in Sessions /\ session[todo[i]] = "registered"
      BY <2>2, <3>2 DEF Made
    <3>4. Unheard(FoyerOf[todo[i]], current) /\ current \notin toFoyer[todo[i]]
      BY <2>2, <3>3 DEF IInv, OnceToFoyer
    <3>5. Unheard(FoyerOf[todo[i]], current)'
      BY <3>1, <3>4 DEF Unheard
    <3> QED BY <3>1, <3>4, <3>5
  <2> QED BY <2>1, <2>2 DEF OnceToFoyer
<1>5. OnceToGate' /\ BroadcastOnce'
  BY DEF IInv, OnceToGate, BroadcastOnce
<1> QED BY <1>1, <1>2, <1>3, <1>4, <1>5 DEF IInv

LEMMA ConnectStep ==
  ASSUME IInv, TypeOK', NEW s \in Sessions, Connect(s)
  PROVE  IInv'
<1> USE DEF Connect, castVars, routeVars
<1>1. session' = [session EXCEPT ![s] = "connected"] /\ DOMAIN session = Sessions
  BY DEF IInv, TypeOK
<1>2. OneAlive'
  <2> SUFFICES ASSUME NEW x \in Sessions, NEW y \in Sessions,
                      Alive(x)', Alive(y)', FoyerOf[x] = FoyerOf[y]
               PROVE  x = y
    BY DEF OneAlive
  <2>1. \A z \in Sessions : z # s /\ Alive(z)' => Alive(z) /\ FoyerOf[z] # FoyerOf[s]
    BY <1>1 DEF Alive, FoyerIsFree
  <2> QED BY <2>1 DEF IInv, OneAlive
<1>3. KnownAreMade' /\ Made \subseteq Made'
  BY <1>1 DEF IInv, KnownAreMade, Made
<1>4. \A x \in Sessions : toFoyer'[x] # {} => session'[x] = session[x] \/ session'[x] = "registered"
  BY <1>1 DEF IInv, OnTheWay
<1> QED BY <1>1, <1>2, <1>3, <1>4, SessionStep

\* The steps of one session that is there already.
LEMMA OneSessionStep ==
  ASSUME IInv, TypeOK', NEW s \in Sessions,
         \/ BeginHello(s) \/ Register(s) \/ BeginSend(s) \/ EndSend(s) \/ Lose(s) \/ Destroy(s)
  PROVE  IInv'
<1> USE DEF castVars, routeVars
<1>1. DOMAIN session = Sessions /\ DOMAIN held = Sessions /\ DOMAIN toFoyer = Sessions
  BY DEF IInv, TypeOK
<1>2. /\ \A x \in Sessions : x # s => session'[x] = session[x] /\ toFoyer'[x] = toFoyer[x] /\ held'[x] = held[x]
      /\ toFoyer'[s] \subseteq toFoyer[s]
      /\ known' \subseteq known \cup {s}
      /\ UNCHANGED <<castVars, routeVars>>
  BY <1>1 DEF BeginHello, Register, BeginSend, EndSend, Lose, Destroy
<1>3. \/ session[s] = "connected" /\ session'[s] = "accepting" /\ held'[s] = "hello" /\ known' = known
      \/ /\ session[s] = "accepting" /\ session'[s] = "registered" /\ held'[s] = "free" /\ toFoyer'[s] = {}
      \/ session[s] = "down" /\ session'[s] = "down" /\ held'[s] = "free"
      \/ session'[s] = session[s] /\ held'[s] \in {"free", "sender"} /\ known' = known
      \/ /\ session[s] \in {"connected", "accepting", "registered"} /\ session'[s] = "down"
         /\ toFoyer'[s] = {} /\ held'[s] = held[s] /\ known' = known
      \/ /\ session[s] = "down" /\ session'[s] = "destroyed" /\ held'[s] = "free" /\ known' = known
  <2>1. CASE BeginHello(s)
    BY <1>1, <2>1 DEF BeginHello
  <2>2. CASE Register(s)
    <3>1. session[s] \in {"accepting", "down"}
      BY <2>2 DEF IInv, KnownAreMade, Register
    <3>2. session[s] = "accepting" => toFoyer[s] = {}
      BY DEF IInv, OnTheWay
    <3> QED BY <1>1, <2>2, <3>1, <3>2 DEF Register
  <2>3. CASE BeginSend(s) \/ EndSend(s)
    BY <1>1, <2>3 DEF BeginSend, EndSend
  <2>4. CASE Lose(s)
    BY <1>1, <2>4 DEF Lose
  <2>5. CASE Destroy(s)
    BY <1>1, <2>5 DEF Destroy
  <2> QED BY <2>1, <2>2, <2>3, <2>4, <2>5
<1>4. \A x \in Sessions : Alive(x)' => Alive(x)
  BY <1>2, <1>3 DEF Alive
<1>5. OneAlive'
  BY <1>4 DEF IInv, OneAlive
<1>6. Made \subseteq Made'
  BY <1>2, <1>3 DEF Made
<1>7. KnownAreMade'
  <2>1. IsFiniteSet(known')
    <3>1. IsFiniteSet(known \cup {s})
      BY FS_AddElement DEF IInv, KnownAreMade
    <3> QED BY <1>2, <3>1, FS_Subset
  <2>2. known' \subseteq Made'
    BY <1>1, <1>2, <1>3, <1>6 DEF IInv, KnownAreMade, Made
  <2>3. \A x \in Sessions : held'[x] = "hello" => session'[x] \in {"accepting", "down"}
    BY <1>2, <1>3 DEF IInv, KnownAreMade
  <2> QED BY <2>1, <2>2, <2>3 DEF KnownAreMade
<1>8. \A x \in Sessions : session'[x] = "registered" => session[x] = "registered" \/ x \notin Made
  BY <1>2, <1>3 DEF Made
<1>9. \A x \in Sessions : toFoyer'[x] # {} => session'[x] = session[x] \/ session'[x] = "registered"
  BY <1>2, <1>3 DEF IInv, OnTheWay
<1> QED BY <1>2, <1>5, <1>6, <1>7, <1>8, <1>9, SessionStep

-------------------------------------------------------------------------------
\* Steps of the acceptor leave the sessions and the gates alone.
LEMMA AcceptorStep ==
  ASSUME IInv, TypeOK', TodoOnce', OnTheWay', NoneToCome', OnceToFoyer',
         UNCHANGED <<sessionVars, routeVars>>
  PROVE  IInv'
<1> USE DEF sessionVars, routeVars
<1>1. OneAlive' /\ KnownAreMade'
  BY DEF IInv, OneAlive, Alive, KnownAreMade, Made
<1>2. OnceToGate' /\ BroadcastOnce'
  BY DEF IInv, OnceToGate, BroadcastOnce
<1> QED BY <1>1, <1>2 DEF IInv

\* A step that is not part of a broadcast.
LEMMA LookUpStep ==
  ASSUME IInv, TypeOK', EndBroadcast \/ \E s \in Sessions : BeginLookUp(s) \/ EndLookUp(s)
  PROVE  IInv'
<1> USE DEF sessionVars, routeVars
<1>1. /\ UNCHANGED <<session, known, held, started, toFoyer, linked, toGate, open, got>>
      /\ acceptor' # "broadcast"
      /\ todo' = <<>> \/ \E s \in known : todo' = <<s>>
  BY DEF BeginLookUp, EndLookUp, EndBroadcast
<1>2. TodoOnce'
  <2>1. CASE todo' = <<>>
    BY <1>1, <2>1 DEF TodoOnce
  <2>2. ASSUME NEW s \in known, todo' = <<s>> PROVE TodoOnce'
    <3>1. s \in Made' /\ Len(todo') = 1 /\ todo'[1] = s
      BY <1>1, <2>2 DEF IInv, KnownAreMade, Made
    <3> QED BY <1>1, <3>1 DEF TodoOnce
  <2> QED BY <1>1, <2>1, <2>2
<1>3. OnTheWay' /\ NoneToCome' /\ OnceToFoyer'
  BY <1>1 DEF IInv, OnTheWay, NoneToCome, OnceToFoyer, Unheard
<1> QED BY <1>1, <1>2, <1>3, AcceptorStep

\* A new broadcast has been nowhere, and each known session is listed once.
LEMMA BeginBroadcastStep ==
  ASSUME IInv, TypeOK', BeginBroadcast
  PROVE  IInv'
<1> USE DEF sessionVars, routeVars
<1>1. /\ UNCHANGED <<session, known, held, toFoyer, linked, toGate, open, got>>
      /\ started' = started + 1 /\ current' = started + 1 /\ todo' \in SetToSeqs(known)
      /\ started \in Nat
  BY DEF BeginBroadcast, IInv, TypeOK
<1>2. TodoOnce'
  <2>1. Cardinality(known) \in Nat
    BY FS_CardinalityType DEF IInv, KnownAreMade
  <2>2. /\ Len(todo') = Cardinality(known)
        /\ \A i \in 1..Len(todo') : todo'[i] \in known
        /\ \A i, j \in 1..Len(todo') : i # j => todo'[i] # todo'[j]
    BY <1>1, <2>1 DEF SetToSeqs
  <2>3. known \subseteq Made'
    BY <1>1 DEF IInv, KnownAreMade, Made
  <2> QED BY <1>1, <2>2, <2>3 DEF TodoOnce
<1>3. \A n \in Casts : n <= started => n <= started + 1 /\ n # started + 1
  BY <1>1, ConstantsAssumption DEF Casts
<1>4. /\ \A s \in Sessions : \A n \in toFoyer[s] : n \in Casts
      /\ \A l \in Links : \A m \in toGate[l] : m.cast \in Casts
      /\ \A c \in Clients : \A i \in 1..Len(got[c]) : got[c][i] \in Casts
  BY DEF IInv, TypeOK, Notification
<1>5. OnTheWay' /\ NoneToCome'
  BY <1>1, <1>3, <1>4 DEF IInv, OnTheWay, NoneToCome
<1>6. \A f : Unheard(f, started + 1)
  BY <1>3, <1>4 DEF IInv, NoneToCome, Unheard
<1>7. OnceToFoyer'
  <2>1. \A s \in Sessions : started + 1 \notin toFoyer[s]
    BY <1>3, <1>4 DEF IInv, NoneToCome
  <2>2. \A i \in 1..Len(todo') : todo'[i] \in Sessions
    BY DEF TypeOK
  <2> QED BY <1>1, <1>6, <2>1, <2>2 DEF IInv, OnceToFoyer, Unheard
<1> QED BY <1>1, <1>2, <1>5, <1>7, AcceptorStep

\* The session at the head is not visited again.
LEMMA VisitStep ==
  ASSUME IInv, TypeOK', NEW s \in Sessions, Visit(s)
  PROVE  IInv'
<1> USE DEF sessionVars, routeVars
<1>1. /\ UNCHANGED <<session, known, held, acceptor, current, started, linked, toGate, open, got>>
      /\ acceptor = "broadcast" /\ todo # <<>> /\ s = todo[1] /\ todo' = Tail(todo)
      /\ todo \in Seq(Sessions) /\ DOMAIN toFoyer = Sessions
  BY DEF Visit, IInv, TypeOK
<1>2. /\ 1 \in 1..Len(todo)
      /\ Len(todo') = Len(todo) - 1
      /\ \A i \in 1..Len(todo') : todo'[i] = todo[i+1] /\ i+1 \in 1..Len(todo) /\ i+1 # 1
  BY <1>1
<1>3. TodoOnce'
  <2>1. Made' = Made
    BY <1>1 DEF Made
  <2>2. \A i \in 1..Len(todo') : todo'[i] \in Made'
    BY <1>2, <2>1 DEF IInv, TodoOnce
  <2>3. ASSUME NEW i \in 1..Len(todo'), NEW j \in 1..Len(todo'), todo'[i] = todo'[j] PROVE i = j
    <3>1. i + 1 = j + 1
      BY <1>2, <2>3 DEF IInv, TodoOnce
    <3> QED BY <3>1
  <2> QED BY <1>1, <2>2, <2>3 DEF IInv, TodoOnce
<1>4. \A i \in 1..Len(todo') : todo'[i] # s
  BY <1>1, <1>2 DEF IInv, TodoOnce
<1>5. \A i \in 1..Len(todo') : session[todo'[i]] = "registered" =>
            Unheard(FoyerOf[todo'[i]], current) /\ current \notin toFoyer[todo'[i]]
  BY <1>1, <1>2 DEF IInv, OnceToFoyer
<1>6. CASE Expired(s) \/ session[s] = "down"
  <2>1. toFoyer' = toFoyer
    BY <1>6 DEF Visit
  <2> QED BY <1>1, <1>3, <1>5, <2>1, AcceptorStep DEF IInv, OnTheWay, NoneToCome, OnceToFoyer, Unheard
<1>7. CASE ~(Expired(s) \/ session[s] = "down")
  <2>1. \A x \in Sessions : toFoyer'[x] = IF x = s THEN toFoyer[s] \cup {current} ELSE toFoyer[x]
    BY <1>1, <1>7 DEF Visit
  <2>2. session[s] = "registered" /\ Unheard(FoyerOf[s], current)
    BY <1>1, <1>2, <1>7 DEF IInv, TodoOnce, Made, Expired, OnceToFoyer
  <2>3. OnTheWay'
    BY <1>1, <2>1, <2>2 DEF IInv, OnTheWay
  <2>4. current <= started
    BY <1>1, ConstantsAssumption DEF IInv, TypeOK, TodoOnce
  <2>5. NoneToCome'
    BY <1>1, <2>1, <2>4 DEF IInv, NoneToCome
  <2>6. \A x \in Sessions : \A n \in toFoyer'[x] : Unheard(FoyerOf[x], n)
    BY <2>1, <2>2 DEF IInv, OnceToFoyer
  <2>7. \A i \in 1..Len(todo') : session[todo'[i]] = "registered" => current \notin toFoyer'[todo'[i]]
    <3>1. \A i \in 1..Len(todo') : todo'[i] \in Sessions
      BY DEF TypeOK
    <3> QED BY <1>4, <1>5, <2>1, <3>1
  <2>8. OnceToFoyer'
    <3>1. \A f, n : Unheard(f, n) => (Unheard(f, n))'
      BY <1>1 DEF Unheard
    <3>2. \A x \in Sessions : \A n \in toFoyer'[x] : (Unheard(FoyerOf[x], n))'
      BY <2>6, <3>1
    <3>3. \A i \in 1..Len(todo') : session'[todo'[i]] = "registered" =>
                (Unheard(FoyerOf[todo[i]], current))' /\ current' \notin toFoyer'[todo'[i]]
      BY <1>1, <1>5, <2>7 DEF Unheard
    <3> QED BY <3>2, <3>3 DEF OnceToFoyer
  <2> QED BY <1>1, <1>3, <2>3, <2>5, <2>8, AcceptorStep
<1> QED BY <1>6, <1>7

-------------------------------------------------------------------------------
\* What travels over two sessions to one foyer travels over one of them.
LEMMA OneWay ==
  ASSUME IInv, NEW s \in Sessions, NEW t \in Sessions,
         session[s] = "registered", session[t] = "registered", FoyerOf[s] = FoyerOf[t]
  PROVE  s = t
  BY DEF IInv, OneAlive, Alive

\* A foyer hears of a broadcast once, and tells each gate once.
LEMMA ForwardStep ==
  ASSUME IInv, TypeOK', NEW s \in Sessions, NEW n \in toFoyer[s], Forward(s, n)
  PROVE  IInv'
<1> USE DEF sessionVars, castVars
<1> DEFINE f == FoyerOf[s]
<1>1. UNCHANGED <<session, known, held, acceptor, current, todo, started, linked, open, got>>
  BY DEF Forward
<1>2. \A x \in Sessions : toFoyer'[x] = IF x = s THEN toFoyer[s] \ {n} ELSE toFoyer[x]
  BY DEF Forward, IInv, TypeOK
<1>3. PICK order : \A l \in Links :
            toGate'[l] = IF l[1] = f /\ l[2] \in Receivers(f)
                         THEN toGate[l] \cup {Packed(n, f, l[2], order)} ELSE toGate[l]
  BY DEF Forward
<1>4. session[s] = "registered" /\ Unheard(f, n) /\ n <= started
  BY DEF IInv, OnTheWay, OnceToFoyer, NoneToCome
<1>5. \A g : /\ Packed(n, f, g, order).cast = n
            /\ Packed(n, f, g, order).clients = ClientsAt(f, g)
  BY DEF Packed
<1>6. \A l \in Links : \A k \in toGate'[l] : k \in toGate[l] \/ (k.cast = n /\ l[1] = f)
  <2> SUFFICES ASSUME NEW l \in Links, NEW k \in toGate'[l], k \notin toGate[l]
               PROVE  k.cast = n /\ l[1] = f
    OBVIOUS
  <2>1. k = Packed(n, f, l[2], order) /\ l[1] = f
    BY <1>3
  <2> QED BY <1>5, <2>1
<1>7. OneAlive' /\ KnownAreMade' /\ TodoOnce' /\ BroadcastOnce'
  BY <1>1 DEF IInv, OneAlive, Alive, KnownAreMade, Made, TodoOnce, BroadcastOnce
<1>8. OnTheWay'
  BY <1>1, <1>2 DEF IInv, OnTheWay
<1>9. NoneToCome'
  <2>1. \A x \in Sessions : \A k \in toFoyer'[x] : k <= started'
    BY <1>1, <1>2 DEF IInv, NoneToCome
  <2>2. \A l \in Links : \A k \in toGate'[l] : k.cast <= started'
    BY <1>1, <1>4, <1>6 DEF IInv, NoneToCome
  <2> QED BY <1>1, <2>1, <2>2 DEF IInv, NoneToCome
<1>10. \A h, k : Unheard(h, k) /\ (h = f => k # n) => (Unheard(h, k))'
  <2> SUFFICES ASSUME NEW h, NEW k, Unheard(h, k), h = f => k # n PROVE (Unheard(h, k))'
    OBVIOUS
  <2>1. \A l \in Links : \A e \in toGate'[l] : l[1] = h => e.cast # k
    BY <1>6 DEF Unheard
  <2> QED BY <1>1, <2>1 DEF Unheard
<1>11. OnceToFoyer'
  <2>1. \A x \in Sessions : \A k \in toFoyer'[x] : (Unheard(FoyerOf[x], k))'
    <3> SUFFICES ASSUME NEW x \in Sessions, NEW k \in toFoyer'[x] PROVE (Unheard(FoyerOf[x], k))'
      OBVIOUS
    <3>1. k \in toFoyer[x] /\ (x = s => k # n) /\ session[x] = "registered"
      BY <1>2 DEF IInv, OnTheWay
    <3>2. FoyerOf[x] = f => k # n
      BY <1>4, <3>1, OneWay
    <3> QED BY <1>10, <3>1, <3>2 DEF IInv, OnceToFoyer
  <2>2. ASSUME acceptor = "broadcast", NEW i \in 1..Len(todo), session[todo[i]] = "registered"
        PROVE  (Unheard(FoyerOf[todo[i]], current) /\ current \notin toFoyer[todo[i]])'
    <3>1. todo[i] \in Sessions
      BY DEF IInv, TypeOK
    <3>2. Unheard(FoyerOf[todo[i]], current) /\ current \notin toFoyer[todo[i]]
      BY <2>2 DEF IInv, OnceToFoyer
    <3>3. FoyerOf[todo[i]] = f => current # n
      BY <1>4, <2>2, <3>1, <3>2, OneWay
    <3>4. (Unheard(FoyerOf[todo[i]], current))'
      <4>1. \A h, k : h = FoyerOf[todo[i]] /\ k = current => (Unheard(h, k))'
        BY <1>10, <3>2, <3>3
      <4> QED BY <1>1, <4>1 DEF Unheard
    <3> QED BY <1>1, <1>2, <3>1, <3>2, <3>4
  <2> QED BY <1>1, <2>1, <2>2 DEF OnceToFoyer
<1>12. OnceToGate'
  <2> SUFFICES ASSUME NEW l \in Links, NEW k \in toGate'[l]
               PROVE  /\ k.clients = ClientsAt(l[1], l[2])
                      /\ \A e \in toGate'[l] : e.cast = k.cast => e = k
                      /\ \A c \in k.clients : \A i \in 1..Len(got[c]) : got[c][i] # k.cast
    BY <1>1 DEF OnceToGate
  <2>1. CASE toGate'[l] = toGate[l]
    BY <2>1 DEF IInv, OnceToGate
  <2>2. CASE l[1] = f /\ toGate'[l] = toGate[l] \cup {Packed(n, f, l[2], order)}
    <3>1. \A e \in toGate[l] : e.cast # n
      BY <1>4, <2>2 DEF Unheard
    <3>2. \A e \in toGate'[l] : e.cast = k.cast => e = k
      BY <1>5, <2>2, <3>1 DEF IInv, OnceToGate
    <3>3. CASE k \in toGate[l]
      BY <3>2, <3>3 DEF IInv, OnceToGate
    <3>4. CASE k = Packed(n, f, l[2], order)
      <4>1. k.cast = n /\ k.clients = ClientsAt(l[1], l[2])
        BY <1>5, <2>2, <3>4
      <4>2. \A c \in k.clients : c \in Clients /\ EntryOf[c] = f
        BY <2>2, <4>1 DEF ClientsAt
      <4> QED BY <1>4, <3>2, <4>1, <4>2 DEF Unheard
    <3> QED BY <2>2, <3>3, <3>4
  <2> QED BY <1>3, <2>1, <2>2
<1> QED BY <1>7, <1>8, <1>9, <1>11, <1>12 DEF IInv

\* A gate sends a broadcast to clients that have not got it from anywhere.
LEMMA DeliverStep ==
  ASSUME IInv, TypeOK', NEW l \in Links, NEW m \in toGate[l], Deliver(l, m)
  PROVE  IInv'
<1> USE DEF sessionVars, castVars
<1>1. UNCHANGED <<session, known, held, acceptor, current, todo, started, toFoyer, linked, open>>
  BY DEF Deliver
<1>2. \A k \in Links : toGate'[k] = IF k = l THEN toGate[l] \ {m} ELSE toGate[k]
  BY DEF Deliver, IInv, TypeOK
<1>3. /\ m.clients = ClientsAt(l[1], l[2]) /\ m.cast <= started /\ m.cast \in Casts
      /\ \A k \in toGate[l] : k.cast = m.cast => k = m
      /\ \A c \in m.clients : \A i \in 1..Len(got[c]) : got[c][i] # m.cast
  BY DEF IInv, OnceToGate, NoneToCome, TypeOK, Notification
<1>4. \A c \in Clients : \/ got'[c] = got[c]
                         \/ /\ c \in m.clients /\ got'[c] = Append(got[c], m.cast)
  BY DEF Deliver
<1>5. \A c \in Clients : \A i \in 1..Len(got'[c]) :
            \/ i \in 1..Len(got[c]) /\ got'[c][i] = got[c][i]
            \/ c \in m.clients /\ i = Len(got[c]) + 1 /\ got'[c][i] = m.cast
  <2> SUFFICES ASSUME NEW c \in Clients, NEW i \in 1..Len(got'[c])
               PROVE  \/ i \in 1..Len(got[c]) /\ got'[c][i] = got[c][i]
                      \/ c \in m.clients /\ i = Len(got[c]) + 1 /\ got'[c][i] = m.cast
    OBVIOUS
  <2>1. got[c] \in Seq(Casts)
    BY DEF IInv, TypeOK
  <2>2. CASE got'[c] = got[c]
    BY <2>2
  <2>3. CASE c \in m.clients /\ got'[c] = Append(got[c], m.cast)
    BY <1>3, <2>1, <2>3
  <2> QED BY <1>4, <2>2, <2>3
<1>6. OneAlive' /\ KnownAreMade' /\ TodoOnce' /\ OnTheWay'
  BY <1>1 DEF IInv, OneAlive, Alive, KnownAreMade, Made, TodoOnce, OnTheWay
<1>7. NoneToCome'
  <2>1. \A c \in Clients : \A i \in 1..Len(got'[c]) : got'[c][i] <= started
    BY <1>3, <1>5 DEF IInv, NoneToCome
  <2>2. \A k \in Links : \A e \in toGate'[k] : e.cast <= started
    BY <1>2 DEF IInv, NoneToCome
  <2> QED BY <1>1, <2>1, <2>2 DEF IInv, NoneToCome
<1>8. \A f, n : Unheard(f, n) => (Unheard(f, n))'
  <2> SUFFICES ASSUME NEW f, NEW n, Unheard(f, n) PROVE (Unheard(f, n))'
    OBVIOUS
  <2>1. \A k \in Links : \A e \in toGate'[k] : k[1] = f => e.cast # n
    BY <1>2 DEF Unheard
  <2>2. \A c \in Clients : \A i \in 1..Len(got'[c]) : EntryOf[c] = f => got'[c][i] # n
    <3>1. l[1] = f => m.cast # n
      BY DEF Unheard
    <3>2. \A c \in m.clients : EntryOf[c] = l[1]
      BY <1>3 DEF ClientsAt
    <3> QED BY <1>5, <3>1, <3>2 DEF Unheard
  <2> QED BY <2>1, <2>2 DEF Unheard
<1>9. OnceToFoyer'
  <2>1. \A x \in Sessions : \A n \in toFoyer[x] : (Unheard(FoyerOf[x], n))'
    BY <1>8 DEF IInv, OnceToFoyer
  <2>2. acceptor = "broadcast" => \A i \in 1..Len(todo) : session[todo[i]] = "registered" =>
            (Unheard(FoyerOf[todo[i]], current))' /\ current \notin toFoyer[todo[i]]
    <3>1. \A i \in 1..Len(todo) : Unheard(FoyerOf[todo[i]], current) => (Unheard(FoyerOf[todo[i]], current))'
      <4>1. \A i \in 1..Len(todo) : \A f, n : f = FoyerOf[todo[i]] /\ n = current /\ Unheard(f, n)
                => (Unheard(f, n))'
        BY <1>8
      <4> QED BY <1>1, <4>1 DEF Unheard
    <3> QED BY <3>1 DEF IInv, OnceToFoyer
  <2> QED BY <1>1, <2>1, <2>2 DEF OnceToFoyer
<1>10. OnceToGate'
  <2> SUFFICES ASSUME NEW k \in Links, NEW e \in toGate'[k]
               PROVE  /\ e.clients = ClientsAt(k[1], k[2])
                      /\ \A d \in toGate'[k] : d.cast = e.cast => d = e
                      /\ \A c \in e.clients : \A i \in 1..Len(got'[c]) : got'[c][i] # e.cast
    BY DEF OnceToGate
  <2>1. e \in toGate[k] /\ (k = l => e # m) /\ \A d \in toGate'[k] : d \in toGate[k]
    BY <1>2
  <2>2. /\ e.clients = ClientsAt(k[1], k[2])
        /\ \A d \in toGate'[k] : d.cast = e.cast => d = e
        /\ \A c \in e.clients : \A i \in 1..Len(got[c]) : got[c][i] # e.cast
    BY <2>1 DEF IInv, OnceToGate
  <2>3. ASSUME NEW c \in e.clients, c \in m.clients PROVE m.cast # e.cast
    <3>1. k[1] = l[1] /\ k[2] = l[2]
      BY <1>3, <2>2, <2>3 DEF ClientsAt
    <3>2. k = l
      BY <3>1 DEF Links
    <3> QED BY <1>3, <2>1, <3>2
  <2>4. e.clients \subseteq Clients
    BY <2>2 DEF ClientsAt
  <2> QED BY <1>5, <2>2, <2>3, <2>4
<1>11. BroadcastOnce'
  <2> SUFFICES ASSUME NEW c \in Clients, NEW i \in 1..Len(got'[c]), NEW j \in 1..Len(got'[c]),
                      got'[c][i] = got'[c][j]
               PROVE  i = j
    <3>1. \A c \in Clients : DOMAIN got'[c] = 1..Len(got'[c])
      BY DEF TypeOK
    <3> QED BY <3>1 DEF BroadcastOnce, IsInjective
  <2>1. \A p, q \in 1..Len(got[c]) : got[c][p] = got[c][q] => p = q
    <3>1. DOMAIN got[c] = 1..Len(got[c])
      BY DEF IInv, TypeOK
    <3> QED BY <3>1 DEF IInv, BroadcastOnce, IsInjective
  <2> QED BY <1>3, <1>5, <2>1
<1> QED BY <1>6, <1>7, <1>9, <1>10, <1>11 DEF IInv

\* Losing a connection loses messages; a client that leaves gets no more.
LEMMA LoseStep ==
  ASSUME IInv, TypeOK',
         \/ \E l \in Links : LoseLink(l)
         \/ \E c \in Clients : Leave(c)
         \/ UNCHANGED vars
  PROVE  IInv'
<1> USE DEF sessionVars, castVars
<1>1. UNCHANGED <<session, known, held, acceptor, current, todo, started, toFoyer, got>>
  BY DEF LoseLink, Leave, vars
<1>2. \A l \in Links : toGate'[l] \subseteq toGate[l]
  BY DEF LoseLink, Leave, vars, IInv, TypeOK
<1>3. OneAlive' /\ KnownAreMade' /\ TodoOnce' /\ OnTheWay' /\ BroadcastOnce'
  BY <1>1 DEF IInv, OneAlive, Alive, KnownAreMade, Made, TodoOnce, OnTheWay, BroadcastOnce
<1>4. NoneToCome' /\ OnceToGate'
  BY <1>1, <1>2 DEF IInv, NoneToCome, OnceToGate
<1>5. OnceToFoyer'
  BY <1>1, <1>2 DEF IInv, OnceToFoyer, Unheard
<1> QED BY <1>3, <1>4, <1>5 DEF IInv

-------------------------------------------------------------------------------
\* Every step of the box, the foyers and the gates keeps the invariant.
THEOREM Invariance == Spec => []IInv
<1>1. IInv /\ [Next]_vars => IInv'
  <2> SUFFICES ASSUME IInv, [Next]_vars PROVE IInv'
    OBVIOUS
  <2>1. TypeOK'
    BY TypeStep DEF IInv, KnownAreMade
  <2>2. ASSUME NEW s \in Sessions, Connect(s) PROVE IInv'
    BY <2>1, <2>2, ConnectStep
  <2>3. ASSUME NEW s \in Sessions,
               \/ BeginHello(s) \/ Register(s) \/ BeginSend(s) \/ EndSend(s) \/ Lose(s) \/ Destroy(s)
        PROVE  IInv'
    BY <2>1, <2>3, OneSessionStep
  <2>4. CASE EndBroadcast \/ \E s \in Sessions : BeginLookUp(s) \/ EndLookUp(s)
    BY <2>1, <2>4, LookUpStep
  <2>5. CASE BeginBroadcast
    BY <2>1, <2>5, BeginBroadcastStep
  <2>6. ASSUME NEW s \in Sessions, Visit(s) PROVE IInv'
    BY <2>1, <2>6, VisitStep
  <2>7. ASSUME NEW s \in Sessions, NEW n \in toFoyer[s], Forward(s, n) PROVE IInv'
    BY <2>1, <2>7, ForwardStep
  <2>8. ASSUME NEW l \in Links, NEW m \in toGate[l], Deliver(l, m) PROVE IInv'
    BY <2>1, <2>8, DeliverStep
  <2>9. CASE (\E l \in Links : LoseLink(l)) \/ (\E c \in Clients : Leave(c)) \/ UNCHANGED vars
    BY <2>1, <2>9, LoseStep
  <2> QED BY <2>2, <2>3, <2>4, <2>5, <2>6, <2>7, <2>8, <2>9 DEF Next
<1> QED BY InitIInv, <1>1, PTL DEF Spec

\* Every variable keeps its type, whatever foyers, gates and clients there are.
THEOREM TypeCorrect == Spec => []TypeOK
<1>1. IInv => TypeOK
  BY DEF IInv
<1> QED BY <1>1, Invariance, PTL

(***************************************************************************)
(* No client is sent a broadcast twice, whichever connections the foyers   *)
(* make, lose and make again while the acceptor is sending it, and however *)
(* many foyers a gate is connected to.                                     *)
(***************************************************************************)
THEOREM BroadcastsReachClientsOnce == Spec => []BroadcastOnce
<1>1. IInv => BroadcastOnce
  BY DEF IInv
<1> QED BY <1>1, Invariance, PTL

-------------------------------------------------------------------------------
(***************************************************************************)
(* The connector of a server.  What Broadcast.FoyerIsFree asks of a foyer  *)
(* is what HostsAreConnectedOnce, at the end, says of its connector.       *)
(***************************************************************************)

\* What the map finds is a client of that host, which still exists.
MapAgrees ==
    \A h \in Hosts : clients[h] # NoClient =>
        host[clients[h]] = h /\ state[clients[h]] # "destroyed"

ConnectorInv == ConnectorTypeOK /\ MapAgrees /\ OneClientPerHost

-------------------------------------------------------------------------------
\* The walk goes on to a host, or ends: a nonempty set of hosts has a first one.
LEMMA NextMissingType ==
  ASSUME NEW h \in Nat, NEW m
  PROVE  NextMissing(h, m) \in 0..NumHosts
<1> DEFINE missing == {i \in h..NumHosts : m[i] = NoClient}
<1>1. NumHosts \in Nat
  BY ConnectorAssumption
<1>2. missing \subseteq Nat /\ missing \subseteq 0..NumHosts
  BY <1>1
<1>3. CASE missing = {}
  BY <1>1, <1>3 DEF NextMissing
<1>4. CASE missing # {}
  <2> DEFINE Less == OpToRel(<, Nat)
  <2>0. PICK x \in missing : \A y \in missing : <<y, x>> \notin Less
    <3> HIDE DEF missing, Less
    <3>1. IsWellFoundedOn(Less, Nat)
      BY NatLessThanWellFounded DEF Less
    <3> QED BY <1>2, <1>4, <3>1, WFMin
  <2>1. \A y \in missing : x <= y
    <3> SUFFICES ASSUME NEW y \in missing PROVE x <= y
      OBVIOUS
    <3>1. <<y, x>> \notin {z \in Nat \X Nat : z[1] < z[2]}
      BY <2>0 DEF OpToRel
    <3> HIDE DEF missing
    <3> QED BY <1>2, <3>1
  <2>2. Min(missing) \in missing
    BY <2>1 DEF Min
  <2> QED BY <1>2, <1>4, <2>2 DEF NextMissing
<1> QED BY <1>3, <1>4

\* The hosts are numbered from 1.
LEMMA HostsType == Hosts \subseteq Nat /\ Hosts \subseteq 0..NumHosts /\ 1 \in Hosts
  BY ConnectorAssumption DEF Hosts

\* No client exists at first.
LEMMA InitConnectorInv == ConnectorInit => ConnectorInv
<1> SUFFICES ASSUME ConnectorInit PROVE ConnectorInv
  OBVIOUS
<1>1. ConnectorTypeOK
  <2>1. 0 \in 0..NumHosts
    BY ConnectorAssumption
  <2> QED BY <2>1, HostsType DEF ConnectorInit, ConnectorTypeOK
<1>2. MapAgrees
  BY DEF ConnectorInit, MapAgrees
<1>3. OneClientPerHost
  BY DEF ConnectorInit, OneClientPerHost, Open
<1> QED BY <1>1, <1>2, <1>3 DEF ConnectorInv

\* Killing the old client of a host leaves none of its clients open.
LEMMA KillOldCloses ==
  ASSUME ConnectorInv, NEW h \in Hosts
  PROVE  /\ KillOld(h) \in [Objects -> {"destroyed", "hello", "authenticated", "down"}]
         /\ \A c \in Objects :
                KillOld(h)[c] \in {"hello", "authenticated"} => Open(c) /\ clients[h] # c
         /\ \A c \in Objects : KillOld(h)[c] = "destroyed" <=> state[c] = "destroyed"
<1>1. CASE clients[h] = NoClient
  <2>1. \A c \in Objects : clients[h] # c
    BY <1>1, ConnectorAssumption
  <2> QED BY <1>1, <2>1 DEF ConnectorInv, ConnectorTypeOK, KillOld, Open
<1>2. CASE clients[h] # NoClient
  <2> DEFINE old == clients[h]
  <2>1. old \in Objects /\ state[old] # "destroyed"
    BY <1>2 DEF ConnectorInv, ConnectorTypeOK, MapAgrees
  <2>2. Downed(old) = "down"
    BY <2>1 DEF ConnectorInv, ConnectorTypeOK, Downed, Open
  <2>3. KillOld(h) = [state EXCEPT ![old] = "down"]
    BY <1>2, <2>2 DEF KillOld
  <2> HIDE DEF old
  <2>4. \A c \in Objects : KillOld(h)[c] = IF c = old THEN "down" ELSE state[c]
    BY <2>1, <2>3 DEF ConnectorInv, ConnectorTypeOK
  <2>5. KillOld(h) \in [Objects -> {"destroyed", "hello", "authenticated", "down"}]
    BY <2>1, <2>3 DEF ConnectorInv, ConnectorTypeOK
  <2> QED BY <2>1, <2>4, <2>5 DEF Open, old
<1> QED BY <1>1, <1>2

-------------------------------------------------------------------------------
\* The new client takes the place of the old one, which is killed.
LEMMA LookUpSucceedsStep ==
  ASSUME ConnectorInv, NEW r \in Runs, LookUpSucceeds(r)
  PROVE  ConnectorInv'
<1> DEFINE h == waiting[r]
<1>1. h \in Hosts
  BY DEF ConnectorInv, ConnectorTypeOK, LookUpSucceeds
<1>2. PICK c \in Objects :
        /\ state[c] = "destroyed"
        /\ state' = [KillOld(h) EXCEPT ![c] = "hello"]
        /\ host' = [host EXCEPT ![c] = h]
        /\ clients' = [clients EXCEPT ![h] = c]
        /\ waiting' = [waiting EXCEPT ![r] = NextMissing(h + 1, clients')]
        /\ UNCHANGED <<users, resolvable>>
  BY DEF LookUpSucceeds
<1> HIDE DEF h
<1>3. NextMissing(h + 1, clients') \in 0..NumHosts
  BY <1>1, HostsType, NextMissingType
<1>4. ConnectorTypeOK'
  BY <1>1, <1>2, <1>3, KillOldCloses DEF ConnectorInv, ConnectorTypeOK
<1>5. c # NoClient
  BY ConnectorAssumption
<1>6. MapAgrees'
  BY <1>1, <1>2, <1>5, KillOldCloses DEF ConnectorInv, ConnectorTypeOK, MapAgrees
<1>7. OneClientPerHost'
  <2> SUFFICES ASSUME NEW d \in Objects, Open(d)' PROVE clients'[host'[d]] = d
    BY DEF OneClientPerHost
  <2>1. CASE d = c
    BY <1>1, <1>2, <2>1 DEF ConnectorInv, ConnectorTypeOK
  <2>2. CASE d # c
    <3>1. KillOld(h)[d] \in {"hello", "authenticated"} /\ host'[d] = host[d]
      BY <1>1, <1>2, <2>2, KillOldCloses DEF ConnectorInv, ConnectorTypeOK, Open
    <3>2. clients[host[d]] = d /\ clients[h] # d
      BY <1>1, <3>1, KillOldCloses DEF ConnectorInv, OneClientPerHost
    <3> QED BY <1>1, <1>2, <3>1, <3>2 DEF ConnectorInv, ConnectorTypeOK
  <2> QED BY <2>1, <2>2
<1> QED BY <1>4, <1>6, <1>7 DEF ConnectorInv

\* The steps that only change the state of one client, and never reopen it.
LEMMA StateStep ==
  ASSUME ConnectorInv, NEW c \in Objects, NEW s,
         state' = [state EXCEPT ![c] = s],
         s \in {"hello", "authenticated", "down"}, state[c] # "destroyed",
         s # "down" => Open(c),
         UNCHANGED <<clients, host, users, waiting, resolvable>>
  PROVE  ConnectorInv'
<1>1. ConnectorTypeOK'
  BY DEF ConnectorInv, ConnectorTypeOK
<1>2. MapAgrees'
  BY DEF ConnectorInv, ConnectorTypeOK, MapAgrees
<1>3. \A d \in Objects : Open(d)' => Open(d)
  BY DEF ConnectorInv, ConnectorTypeOK, Open
<1>4. OneClientPerHost'
  BY <1>3 DEF ConnectorInv, OneClientPerHost
<1> QED BY <1>1, <1>2, <1>4 DEF ConnectorInv

\* clear() shuts down all clients the map finds, and those were all that were open.
LEMMA ClearStep ==
  ASSUME ConnectorInv, Clear
  PROVE  ConnectorInv'
<1>1. \A d \in Objects : ~Open(d)'
  BY DEF ConnectorInv, ConnectorTypeOK, OneClientPerHost, Clear, Downed, Open
<1>2. ConnectorTypeOK'
  BY DEF ConnectorInv, ConnectorTypeOK, Clear, Downed
<1>3. MapAgrees' /\ OneClientPerHost'
  BY <1>1 DEF MapAgrees, OneClientPerHost, Clear
<1> QED BY <1>2, <1>3 DEF ConnectorInv

\* A client that is destroyed was not open, and leaves the map.
LEMMA DestroyStep ==
  ASSUME ConnectorInv, NEW c \in Objects, DestroyObject(c)
  PROVE  ConnectorInv'
<1>1. ConnectorTypeOK'
  BY DEF ConnectorInv, ConnectorTypeOK, DestroyObject
<1>2. MapAgrees'
  BY ConnectorAssumption DEF ConnectorInv, ConnectorTypeOK, MapAgrees, DestroyObject
<1>3. OneClientPerHost'
  BY DEF ConnectorInv, ConnectorTypeOK, OneClientPerHost, DestroyObject, Open
<1> QED BY <1>1, <1>2, <1>3 DEF ConnectorInv

-------------------------------------------------------------------------------
\* Every step of the timer, of the users and of the connections keeps the map
\* and the clients in agreement.
THEOREM ConnectorInvariance == ConnectorSpec => []ConnectorInv
<1>1. ConnectorInv /\ [ConnectorNext]_connectorVars => ConnectorInv'
  <2> SUFFICES ASSUME ConnectorInv, [ConnectorNext]_connectorVars PROVE ConnectorInv'
    OBVIOUS
  <2>1. ASSUME NEW r \in Runs, Fire(r) PROVE ConnectorInv'
    <3>1. NextMissing(1, clients) \in 0..NumHosts
      BY NextMissingType
    <3>2. ConnectorTypeOK'
      BY <2>1, <3>1 DEF ConnectorInv, ConnectorTypeOK, Fire
    <3>3. MapAgrees' /\ OneClientPerHost'
      BY <2>1 DEF ConnectorInv, MapAgrees, OneClientPerHost, Open, Fire
    <3> QED BY <3>2, <3>3 DEF ConnectorInv
  <2>2. ASSUME NEW r \in Runs, LookUpSucceeds(r) PROVE ConnectorInv'
    BY <2>2, LookUpSucceedsStep
  <2>3. ASSUME NEW r \in Runs, LookUpFails(r) PROVE ConnectorInv'
    <3>1. 0 \in 0..NumHosts
      BY ConnectorAssumption
    <3>2. ConnectorTypeOK'
      BY <2>3, <3>1 DEF ConnectorInv, ConnectorTypeOK, LookUpFails
    <3>3. MapAgrees' /\ OneClientPerHost'
      BY <2>3 DEF ConnectorInv, MapAgrees, OneClientPerHost, Open, LookUpFails
    <3> QED BY <3>2, <3>3 DEF ConnectorInv
  <2>4. ASSUME NEW h \in Hosts, GetClient(h) PROVE ConnectorInv'
    BY <2>4 DEF ConnectorInv, ConnectorTypeOK, MapAgrees, OneClientPerHost, Open, GetClient
  <2>5. ASSUME NEW h \in Hosts, FailBroadcast(h) PROVE ConnectorInv'
    <3>1. /\ clients[h] \in Objects /\ state[clients[h]] # "destroyed"
          /\ Downed(clients[h]) = "down"
          /\ state' = [state EXCEPT ![clients[h]] = Downed(clients[h])]
          /\ UNCHANGED <<clients, host, users, waiting, resolvable>>
      BY <2>5 DEF ConnectorInv, ConnectorTypeOK, MapAgrees, FailBroadcast, Downed, Open
    <3> QED BY <3>1, StateStep
  <2>6. ASSUME NEW h \in Hosts, NameChanges(h) PROVE ConnectorInv'
    BY <2>6 DEF ConnectorInv, ConnectorTypeOK, MapAgrees, OneClientPerHost, Open, NameChanges
  <2>7. ASSUME NEW c \in Objects, Release(c) PROVE ConnectorInv'
    BY <2>7 DEF ConnectorInv, ConnectorTypeOK, MapAgrees, OneClientPerHost, Open, Release
  <2>8. ASSUME NEW c \in Objects, Authenticate(c) PROVE ConnectorInv'
    BY <2>8, StateStep DEF Authenticate, Open
  <2>9. ASSUME NEW c \in Objects, LoseConnection(c) PROVE ConnectorInv'
    BY <2>9, StateStep DEF LoseConnection, Open
  <2>10. ASSUME NEW c \in Objects, DestroyObject(c) PROVE ConnectorInv'
    BY <2>10, DestroyStep
  <2>11. CASE Clear
    BY <2>11, ClearStep
  <2>12. CASE UNCHANGED connectorVars
    BY <2>12 DEF connectorVars, ConnectorInv, ConnectorTypeOK, MapAgrees, OneClientPerHost, Open
  <2> QED
    BY <2>1, <2>2, <2>3, <2>4, <2>5, <2>6, <2>7, <2>8, <2>9, <2>10, <2>11, <2>12 DEF ConnectorNext
<1> QED BY InitConnectorInv, <1>1, PTL DEF ConnectorSpec

\* Every variable of a connector keeps its type, for any hosts, objects and runs.
THEOREM ConnectorTypes == ConnectorSpec => []ConnectorTypeOK
<1>1. ConnectorInv => ConnectorTypeOK
  BY DEF ConnectorInv
<1> QED BY <1>1, ConnectorInvariance, PTL

(***************************************************************************)
(* The client that a run of the timer makes after its look-up of the name  *)
(* is the only one of its host that is open, and the one get_client() and  *)
(* get_all_clients() find, whatever other runs did during the look-up.     *)
(***************************************************************************)
THEOREM HostsAreConnectedOnce == ConnectorSpec => []OneClientPerHost
<1>1. ConnectorInv => OneClientPerHost
  BY DEF ConnectorInv
<1> QED BY <1>1, ConnectorInvariance, PTL

===============================================================================
