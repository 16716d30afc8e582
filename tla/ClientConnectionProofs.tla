-------------------------- MODULE ClientConnectionProofs --------------------------
(***************************************************************************)
(* However many requests and messages a client sends, and whenever it, the *)
(* box or a connection between the servers goes: a request is forwarded    *)
(* under its own URI and a token of its own, and no message is accepted of *)
(* a client that has not been authenticated.  Types come last, as they     *)
(* rest on the order of the jobs.                                          *)
(***************************************************************************)
EXTENDS ClientConnection, SequenceTheorems, TLAPS

\* The job x is the rest of the request k.
IsFor(x, k) == x.type \in {"request", "handshake"} /\ x.req = k

\* What the primary thread performs next is the rest of the request k, or will be
\* as soon as it has been read.
NextIs(k) == IF jobs = <<>> THEN reading /\ Last = k ELSE IsFor(jobs[1], k)

IsMessage(i)   == jobs[i].type = "message"
IsHandshake(i) == jobs[i].type = "handshake"

OnlyMessages == \A i \in DOMAIN jobs : IsMessage(i)

\* The types that the argument rests on.
TypeInv ==
    /\ conn \in {"open", "down"}
    /\ ws \in {"none", "alive", "destroyed"}
    /\ requests \in Seq([kind: Kinds, expect: BOOLEAN])
    /\ jobs \in Seq(Jobs)
    /\ job \in [type: {"expect", "request", "handshake"}, req: RequestIds, at: {"auth", "box"}]
               \cup {NoJob}

\* A connection turns into a WebSocket once, and for good.
StageInv ==
    /\ reading => Last # 0
    /\ ws = "none" => \A i \in DOMAIN jobs : ~IsHandshake(i) /\ ~IsMessage(i)
    /\ ws # "none" => ~reading
    /\ ws = "destroyed" => conn = "down"
    /\ wait # "none" => job.type = "handshake" /\ job.at = "box"
    /\ job.type = "handshake" => ws # "none" /\ OnlyMessages

\* A welcome that is asked for is followed by the rest of the request; a handshake
\* is followed by messages.
QueueInv ==
    \A i \in DOMAIN jobs :
        /\ jobs[i].type = "expect" =>
                IF i = Len(jobs) THEN reading /\ jobs[i].req = Last
                ELSE IsFor(jobs[i + 1], jobs[i].req)
        /\ IsHandshake(i) => \A j \in DOMAIN jobs : i < j => IsMessage(j)

\* Between two jobs the session knows nothing of a client, or what it knows is
\* of the request that comes next, or no request comes any more.
CredentialsInv ==
    /\ job = NoJob =>
            \/ uri = 0 /\ token = 0
            \/ uri = token /\ uri # 0 /\ NextIs(uri)
            \/ ws # "none" /\ OnlyMessages
    /\ job.type = "expect" => uri = job.req /\ token = 0 /\ NextIs(job.req)
    /\ job.type = "request" /\ job.at = "auth" => uri = job.req /\ token = 0

\* Messages wait behind the handshake until the client is authenticated.
ProvenInv ==
    ~wsToken /\ job.type # "handshake" =>
        /\ ws = "alive" => \E i \in DOMAIN jobs : IsHandshake(i)
        /\ \A i \in DOMAIN jobs : IsMessage(i) => \E j \in DOMAIN jobs : j < i /\ IsHandshake(j)

OpenInv == conn = "open" => QueueInv /\ CredentialsInv /\ ProvenInv

RequestsBounded == Len(requests) <= MaxRequests

IInv == TypeInv /\ RequestsBounded /\ StageInv /\ OpenInv /\ OwnCredentials /\ NoMessageUnproven

-------------------------------------------------------------------------------
\* The kinds of jobs, by their types.
LEMMA JobsType ==
  /\ \A x \in Jobs : x.type \in {"expect", "request", "handshake", "message"}
  /\ \A x \in Jobs : x.type # "message" => x.req \in RequestIds
  /\ \A t \in {"expect", "request", "handshake"}, r \in RequestIds :
        [type |-> t, req |-> r] \in Jobs
  /\ [type |-> "message"] \in Jobs
BY DEF Jobs

\* The job being performed, by its type.
LEMMA JobType ==
  ASSUME TypeInv
  PROVE  /\ NoJob.type = "none"
         /\ job = NoJob <=> job.type = "none"
         /\ job # NoJob => /\ job.type \in {"expect", "request", "handshake"}
                           /\ job.req \in RequestIds /\ job.at \in {"auth", "box"}
BY DEF TypeInv, NoJob

\* The first job is taken.
LEMMA DropFacts ==
  ASSUME TypeInv, jobs # <<>>, Drop
  PROVE  /\ Len(jobs) \in Nat \ {0} /\ DOMAIN jobs = 1..Len(jobs)
         /\ Head(jobs) = jobs[1] /\ jobs[1] \in Jobs
         /\ jobs' \in Seq(Jobs) /\ DOMAIN jobs' = 1..(Len(jobs) - 1) /\ Len(jobs') = Len(jobs) - 1
         /\ \A i \in DOMAIN jobs' : i + 1 \in DOMAIN jobs /\ jobs'[i] = jobs[i + 1]
         /\ \A i \in DOMAIN jobs : i # 1 => i - 1 \in DOMAIN jobs' /\ jobs'[i - 1] = jobs[i]
<1>1. jobs \in Seq(Jobs)
  BY DEF TypeInv
<1>2. Len(jobs) \in Nat \ {0} /\ DOMAIN jobs = 1..Len(jobs)
  BY <1>1, EmptySeq, LenProperties
<1>3. Head(jobs) = jobs[1] /\ jobs[1] \in Jobs
  BY <1>1, <1>2, ElementOfSeq
<1>4. /\ jobs' \in Seq(Jobs) /\ Len(jobs') = Len(jobs) - 1
      /\ \A i \in 1..Len(jobs') : jobs'[i] = jobs[i + 1]
  BY <1>1, HeadTailProperties DEF Drop
<1>5. DOMAIN jobs' = 1..(Len(jobs) - 1)
  BY <1>4, LenProperties
<1> QED BY <1>2, <1>3, <1>4, <1>5

\* A job is queued.
LEMMA AppendFacts ==
  ASSUME TypeInv, NEW x \in Jobs, jobs' = Append(jobs, x)
  PROVE  /\ Len(jobs) \in Nat /\ DOMAIN jobs = 1..Len(jobs)
         /\ jobs' \in Seq(Jobs) /\ DOMAIN jobs' = 1..(Len(jobs) + 1) /\ Len(jobs') = Len(jobs) + 1
         /\ \A i \in DOMAIN jobs : i \in DOMAIN jobs' /\ jobs'[i] = jobs[i]
         /\ jobs'[Len(jobs) + 1] = x
         /\ \A i \in DOMAIN jobs' : i \in DOMAIN jobs \/ i = Len(jobs) + 1
<1>1. jobs \in Seq(Jobs)
  BY DEF TypeInv
<1>2. Len(jobs) \in Nat /\ DOMAIN jobs = 1..Len(jobs)
  BY <1>1, LenProperties
<1>3. /\ jobs' \in Seq(Jobs) /\ Len(jobs') = Len(jobs) + 1
      /\ \A i \in 1..Len(jobs) : jobs'[i] = jobs[i]
      /\ jobs'[Len(jobs) + 1] = x
  BY <1>1, AppendProperties
<1>4. DOMAIN jobs' = 1..(Len(jobs) + 1)
  BY <1>2, <1>3, LenProperties
<1> QED BY <1>2, <1>3, <1>4

-------------------------------------------------------------------------------
\* The job waits for the auth server, or the connection is shut down.
LEMMA AuthenticateFacts ==
  ASSUME TypeInv, NEW j, j.type \in {"expect", "request", "handshake"}, j.req \in RequestIds,
         Authenticate(j)
  PROVE  /\ conn' \in {conn, "down"}
         /\ job' \in [type: {"expect", "request", "handshake"}, req: RequestIds, at: {"auth", "box"}]
                     \cup {NoJob}
         /\ conn' = "open" => /\ job'.type = j.type /\ job'.req = j.req /\ job'.at = "auth"
                              /\ job' # NoJob
         /\ job' = NoJob \/ job'.type = j.type
BY DEF Authenticate, NoJob

\* The request is at the box, or the connection is shut down.
LEMMA SendToBoxFacts ==
  ASSUME TypeInv, NEW j, NEW u, NEW t, j.req \in RequestIds, SendToBox(j, u, t)
  PROVE  /\ conn' \in {conn, "down"}
         /\ job' \in [type: {"expect", "request", "handshake"}, req: RequestIds, at: {"auth", "box"}]
                     \cup {NoJob}
         /\ conn' = "open" => job'.type = "request" /\ job'.at = "box" /\ job' # NoJob
         /\ job' = NoJob \/ job'.type = "request"
         /\ OwnCredentials /\ u = j.req /\ t = j.req => OwnCredentials'
BY DEF SendToBox, NoJob, OwnCredentials

\* What a connection that has been shut down must still keep.
LEMMA DownStep ==
  ASSUME IInv, conn' = "down", TypeInv', RequestsBounded', StageInv', UNCHANGED <<forwarded, unproven>>
  PROVE  IInv'
BY DEF IInv, OpenInv, OwnCredentials, NoMessageUnproven

-------------------------------------------------------------------------------
\* The epoll thread

\* The headers of a request, while no job waits for the rest of another.
LEMMA ReadHeadersStep ==
  ASSUME IInv, NEW k \in Kinds, NEW e \in BOOLEAN, ReadHeaders(k, e)
  PROVE  IInv'
<1> USE DEF readVars, jobVars, httpVars, wsVars, boxVars, routeVars
<1>1. /\ conn = "open" /\ conn' = "open" /\ ws = "none" /\ ~reading /\ reading'
      /\ UNCHANGED <<job, uri, token, forwarded, ws, wsToken, unproven, wait>>
      /\ TypeInv /\ StageInv /\ QueueInv /\ CredentialsInv /\ ProvenInv
  BY DEF IInv, OpenInv, ReadHeaders
<1>2. /\ Last \in Nat /\ Last' = Last + 1 /\ Last' # 0 /\ Last' \in RequestIds /\ RequestsBounded'
      /\ requests' \in Seq([kind: Kinds, expect: BOOLEAN])
  <2>1. [kind |-> k, expect |-> e] \in [kind: Kinds, expect: BOOLEAN]
    OBVIOUS
  <2>2. requests \in Seq([kind: Kinds, expect: BOOLEAN])
    BY <1>1 DEF TypeInv
  <2>3. Len(requests) \in Nat /\ Len(requests') = Len(requests) + 1
        /\ requests' \in Seq([kind: Kinds, expect: BOOLEAN])
    BY <2>1, <2>2, LenProperties, AppendProperties DEF ReadHeaders
  <2> QED BY <2>3, BoundsAssumption DEF ReadHeaders, Last, RequestIds, RequestsBounded
<1>3. \A i \in DOMAIN jobs : jobs[i].type = "expect" =>
            i # Len(jobs) /\ IsFor(jobs[i + 1], jobs[i].req)
  BY <1>1 DEF QueueInv
<1>4. CASE UNCHANGED jobs
  <2>1. TypeInv' /\ StageInv'
    BY <1>1, <1>2, <1>4 DEF TypeInv, StageInv, IsHandshake, IsMessage, OnlyMessages
  <2>2. QueueInv'
    BY <1>1, <1>3, <1>4 DEF QueueInv, IsHandshake, IsMessage, IsFor
  <2>3. CredentialsInv'
    BY <1>1, <1>4 DEF CredentialsInv, NextIs, IsFor, OnlyMessages, IsMessage
  <2>4. ProvenInv'
    BY <1>1, <1>4 DEF ProvenInv, IsHandshake, IsMessage
  <2> QED BY <1>1, <1>2, <2>1, <2>2, <2>3, <2>4 DEF IInv, OpenInv, OwnCredentials, NoMessageUnproven
<1>5. CASE jobs' = Append(jobs, [type |-> "expect", req |-> Last + 1])
  <2> DEFINE x == [type |-> "expect", req |-> Last + 1]
  <2>1. x \in Jobs /\ x.type = "expect" /\ x.req = Last'
    BY <1>2, JobsType
  <2> HIDE DEF x
  <2>2. /\ Len(jobs) \in Nat /\ DOMAIN jobs = 1..Len(jobs)
        /\ jobs' \in Seq(Jobs) /\ DOMAIN jobs' = 1..(Len(jobs) + 1) /\ Len(jobs') = Len(jobs) + 1
        /\ \A i \in DOMAIN jobs : i \in DOMAIN jobs' /\ jobs'[i] = jobs[i]
        /\ jobs'[Len(jobs) + 1] = x
        /\ \A i \in DOMAIN jobs' : i \in DOMAIN jobs \/ i = Len(jobs) + 1
    BY <1>1, <1>5, <2>1, AppendFacts DEF x
  <2>3. TypeInv'
    BY <1>1, <1>2, <2>2 DEF TypeInv
  <2>4. StageInv'
    BY <1>1, <1>2, <2>1, <2>2 DEF StageInv, IsHandshake, IsMessage
  <2>5. QueueInv'
    <3> SUFFICES ASSUME NEW i \in DOMAIN jobs'
        PROVE  /\ jobs'[i].type = "expect" =>
                    IF i = Len(jobs') THEN reading' /\ jobs'[i].req = Last'
                    ELSE IsFor(jobs'[i + 1], jobs'[i].req)
               /\ jobs'[i].type # "handshake"
      BY DEF QueueInv, IsHandshake
    <3>1. CASE i = Len(jobs) + 1
      BY <1>1, <2>1, <2>2, <3>1
    <3>2. CASE i \in DOMAIN jobs
      <4>1. jobs'[i] = jobs[i] /\ i # Len(jobs')
        BY <2>2, <3>2
      <4>2. jobs[i].type = "expect" => i + 1 \in DOMAIN jobs
        BY <1>3, <2>2, <3>2
      <4>3. jobs[i].type # "handshake"
        BY <1>1, <3>2 DEF StageInv, IsHandshake
      <4> QED BY <1>3, <2>2, <3>2, <4>1, <4>2, <4>3
    <3> QED BY <2>2, <3>1, <3>2
  <2>6. CredentialsInv'
    <3>1. ASSUME NEW n, NextIs(n) PROVE NextIs(n)'
      <4>1. jobs # <<>> /\ 1 \in DOMAIN jobs /\ IsFor(jobs[1], n)
        <5>1. jobs # <<>> /\ IsFor(jobs[1], n)
          BY <1>1, <3>1 DEF NextIs
        <5>2. Len(jobs) # 0
          BY <1>1, <5>1, EmptySeq DEF TypeInv
        <5> QED BY <2>2, <5>1, <5>2
      <4>2. jobs' # <<>>
        BY <2>2, EmptySeq
      <4> QED BY <2>2, <4>1, <4>2 DEF NextIs, IsFor
    <3> QED BY <1>1, <3>1 DEF CredentialsInv
  <2>7. ProvenInv'
    BY <1>1, <2>1, <2>2 DEF ProvenInv, StageInv, IsHandshake, IsMessage
  <2> QED BY <1>1, <1>2, <2>3, <2>4, <2>5, <2>6, <2>7 DEF IInv, OpenInv, OwnCredentials, NoMessageUnproven
<1> QED BY <1>4, <1>5 DEF ReadHeaders

\* The end of a request: the rest of it is queued behind the welcome, if one was
\* asked for.
LEMMA ReadEndStep ==
  ASSUME IInv, ReadEnd
  PROVE  IInv'
<1> USE DEF readVars, jobVars, httpVars, wsVars, boxVars, routeVars
<1> DEFINE t == IF requests[Last].kind = "websocket" THEN "handshake" ELSE "request"
           x == [type |-> t, req |-> Last]
<1>1. /\ conn = "open" /\ conn' = "open" /\ reading /\ ~reading' /\ Last # 0 /\ ws = "none"
      /\ UNCHANGED <<requests, job, uri, token, forwarded, wsToken, unproven, wait>>
      /\ TypeInv /\ StageInv /\ QueueInv /\ CredentialsInv /\ ProvenInv
  BY DEF IInv, OpenInv, ReadEnd, StageInv, TypeInv
<1>2. Last \in RequestIds /\ Last' = Last
  <2>1. Len(requests) \in Nat
    BY <1>1, LenProperties DEF TypeInv
  <2>2. Len(requests) <= MaxRequests
    BY DEF IInv, RequestsBounded
  <2> QED BY <1>1, <2>1, <2>2, BoundsAssumption DEF Last, RequestIds
<1>3. /\ x \in Jobs /\ x.type = t /\ t \in {"request", "handshake"} /\ x.req = Last
  BY <1>2, JobsType
<1>4. /\ jobs' = Append(jobs, x)
      /\ ws' = IF t = "handshake" THEN "alive" ELSE ws
  BY DEF ReadEnd
<1> HIDE DEF t, x
<1>5. /\ Len(jobs) \in Nat /\ DOMAIN jobs = 1..Len(jobs)
      /\ jobs' \in Seq(Jobs) /\ DOMAIN jobs' = 1..(Len(jobs) + 1) /\ Len(jobs') = Len(jobs) + 1
      /\ \A i \in DOMAIN jobs : i \in DOMAIN jobs' /\ jobs'[i] = jobs[i]
      /\ jobs'[Len(jobs) + 1] = x
      /\ \A i \in DOMAIN jobs' : i \in DOMAIN jobs \/ i = Len(jobs) + 1
  BY <1>1, <1>3, <1>4, AppendFacts
<1>6. TypeInv'
  BY <1>1, <1>4, <1>5 DEF TypeInv
<1>7. \A i \in DOMAIN jobs : ~IsHandshake(i) /\ ~IsMessage(i)
  BY <1>1 DEF StageInv
<1>8. job.type # "handshake" /\ wait = "none"
  BY <1>1 DEF StageInv
<1>9. StageInv'
  <2>1. ws' = "none" => \A i \in DOMAIN jobs' : jobs'[i].type # "handshake" /\ jobs'[i].type # "message"
    BY <1>1, <1>3, <1>4, <1>5, <1>7 DEF IsHandshake, IsMessage
  <2>2. ws' # "destroyed"
    BY <1>1, <1>4
  <2> QED BY <1>1, <1>8, <2>1, <2>2 DEF StageInv, IsHandshake, IsMessage
<1>10. QueueInv'
  <2> SUFFICES ASSUME NEW i \in DOMAIN jobs'
      PROVE  /\ jobs'[i].type = "expect" => i # Len(jobs') /\ IsFor(jobs'[i + 1], jobs'[i].req)
             /\ jobs'[i].type = "handshake" => i = Len(jobs')
    BY <1>5 DEF QueueInv, IsHandshake
  <2>1. CASE i = Len(jobs) + 1
    BY <1>3, <1>5, <2>1
  <2>2. CASE i \in DOMAIN jobs
    <3>1. jobs'[i] = jobs[i] /\ i # Len(jobs') /\ jobs[i].type # "handshake"
      BY <1>5, <1>7, <2>2 DEF IsHandshake
    <3>2. CASE i = Len(jobs)
      BY <1>1, <1>3, <1>5, <2>2, <3>1, <3>2 DEF QueueInv, IsFor
    <3>3. CASE i # Len(jobs)
      <4>1. i + 1 \in DOMAIN jobs
        BY <1>5, <2>2, <3>3
      <4> QED BY <1>1, <1>5, <2>2, <3>1, <3>3, <4>1 DEF QueueInv, IsFor
    <3> QED BY <3>2, <3>3
  <2> QED BY <1>5, <2>1, <2>2
<1>11. CredentialsInv'
  <2>1. ASSUME NEW n, NextIs(n) PROVE NextIs(n)'
    <3>1. jobs' # <<>>
      BY <1>5, EmptySeq
    <3>2. CASE jobs = <<>>
      <4>1. Len(jobs) = 0
        BY <3>2
      <4>2. jobs'[1] = x /\ Last = n
        BY <1>5, <2>1, <3>2, <4>1 DEF NextIs
      <4> QED BY <1>3, <3>1, <4>2 DEF NextIs, IsFor
    <3>3. CASE jobs # <<>>
      <4>1. Len(jobs) # 0
        BY <1>1, <3>3, EmptySeq DEF TypeInv
      <4>2. 1 \in DOMAIN jobs /\ IsFor(jobs[1], n)
        BY <1>5, <2>1, <3>3, <4>1 DEF NextIs
      <4> QED BY <1>5, <3>1, <4>2 DEF NextIs, IsFor
    <3> QED BY <3>2, <3>3
  <2>2. ~(ws # "none" /\ OnlyMessages)
    BY <1>1
  <2> QED BY <1>1, <2>1, <2>2 DEF CredentialsInv
<1>12. ProvenInv'
  <2>1. \A i \in DOMAIN jobs' : jobs'[i].type # "message"
    BY <1>3, <1>5, <1>7 DEF IsMessage
  <2>2. ws' = "alive" => Len(jobs) + 1 \in DOMAIN jobs' /\ jobs'[Len(jobs) + 1].type = "handshake"
    BY <1>1, <1>3, <1>4, <1>5
  <2> QED BY <2>1, <2>2 DEF ProvenInv, IsHandshake, IsMessage
<1> QED BY <1>1, <1>2, <1>6, <1>9, <1>10, <1>11, <1>12
        DEF IInv, OpenInv, OwnCredentials, NoMessageUnproven, RequestsBounded

\* A message is queued behind the handshake, or after the client has been
\* authenticated.
LEMMA ReadMessageStep ==
  ASSUME IInv, ReadMessage
  PROVE  IInv'
<1> USE DEF readVars, jobVars, httpVars, wsVars, boxVars, routeVars
<1> DEFINE x == [type |-> "message"]
<1>1. /\ conn = "open" /\ ws = "alive" /\ ~reading /\ Last' = Last
      /\ UNCHANGED <<requests, reading, job, uri, token, forwarded, ws, wsToken, unproven, wait>>
      /\ TypeInv /\ StageInv /\ QueueInv /\ CredentialsInv /\ ProvenInv
      /\ RequestsBounded'
  BY DEF IInv, OpenInv, ReadMessage, StageInv, RequestsBounded, Last
<1>2. CASE jobs' = jobs /\ conn' = "down"
  <2>1. TypeInv' /\ StageInv'
    BY <1>1, <1>2 DEF TypeInv, StageInv, OnlyMessages, IsHandshake, IsMessage
  <2> QED BY <1>1, <1>2, <2>1, DownStep
<1>3. CASE jobs' = Append(jobs, x) /\ conn' = conn
  <2>1. x \in Jobs /\ x.type = "message"
    BY JobsType
  <2> HIDE DEF x
  <2>2. /\ Len(jobs) \in Nat /\ DOMAIN jobs = 1..Len(jobs)
        /\ jobs' \in Seq(Jobs) /\ DOMAIN jobs' = 1..(Len(jobs) + 1) /\ Len(jobs') = Len(jobs) + 1
        /\ \A i \in DOMAIN jobs : i \in DOMAIN jobs' /\ jobs'[i] = jobs[i]
        /\ jobs'[Len(jobs) + 1] = x
        /\ \A i \in DOMAIN jobs' : i \in DOMAIN jobs \/ i = Len(jobs) + 1
    BY <1>1, <1>3, <2>1, AppendFacts
  <2>3. TypeInv'
    BY <1>1, <1>3, <2>2 DEF TypeInv
  <2>4. OnlyMessages => OnlyMessages'
    BY <2>1, <2>2 DEF OnlyMessages, IsMessage
  <2>5. StageInv'
    BY <1>1, <2>4 DEF StageInv
  <2>6. QueueInv'
    <3> SUFFICES ASSUME NEW i \in DOMAIN jobs'
        PROVE  /\ jobs'[i].type = "expect" => i # Len(jobs') /\ IsFor(jobs'[i + 1], jobs'[i].req)
               /\ jobs'[i].type = "handshake" =>
                    \A j \in DOMAIN jobs' : i < j => jobs'[j].type = "message"
      BY <2>2 DEF QueueInv, IsHandshake, IsMessage
    <3>1. CASE i = Len(jobs) + 1
      BY <2>1, <2>2, <3>1
    <3>2. CASE i \in DOMAIN jobs
      <4>1. jobs'[i] = jobs[i] /\ i # Len(jobs')
        BY <2>2, <3>2
      <4>2. jobs[i].type = "expect" => i # Len(jobs) /\ IsFor(jobs[i + 1], jobs[i].req)
        BY <1>1, <3>2 DEF QueueInv
      <4>3. jobs[i].type = "expect" => i + 1 \in DOMAIN jobs
        BY <2>2, <3>2, <4>2
      <4>4. jobs[i].type = "handshake" => \A j \in DOMAIN jobs : i < j => jobs[j].type = "message"
        BY <1>1, <3>2 DEF QueueInv, IsHandshake, IsMessage
      <4> QED BY <2>1, <2>2, <4>1, <4>2, <4>3, <4>4
    <3> QED BY <2>2, <3>1, <3>2
  <2>7. CredentialsInv'
    <3>1. ASSUME NEW n, NextIs(n) PROVE NextIs(n)'
      <4>1. jobs # <<>> /\ IsFor(jobs[1], n)
        BY <1>1, <3>1 DEF NextIs
      <4>2. Len(jobs) # 0
        BY <1>1, <4>1, EmptySeq DEF TypeInv
      <4>3. jobs' # <<>>
        BY <2>2, EmptySeq
      <4> QED BY <2>2, <4>1, <4>2, <4>3 DEF NextIs, IsFor
    <3> QED BY <1>1, <2>4, <3>1 DEF CredentialsInv
  <2>8. ProvenInv'
    BY <1>1, <2>1, <2>2 DEF ProvenInv, IsHandshake, IsMessage
  <2> QED BY <1>1, <1>3, <2>3, <2>5, <2>6, <2>7, <2>8
          DEF IInv, OpenInv, OwnCredentials, NoMessageUnproven
<1> QED BY <1>2, <1>3 DEF ReadMessage

\* The connection is shut down by the epoll thread, or its jobs are dropped.
LEMMA ShutdownStep ==
  ASSUME IInv, RefuseAtEnd \/ HangUp \/ DropJob
  PROVE  IInv'
<1> USE DEF readVars, jobVars, httpVars, wsVars, boxVars, routeVars
<1>1. /\ conn' = "down"
      /\ UNCHANGED <<requests, job, uri, token, forwarded, ws, wsToken, unproven, wait>>
      /\ TypeInv /\ StageInv /\ RequestsBounded'
  BY DEF IInv, TypeInv, RefuseAtEnd, HangUp, DropJob, RequestsBounded
<1>2. CASE RefuseAtEnd \/ HangUp
  <2>1. UNCHANGED jobs
    BY <1>2 DEF RefuseAtEnd, HangUp
  <2>2. reading' = FALSE \/ UNCHANGED reading
    BY <1>2 DEF RefuseAtEnd, HangUp
  <2>3. TypeInv' /\ StageInv'
    BY <1>1, <2>1, <2>2 DEF TypeInv, StageInv, OnlyMessages, IsHandshake, IsMessage, Last
  <2> QED BY <1>1, <2>3, DownStep
<1>3. CASE DropJob
  <2>1. jobs # <<>> /\ Drop /\ UNCHANGED reading
    BY <1>3 DEF DropJob, Takes
  <2>2. /\ jobs' \in Seq(Jobs)
        /\ \A i \in DOMAIN jobs' : i + 1 \in DOMAIN jobs /\ jobs'[i] = jobs[i + 1]
    BY <1>1, <2>1, DropFacts
  <2>3. TypeInv' /\ StageInv'
    BY <1>1, <2>1, <2>2 DEF TypeInv, StageInv, OnlyMessages, IsHandshake, IsMessage, Last
  <2> QED BY <1>1, <2>3, DownStep
<1> QED BY <1>2, <1>3

-------------------------------------------------------------------------------
\* The primary thread takes a job

\* What holds of the jobs that are left when the first one has been taken.
LEMMA TakeFacts ==
  ASSUME IInv, conn = "open", job = NoJob, jobs # <<>>, Drop, UNCHANGED <<requests, reading, ws>>
  PROVE  /\ TypeInv /\ StageInv /\ ProvenInv /\ Last' = Last /\ RequestsBounded'
         /\ Head(jobs) = jobs[1] /\ jobs[1] \in Jobs /\ 1 \in DOMAIN jobs
         /\ jobs' \in Seq(Jobs)
         /\ QueueInv'
         /\ \A i \in DOMAIN jobs' : i + 1 \in DOMAIN jobs /\ jobs'[i] = jobs[i + 1] /\ i \in Nat
         /\ \A i \in DOMAIN jobs : i = 1 \/ (i - 1 \in DOMAIN jobs' /\ jobs'[i - 1] = jobs[i] /\ i \in Nat)
         /\ \A n : jobs[1].type = "expect" /\ jobs[1].req = n => NextIs(n)'
         /\ jobs[1].type = "handshake" => OnlyMessages'
         /\ OnlyMessages => OnlyMessages'
         /\ \/ uri = 0 /\ token = 0
            \/ uri = token /\ uri # 0 /\ IsFor(jobs[1], uri)
            \/ ws # "none" /\ OnlyMessages
<1>1. TypeInv /\ StageInv /\ QueueInv /\ CredentialsInv /\ ProvenInv /\ RequestsBounded'
      /\ Last' = Last
  BY DEF IInv, OpenInv, RequestsBounded, Last
<1>2. /\ Len(jobs) \in Nat \ {0} /\ DOMAIN jobs = 1..Len(jobs)
      /\ Head(jobs) = jobs[1] /\ jobs[1] \in Jobs
      /\ jobs' \in Seq(Jobs) /\ DOMAIN jobs' = 1..(Len(jobs) - 1) /\ Len(jobs') = Len(jobs) - 1
      /\ \A i \in DOMAIN jobs' : i + 1 \in DOMAIN jobs /\ jobs'[i] = jobs[i + 1]
      /\ \A i \in DOMAIN jobs : i # 1 => i - 1 \in DOMAIN jobs' /\ jobs'[i - 1] = jobs[i]
  BY <1>1, DropFacts
<1>3. QueueInv'
  <2> SUFFICES ASSUME NEW i \in DOMAIN jobs'
      PROVE  /\ jobs'[i].type = "expect" =>
                    IF i = Len(jobs') THEN reading' /\ jobs'[i].req = Last'
                    ELSE IsFor(jobs'[i + 1], jobs'[i].req)
             /\ jobs'[i].type = "handshake" =>
                    \A j \in DOMAIN jobs' : i < j => jobs'[j].type = "message"
    BY DEF QueueInv, IsHandshake, IsMessage
  <2>1. i + 1 \in DOMAIN jobs /\ jobs'[i] = jobs[i + 1] /\ i \in Nat
    BY <1>2
  <2>2. i # Len(jobs') => jobs'[i + 1] = jobs[(i + 1) + 1] /\ i + 1 # Len(jobs)
    BY <1>2
  <2>3. jobs[i + 1].type = "expect" =>
            IF i + 1 = Len(jobs) THEN reading /\ jobs[i + 1].req = Last
            ELSE IsFor(jobs[(i + 1) + 1], jobs[i + 1].req)
    BY <1>1, <2>1 DEF QueueInv
  <2>4. jobs[i + 1].type = "handshake" =>
            \A j \in DOMAIN jobs : i + 1 < j => jobs[j].type = "message"
    BY <1>1, <2>1 DEF QueueInv, IsHandshake, IsMessage
  <2>5. \A j \in DOMAIN jobs' : i < j => j + 1 \in DOMAIN jobs /\ i + 1 < j + 1 /\ jobs'[j] = jobs[j + 1]
    BY <1>2, <2>1
  <2>6. i = Len(jobs') => i + 1 = Len(jobs)
    BY <1>2
  <2> QED BY <1>1, <2>1, <2>2, <2>3, <2>4, <2>5, <2>6
<1>4. ASSUME NEW n, jobs[1].type = "expect", jobs[1].req = n PROVE NextIs(n)'
  <2>1. 1 \in DOMAIN jobs
    BY <1>2
  <2>2. IF 1 = Len(jobs) THEN reading /\ n = Last ELSE IsFor(jobs[2], n)
    <3>1. IF 1 = Len(jobs) THEN reading /\ jobs[1].req = Last ELSE IsFor(jobs[1 + 1], jobs[1].req)
      BY <1>1, <1>4, <2>1 DEF QueueInv
    <3>2. 1 + 1 = 2
      OBVIOUS
    <3> QED BY <1>4, <3>1, <3>2
  <2>3. CASE jobs' = <<>>
    <3>1. Len(jobs') = 0
      BY <2>3
    <3>2. Len(jobs) = 1
      BY <1>2, <3>1
    <3>3. n = Last /\ reading
      BY <2>2, <3>2
    <3> QED BY <1>1, <2>3, <3>3 DEF NextIs
  <2>4. CASE jobs' # <<>>
    <3>1. Len(jobs') # 0
      BY <1>2, <2>4, EmptySeq
    <3>2. jobs'[1] = jobs[2] /\ 1 # Len(jobs)
      BY <1>2, <3>1
    <3> QED BY <2>2, <2>4, <3>2 DEF NextIs, IsFor
  <2> QED BY <2>3, <2>4
<1>5. jobs[1].type = "handshake" => OnlyMessages'
  <2> SUFFICES ASSUME jobs[1].type = "handshake", NEW i \in DOMAIN jobs' PROVE jobs'[i].type = "message"
    BY DEF OnlyMessages, IsMessage
  <2>1. 1 \in DOMAIN jobs /\ i + 1 \in DOMAIN jobs /\ 1 < i + 1 /\ jobs'[i] = jobs[i + 1]
    BY <1>2
  <2> QED BY <1>1, <2>1 DEF QueueInv, IsHandshake, IsMessage
<1>6. OnlyMessages => OnlyMessages'
  BY <1>2 DEF OnlyMessages, IsMessage
<1>7. \/ uri = 0 /\ token = 0
      \/ uri = token /\ uri # 0 /\ IsFor(jobs[1], uri)
      \/ ws # "none" /\ OnlyMessages
  BY <1>1 DEF CredentialsInv, NextIs
<1> QED BY <1>1, <1>2, <1>3, <1>4, <1>5, <1>6, <1>7

\* What still holds when the job that was taken was no handshake, and another one
\* or none is performed: the WebSocket is in the same stage.
LEMMA TakenStage ==
  ASSUME IInv, conn = "open", job = NoJob, jobs # <<>>, Drop, UNCHANGED <<requests, reading, ws, wsToken, wait>>,
         job'.type # "handshake", jobs[1].type # "handshake"
  PROVE  StageInv' /\ ProvenInv'
<1>1. /\ StageInv /\ ProvenInv /\ Last' = Last
      /\ \A i \in DOMAIN jobs' : i + 1 \in DOMAIN jobs /\ jobs'[i] = jobs[i + 1] /\ i \in Nat
      /\ \A i \in DOMAIN jobs : i = 1 \/ (i - 1 \in DOMAIN jobs' /\ jobs'[i - 1] = jobs[i] /\ i \in Nat)
  BY TakeFacts
<1>2. job.type # "handshake"
  BY DEF NoJob
<1>3. StageInv'
  BY <1>1, <1>2 DEF StageInv, IsHandshake, IsMessage
<1>4. ProvenInv'
  <2> SUFFICES ASSUME ~wsToken
      PROVE  /\ ws = "alive" => \E i \in DOMAIN jobs' : jobs'[i].type = "handshake"
             /\ \A i \in DOMAIN jobs' : jobs'[i].type = "message" =>
                    \E j \in DOMAIN jobs' : j < i /\ jobs'[j].type = "handshake"
    BY DEF ProvenInv, IsHandshake, IsMessage
  <2>1. ws = "alive" => \E i \in DOMAIN jobs' : jobs'[i].type = "handshake"
    <3> SUFFICES ASSUME ws = "alive" PROVE \E i \in DOMAIN jobs' : jobs'[i].type = "handshake"
      OBVIOUS
    <3>1. PICK i \in DOMAIN jobs : jobs[i].type = "handshake"
      BY <1>1, <1>2 DEF ProvenInv, IsHandshake
    <3>2. i - 1 \in DOMAIN jobs' /\ jobs'[i - 1] = jobs[i]
      BY <1>1, <3>1
    <3> QED BY <3>1, <3>2
  <2>2. ASSUME NEW i \in DOMAIN jobs', jobs'[i].type = "message"
        PROVE  \E j \in DOMAIN jobs' : j < i /\ jobs'[j].type = "handshake"
    <3>1. i + 1 \in DOMAIN jobs /\ jobs[i + 1].type = "message" /\ i \in Nat
      BY <1>1, <2>2
    <3>2. PICK j \in DOMAIN jobs : j < i + 1 /\ jobs[j].type = "handshake"
      BY <1>1, <1>2, <3>1 DEF ProvenInv, IsHandshake, IsMessage
    <3>3. j - 1 \in DOMAIN jobs' /\ jobs'[j - 1] = jobs[j] /\ j - 1 < i
      BY <1>1, <3>1, <3>2
    <3> QED BY <3>2, <3>3
  <2> QED BY <2>1, <2>2
<1> QED BY <1>3, <1>4

\* A job is dropped from a connection that stays open, or is shut down.
LEMMA TakenDown ==
  ASSUME IInv, job = NoJob, jobs # <<>>, Drop, conn' = "down",
         UNCHANGED <<requests, reading, ws, wait, forwarded, unproven>>,
         job' = NoJob
  PROVE  IInv'
<1>1. TypeInv /\ StageInv /\ RequestsBounded' /\ Last' = Last
  BY DEF IInv, RequestsBounded, Last
<1>2. /\ jobs' \in Seq(Jobs)
      /\ \A i \in DOMAIN jobs' : i + 1 \in DOMAIN jobs /\ jobs'[i] = jobs[i + 1]
  BY <1>1, DropFacts
<1>3. NoJob.type # "handshake"
  BY DEF NoJob
<1>4. TypeInv' /\ StageInv'
  BY <1>1, <1>2, <1>3 DEF TypeInv, StageInv, IsHandshake, IsMessage
<1> QED BY <1>1, <1>4, DownStep

\* on_sync_expect() decodes the URI of the request that will come next.
LEMMA PerformExpectStep ==
  ASSUME IInv, PerformExpect
  PROVE  IInv'
<1> USE DEF readVars, jobVars, httpVars, wsVars, boxVars, routeVars
<1> DEFINE j == Head(jobs)
<1>1. /\ job = NoJob /\ jobs # <<>> /\ Head(jobs).type = "expect" /\ conn = "open" /\ Drop
      /\ UNCHANGED <<requests, reading, token, forwarded, ws, wsToken, unproven, wait>>
  BY DEF PerformExpect, Takes
<1>2. /\ TypeInv /\ StageInv /\ ProvenInv /\ RequestsBounded' /\ QueueInv' /\ jobs' \in Seq(Jobs)
      /\ j = jobs[1] /\ j \in Jobs /\ j.type = "expect" /\ jobs[1].type # "handshake"
      /\ \A n : j.req = n => NextIs(n)'
      /\ OnlyMessages => OnlyMessages'
      /\ \/ uri = 0 /\ token = 0
         \/ uri = token /\ uri # 0 /\ IsFor(jobs[1], uri)
         \/ ws # "none" /\ OnlyMessages
      /\ 1 \in DOMAIN jobs
  BY <1>1, TakeFacts
<1>3. j.req \in RequestIds
  BY <1>2, JobsType
<1>4. uri = 0 /\ token = 0
  BY <1>2 DEF IsFor, OnlyMessages, IsMessage
<1>5. NoJob.type = "none"
  BY DEF NoJob
<1>6. CASE UNCHANGED <<conn, job, uri>>
  <2>1. StageInv' /\ ProvenInv'
    BY <1>1, <1>2, <1>5, <1>6, TakenStage
  <2>2. TypeInv'
    BY <1>1, <1>2, <1>6 DEF TypeInv
  <2>3. CredentialsInv'
    BY <1>1, <1>4, <1>5, <1>6 DEF CredentialsInv
  <2> QED BY <1>1, <1>2, <2>1, <2>2, <2>3 DEF IInv, OpenInv, OwnCredentials, NoMessageUnproven
<1>7. CASE conn' = "down" /\ UNCHANGED <<job, uri>>
  BY <1>1, <1>7, TakenDown
<1>8. CASE uri' = j.req /\ Authenticate(j)
  <2>1. /\ conn' \in {conn, "down"}
        /\ job' \in [type: {"expect", "request", "handshake"}, req: RequestIds, at: {"auth", "box"}]
                    \cup {NoJob}
        /\ conn' = "open" => job'.type = j.type /\ job'.req = j.req /\ job'.at = "auth" /\ job' # NoJob
        /\ job' = NoJob \/ job'.type = j.type
    BY <1>2, <1>3, <1>8, AuthenticateFacts
  <2>2. StageInv' /\ ProvenInv'
    BY <1>1, <1>2, <1>5, <2>1, TakenStage
  <2>3. TypeInv'
    BY <1>1, <1>2, <2>1 DEF TypeInv
  <2>4. conn' = "open" => CredentialsInv'
    BY <1>1, <1>2, <1>4, <1>8, <2>1 DEF CredentialsInv
  <2> QED BY <1>1, <1>2, <2>2, <2>3, <2>4 DEF IInv, OpenInv, OwnCredentials, NoMessageUnproven
<1> QED BY <1>6, <1>7, <1>8 DEF PerformExpect

\* on_sync_request() goes on with what an Expect has found out, or starts anew.
LEMMA PerformRequestStep ==
  ASSUME IInv, PerformRequest
  PROVE  IInv'
<1> USE DEF readVars, jobVars, httpVars, wsVars, boxVars, routeVars
<1> DEFINE j == Head(jobs)
<1>1. /\ job = NoJob /\ jobs # <<>> /\ Head(jobs).type = "request" /\ conn = "open" /\ Drop
      /\ UNCHANGED <<requests, reading, ws, wsToken, unproven, wait>>
  BY DEF PerformRequest, Takes
<1>2. /\ TypeInv /\ StageInv /\ ProvenInv /\ RequestsBounded' /\ QueueInv' /\ jobs' \in Seq(Jobs)
      /\ j = jobs[1] /\ j \in Jobs /\ j.type = "request" /\ jobs[1].type # "handshake"
      /\ OnlyMessages => OnlyMessages'
      /\ \/ uri = 0 /\ token = 0
         \/ uri = token /\ uri # 0 /\ IsFor(jobs[1], uri)
         \/ ws # "none" /\ OnlyMessages
      /\ 1 \in DOMAIN jobs
  BY <1>1, TakeFacts
<1>3. j.req \in RequestIds
  BY <1>2, JobsType
<1>4. (uri = 0 /\ token = 0) \/ (uri = j.req /\ token = j.req /\ uri # 0)
  BY <1>2 DEF IsFor, OnlyMessages, IsMessage
<1>5. NoJob.type = "none"
  BY DEF NoJob
<1>6. OwnCredentials
  BY DEF IInv
<1>7. CASE conn' = "down" /\ UNCHANGED <<job, httpVars>>
  BY <1>1, <1>7, TakenDown
<1>8. CASE uri' = 0 /\ token' = 0 /\ UNCHANGED <<conn, job, forwarded>>
  <2>1. StageInv' /\ ProvenInv'
    BY <1>1, <1>2, <1>5, <1>8, TakenStage
  <2>2. TypeInv'
    BY <1>1, <1>2, <1>8 DEF TypeInv
  <2>3. CredentialsInv'
    BY <1>1, <1>5, <1>8 DEF CredentialsInv
  <2> QED BY <1>1, <1>2, <1>8, <2>1, <2>2, <2>3 DEF IInv, OpenInv, OwnCredentials, NoMessageUnproven
<1>9. CASE /\ uri' = Or(uri, j.req) /\ UNCHANGED token
           /\ IF token = 0 THEN Authenticate(j) /\ UNCHANGED forwarded ELSE SendToBox(j, uri', token)
  <2>1. uri' = j.req
    BY <1>4, <1>9 DEF Or
  <2>2. CASE token = 0
    <3>1. /\ conn' \in {conn, "down"}
          /\ job' \in [type: {"expect", "request", "handshake"}, req: RequestIds, at: {"auth", "box"}]
                      \cup {NoJob}
          /\ conn' = "open" => job'.type = j.type /\ job'.req = j.req /\ job'.at = "auth" /\ job' # NoJob
          /\ job' = NoJob \/ job'.type = j.type
      BY <1>2, <1>3, <1>9, <2>2, AuthenticateFacts
    <3>2. StageInv' /\ ProvenInv'
      BY <1>1, <1>2, <1>5, <3>1, TakenStage
    <3>3. TypeInv'
      BY <1>1, <1>2, <3>1 DEF TypeInv
    <3>4. conn' = "open" => CredentialsInv'
      BY <1>1, <1>2, <1>9, <2>1, <2>2, <3>1 DEF CredentialsInv
    <3>5. OwnCredentials'
      BY <1>6, <1>9, <2>2 DEF OwnCredentials
    <3> QED BY <1>1, <1>2, <3>2, <3>3, <3>4, <3>5 DEF IInv, OpenInv, NoMessageUnproven
  <2>3. CASE token # 0
    <3>1. SendToBox(j, j.req, j.req)
      BY <1>4, <1>9, <2>1, <2>3
    <3>2. /\ conn' \in {conn, "down"}
          /\ job' \in [type: {"expect", "request", "handshake"}, req: RequestIds, at: {"auth", "box"}]
                      \cup {NoJob}
          /\ conn' = "open" => job'.type = "request" /\ job'.at = "box" /\ job' # NoJob
          /\ job' = NoJob \/ job'.type = "request"
          /\ OwnCredentials'
      BY <1>2, <1>3, <1>6, <3>1, SendToBoxFacts
    <3>3. StageInv' /\ ProvenInv'
      BY <1>1, <1>2, <1>5, <3>2, TakenStage
    <3>4. TypeInv'
      BY <1>1, <1>2, <3>2 DEF TypeInv
    <3>5. conn' = "open" => CredentialsInv'
      BY <3>2 DEF CredentialsInv
    <3> QED BY <1>1, <1>2, <3>2, <3>3, <3>4, <3>5 DEF IInv, OpenInv, NoMessageUnproven
  <2> QED BY <2>2, <2>3
<1> QED BY <1>7, <1>8, <1>9 DEF PerformRequest

\* The handshake begins, after which the session holds nothing but messages.
LEMMA BeginHandshakeStep ==
  ASSUME IInv, BeginHandshake
  PROVE  IInv'
<1> USE DEF readVars, jobVars, httpVars, wsVars, boxVars, routeVars
<1> DEFINE j == Head(jobs)
<1>1. /\ job = NoJob /\ jobs # <<>> /\ Head(jobs).type = "handshake" /\ conn = "open" /\ Drop
      /\ UNCHANGED <<requests, reading, token, forwarded, ws, wsToken, unproven, wait>>
  BY DEF BeginHandshake, Takes
<1>2. /\ TypeInv /\ StageInv /\ RequestsBounded' /\ QueueInv' /\ jobs' \in Seq(Jobs) /\ Last' = Last
      /\ j = jobs[1] /\ j \in Jobs /\ j.type = "handshake" /\ 1 \in DOMAIN jobs
      /\ OnlyMessages'
  BY <1>1, TakeFacts
<1>3. ws = "alive"
  BY <1>1, <1>2 DEF StageInv, TypeInv, IsHandshake
<1>4. j.req \in RequestIds
  BY <1>2, JobsType
<1>5. uri' = j.req /\ Authenticate(j)
  BY <1>3 DEF BeginHandshake
<1>6. /\ conn' \in {conn, "down"}
      /\ job' \in [type: {"expect", "request", "handshake"}, req: RequestIds, at: {"auth", "box"}]
                  \cup {NoJob}
      /\ conn' = "open" => job'.type = j.type /\ job'.req = j.req /\ job'.at = "auth" /\ job' # NoJob
      /\ job' = NoJob \/ job'.type = j.type
  BY <1>2, <1>4, <1>5, AuthenticateFacts
<1>7. TypeInv'
  BY <1>1, <1>2, <1>6 DEF TypeInv
<1>8. StageInv'
  BY <1>1, <1>2, <1>3 DEF StageInv, NoJob
<1>9. conn' = "open" => CredentialsInv' /\ ProvenInv'
  BY <1>2, <1>6 DEF CredentialsInv, ProvenInv
<1> QED BY <1>1, <1>2, <1>7, <1>8, <1>9 DEF IInv, OpenInv, OwnCredentials, NoMessageUnproven

\* A message that is taken has waited for the handshake to succeed.
LEMMA PerformMessageStep ==
  ASSUME IInv, PerformMessage
  PROVE  IInv'
<1> USE DEF readVars, jobVars, httpVars, wsVars, boxVars, routeVars
<1>1. /\ job = NoJob /\ job' = NoJob /\ jobs # <<>> /\ Head(jobs).type = "message"
      /\ conn = "open" /\ conn' = "open" /\ Drop
      /\ UNCHANGED <<requests, reading, uri, token, forwarded, ws, wsToken, wait>>
  BY DEF PerformMessage, Takes
<1>2. /\ TypeInv /\ StageInv /\ ProvenInv /\ RequestsBounded' /\ QueueInv' /\ jobs' \in Seq(Jobs)
      /\ Head(jobs) = jobs[1] /\ 1 \in DOMAIN jobs
      /\ OnlyMessages => OnlyMessages'
      /\ \/ uri = 0 /\ token = 0
         \/ uri = token /\ uri # 0 /\ IsFor(jobs[1], uri)
         \/ ws # "none" /\ OnlyMessages
  BY <1>1, TakeFacts
<1>3. DOMAIN jobs \subseteq Nat \ {0}
  BY <1>2, LenProperties DEF TypeInv
<1>4. NoJob.type = "none"
  BY DEF NoJob
<1>5. wsToken
  <2> SUFFICES ASSUME ~wsToken PROVE FALSE
    OBVIOUS
  <2>1. \E k \in DOMAIN jobs : k < 1
    BY <1>1, <1>2, <1>4 DEF ProvenInv, IsMessage
  <2> QED BY <1>3, <2>1
<1>6. StageInv' /\ ProvenInv'
  BY <1>1, <1>2, <1>4, TakenStage
<1>7. TypeInv'
  BY <1>1, <1>2 DEF TypeInv
<1>8. CredentialsInv'
  BY <1>1, <1>2, <1>4 DEF CredentialsInv, IsFor
<1>9. NoMessageUnproven'
  BY <1>5 DEF PerformMessage, NoMessageUnproven, IInv
<1> QED BY <1>1, <1>2, <1>6, <1>7, <1>8, <1>9 DEF IInv, OpenInv, OwnCredentials

-------------------------------------------------------------------------------
\* The primary thread goes on with a job

\* The jobs and what they wait for stay as they are.
LEMMA SameQueue ==
  ASSUME IInv, UNCHANGED <<requests, reading, jobs, ws>>
  PROVE  /\ RequestsBounded' /\ Last' = Last
         /\ (QueueInv => QueueInv') /\ (OnlyMessages => OnlyMessages')
         /\ \A n : NextIs(n) => NextIs(n)'
<1>1. RequestsBounded' /\ Last' = Last
  BY DEF IInv, RequestsBounded, Last
<1>2. QueueInv => QueueInv'
  BY <1>1 DEF QueueInv, IsMessage, IsHandshake, IsFor
<1>3. OnlyMessages => OnlyMessages'
  BY DEF OnlyMessages, IsMessage
<1>4. \A n : NextIs(n) => NextIs(n)'
  BY <1>1 DEF NextIs, IsFor
<1> QED BY <1>1, <1>2, <1>3, <1>4

\* A request or an Expect goes on, or ends: the WebSocket is in the same stage.
LEMMA SameStage ==
  ASSUME IInv, job.type # "handshake", job'.type # "handshake", conn' \in {conn, "down"},
         UNCHANGED <<requests, reading, jobs, ws, wait>>
  PROVE  StageInv' /\ (UNCHANGED wsToken /\ ProvenInv => ProvenInv')
<1>1. StageInv'
  <2>1. StageInv /\ Last' = Last
    BY DEF IInv, Last
  <2>2. wait' = "none"
    BY <2>1 DEF StageInv
  <2>3. ws' = "none" => \A i \in DOMAIN jobs' : ~IsHandshake(i)' /\ ~IsMessage(i)'
    BY <2>1 DEF StageInv, IsMessage, IsHandshake
  <2>4. (reading' => Last' # 0) /\ (ws' # "none" => ~reading')
    BY <2>1 DEF StageInv
  <2>5. ws' = "destroyed" => conn' = "down"
    BY <2>1 DEF StageInv
  <2> QED BY <2>2, <2>3, <2>4, <2>5 DEF StageInv
<1>2. ASSUME UNCHANGED wsToken, ProvenInv PROVE ProvenInv'
  BY <1>2 DEF ProvenInv, IsMessage, IsHandshake
<1> QED BY <1>1, <1>2

\* sync_authenticate() returns a token, given for the request it was called for.
LEMMA AuthAnswersStep ==
  ASSUME IInv, AuthAnswers
  PROVE  IInv'
<1> USE DEF readVars, jobVars, httpVars, wsVars, boxVars, routeVars
<1>1. /\ job # NoJob /\ job.type # "handshake" /\ job.at = "auth" /\ TypeInv /\ StageInv
      /\ UNCHANGED <<requests, reading, jobs, uri, ws, wsToken, unproven, wait>>
      /\ OwnCredentials
  BY DEF AuthAnswers, IInv
<1>2. job.type \in {"expect", "request"} /\ job.req \in RequestIds /\ job.req # 0
  BY <1>1, BoundsAssumption DEF TypeInv, RequestIds
<1>3. NoJob.type = "none"
  BY DEF NoJob
<1>4. conn \in {"open", "down"}
  BY <1>1 DEF TypeInv
<1>5. CASE conn' = "down" /\ job' = NoJob /\ UNCHANGED <<token, forwarded>>
  <2>1. TypeInv' /\ StageInv' /\ RequestsBounded'
    BY <1>1, <1>3, <1>5, SameStage, SameQueue DEF TypeInv
  <2> QED BY <1>1, <1>5, <2>1, DownStep
<1>6. CASE /\ conn = "open" /\ token' = job.req /\ job.type = "expect"
           /\ job' = NoJob /\ UNCHANGED <<conn, forwarded>>
  <2>1. StageInv' /\ ProvenInv' /\ RequestsBounded' /\ QueueInv'
    BY <1>1, <1>3, <1>6, SameStage, SameQueue DEF IInv, OpenInv
  <2>2. TypeInv'
    BY <1>1, <1>6 DEF TypeInv
  <2>3. uri = job.req /\ NextIs(uri)
    BY <1>6 DEF IInv, OpenInv, CredentialsInv
  <2>4. NextIs(uri)'
    BY <1>1, <2>3, SameQueue
  <2>5. CredentialsInv'
    BY <1>1, <1>2, <1>3, <1>6, <2>3, <2>4 DEF CredentialsInv
  <2> QED BY <1>1, <1>6, <2>1, <2>2, <2>5 DEF IInv, OpenInv, OwnCredentials, NoMessageUnproven
<1>7. CASE /\ conn = "open" /\ token' = job.req /\ job.type = "request"
           /\ SendToBox(job, uri, job.req)
  <2>1. uri = job.req
    BY <1>1, <1>7 DEF IInv, OpenInv, CredentialsInv
  <2>2. /\ conn' \in {conn, "down"}
        /\ job' \in [type: {"expect", "request", "handshake"}, req: RequestIds, at: {"auth", "box"}]
                    \cup {NoJob}
        /\ conn' = "open" => job'.type = "request" /\ job'.at = "box" /\ job' # NoJob
        /\ job' = NoJob \/ job'.type = "request"
        /\ OwnCredentials'
    BY <1>1, <1>2, <1>7, <2>1, SendToBoxFacts
  <2>3. StageInv' /\ (ProvenInv => ProvenInv') /\ RequestsBounded' /\ (QueueInv => QueueInv')
    BY <1>1, <1>3, <2>2, SameStage, SameQueue
  <2>4. TypeInv'
    BY <1>1, <2>2 DEF TypeInv
  <2>5. conn' = "open" => QueueInv' /\ CredentialsInv' /\ ProvenInv'
    BY <1>7, <2>2, <2>3 DEF CredentialsInv, IInv, OpenInv
  <2> QED BY <1>1, <2>2, <2>3, <2>4, <2>5 DEF IInv, OpenInv, NoMessageUnproven
<1> QED BY <1>2, <1>5, <1>6, <1>7 DEF AuthAnswers

\* The answer of the box is the end of what is known of the client.
LEMMA BoxAnswersStep ==
  ASSUME IInv, BoxAnswers
  PROVE  IInv'
<1> USE DEF readVars, jobVars, httpVars, wsVars, boxVars, routeVars
<1>1. /\ job.type = "request" /\ job' = NoJob /\ TypeInv /\ NoJob.type = "none"
      /\ conn' \in {conn, "down"}
      /\ UNCHANGED <<requests, reading, jobs, forwarded, ws, wsToken, unproven, wait>>
  BY DEF BoxAnswers, IInv, NoJob
<1>2. StageInv' /\ (ProvenInv => ProvenInv') /\ RequestsBounded' /\ (QueueInv => QueueInv')
  BY <1>1, SameStage, SameQueue
<1>3. CASE conn' = "down"
  <2>1. TypeInv'
    BY <1>1, <1>3 DEF TypeInv
  <2> QED BY <1>1, <1>2, <1>3, <2>1, DownStep
<1>4. CASE conn' = conn /\ uri' = 0 /\ token' = 0
  <2>1. TypeInv'
    BY <1>1, <1>4 DEF TypeInv
  <2>2. CredentialsInv'
    BY <1>1, <1>4 DEF CredentialsInv
  <2> QED BY <1>1, <1>2, <1>4, <2>1, <2>2 DEF IInv, OpenInv, OwnCredentials, NoMessageUnproven
<1> QED BY <1>3, <1>4 DEF BoxAnswers

\* The handshake waits for the establishment, or fails.
LEMMA EstablishOrFailStep ==
  ASSUME IInv, EstablishOrFail
  PROVE  IInv'
<1> USE DEF readVars, jobVars, httpVars, wsVars, boxVars, routeVars
<1>1. /\ job.type = "handshake" /\ job # NoJob /\ TypeInv /\ StageInv
      /\ UNCHANGED <<requests, reading, jobs, uri, token, forwarded, ws, wsToken, unproven>>
  BY DEF EstablishOrFail, IInv
<1>2. RequestsBounded' /\ Last' = Last /\ (QueueInv => QueueInv') /\ (OnlyMessages => OnlyMessages')
  BY <1>1, SameQueue
<1>3. CASE conn' = conn /\ job' = [job EXCEPT !.at = "box"]
  <2>0. job \in [type: {"expect", "request", "handshake"}, req: RequestIds, at: {"auth", "box"}]
    BY <1>1 DEF TypeInv
  <2>1. /\ job'.type = "handshake" /\ job'.at = "box" /\ TypeInv'
        /\ job' \in [type: {"expect", "request", "handshake"}, req: RequestIds, at: {"auth", "box"}]
    <3>1. job'.type = job.type /\ job'.at = "box"
      BY <1>3, <2>0
    <3>2. job' \in [type: {"expect", "request", "handshake"}, req: RequestIds, at: {"auth", "box"}]
      BY <1>3, <2>0
    <3> QED BY <1>1, <1>3, <3>1, <3>2 DEF TypeInv
  <2>2. job' # NoJob
    BY <2>1 DEF NoJob
  <2>3. StageInv'
    BY <1>1, <1>2, <1>3, <2>1 DEF StageInv, OnlyMessages, IsMessage, IsHandshake
  <2>4. CredentialsInv' /\ ProvenInv'
    BY <2>1, <2>2 DEF CredentialsInv, ProvenInv
  <2> QED BY <1>1, <1>2, <1>3, <2>1, <2>3, <2>4 DEF IInv, OpenInv, OwnCredentials, NoMessageUnproven
<1>4. CASE conn' = "down" /\ job' = NoJob /\ UNCHANGED wait
  <2>1. wait = "none" => StageInv'
    BY <1>1, <1>2, <1>4 DEF StageInv, OnlyMessages, IsMessage, IsHandshake, NoJob
  <2>2. wait = "none"
    BY <1>1 DEF EstablishOrFail, StageInv
  <2>3. TypeInv'
    BY <1>1, <1>4 DEF TypeInv
  <2> QED BY <1>1, <1>2, <1>4, <2>1, <2>2, <2>3, DownStep
<1> QED BY <1>3, <1>4 DEF EstablishOrFail

\* The handshake ends: the client is authenticated, or the connection shut down.
LEMMA HandshakeEndsStep ==
  ASSUME IInv, Established \/ EstablishmentFails
  PROVE  IInv'
<1> USE DEF readVars, jobVars, httpVars, wsVars, boxVars, routeVars, NoteFoyer
<1>1. /\ wait # "none" /\ wait' = "none" /\ job' = NoJob /\ TypeInv /\ StageInv
      /\ UNCHANGED <<requests, reading, jobs, uri, token, forwarded, ws, unproven>>
      /\ NoJob.type = "none"
  BY DEF Established, EstablishmentFails, IInv, NoJob
<1>2. job.type = "handshake" /\ ws # "none" /\ OnlyMessages
  BY <1>1 DEF StageInv
<1>3. RequestsBounded' /\ Last' = Last /\ (QueueInv => QueueInv') /\ (OnlyMessages => OnlyMessages')
  BY <1>1, SameQueue
<1>4. CASE Established
  <2>1. conn' = conn /\ wsToken' = (conn = "open")
    BY <1>4 DEF Established
  <2>2. TypeInv'
    BY <1>1, <2>1 DEF TypeInv
  <2>3. StageInv'
    BY <1>1, <1>2, <1>3, <2>1 DEF StageInv, OnlyMessages, IsMessage, IsHandshake
  <2>4. CredentialsInv'
    BY <1>1, <1>2, <1>3 DEF CredentialsInv
  <2>5. conn' = "open" => ProvenInv'
    BY <2>1 DEF ProvenInv
  <2> QED BY <1>1, <1>3, <2>1, <2>2, <2>3, <2>4, <2>5 DEF IInv, OpenInv, OwnCredentials, NoMessageUnproven
<1>5. CASE EstablishmentFails
  <2>1. conn' = "down"
    BY <1>5 DEF EstablishmentFails
  <2>2. TypeInv'
    BY <1>1, <2>1 DEF TypeInv
  <2>3. StageInv'
    BY <1>1, <1>2, <1>3, <2>1 DEF StageInv, OnlyMessages, IsMessage, IsHandshake
  <2> QED BY <1>1, <1>3, <2>1, <2>2, <2>3, DownStep
<1> QED BY <1>4, <1>5

-------------------------------------------------------------------------------
\* The steps of the other servers, which at most answer or end a wait, and those
\* of a connection that has been shut down.
LEMMA OtherStep ==
  ASSUME IInv, conn' \in {conn, "down"}, ws' = ws \/ (ws' = "destroyed" /\ conn = "down" /\ ws # "none"),
         wait' = wait \/ wait # "none",
         UNCHANGED <<requests, reading, jobs, job, uri, token, forwarded, wsToken, unproven>>
  PROVE  IInv'
<1>1. TypeInv'
  BY DEF IInv, TypeInv
<1>2. StageInv' /\ RequestsBounded'
  BY DEF IInv, StageInv, OnlyMessages, IsMessage, IsHandshake, RequestsBounded, Last, TypeInv
<1>3. CASE conn' = "down"
  BY <1>1, <1>2, <1>3, DownStep
<1>4. CASE conn' = "open"
  <2>1. conn = "open" /\ ws' = ws
    BY <1>4
  <2>2. QueueInv' /\ CredentialsInv' /\ ProvenInv'
    BY <2>1 DEF IInv, OpenInv, QueueInv, CredentialsInv, ProvenInv, OnlyMessages, IsMessage, IsHandshake,
                NextIs, IsFor, Last
  <2> QED BY <1>1, <1>2, <2>2 DEF IInv, OpenInv, OwnCredentials, NoMessageUnproven
<1> QED BY <1>3, <1>4 DEF IInv, TypeInv

\* At first nothing has been read.
LEMMA InitIInv == Init => IInv
<1> SUFFICES ASSUME Init PROVE IInv
  OBVIOUS
<1>1. <<>> \in Seq(Jobs) /\ <<>> \in Seq([kind: Kinds, expect: BOOLEAN]) /\ DOMAIN <<>> = {} /\ Len(<<>>) = 0
  OBVIOUS
<1>2. MaxRequests \in Nat /\ NoJob.type = "none"
  BY BoundsAssumption DEF NoJob
<1>3. TypeInv /\ RequestsBounded /\ StageInv
  BY <1>1, <1>2 DEF Init, TypeInv, RequestsBounded, StageInv, OnlyMessages
<1>4. OpenInv /\ OwnCredentials /\ NoMessageUnproven
  BY <1>1, <1>2 DEF Init, OpenInv, QueueInv, CredentialsInv, ProvenInv, OwnCredentials, NoMessageUnproven
<1> QED BY <1>3, <1>4 DEF IInv

\* Every step of the client, the gate and the servers behind it keeps the jobs,
\* what the session knows and how far it has come in line.
THEOREM Invariance == Spec => []IInv
<1>1. IInv /\ [Next]_vars => IInv'
  <2> SUFFICES ASSUME IInv, [Next]_vars PROVE IInv'
    OBVIOUS
  <2> USE DEF readVars, jobVars, httpVars, wsVars, boxVars, routeVars
  <2>1. CASE Client
    BY <2>1, ReadHeadersStep, ReadEndStep, ReadMessageStep, ShutdownStep DEF Client
  <2>2. CASE PrimaryThread
    BY <2>2, ShutdownStep, PerformExpectStep, PerformRequestStep, AuthAnswersStep, BoxAnswersStep,
       BeginHandshakeStep, EstablishOrFailStep, HandshakeEndsStep, PerformMessageStep DEF PrimaryThread
  <2>3. CASE DestroyWebSocket
    BY <2>3, OtherStep DEF DestroyWebSocket
  <2>4. CASE ForwardEstablishment
    BY <2>4, OtherStep DEF ForwardEstablishment
  <2>5. CASE Box
    BY <2>5, OtherStep DEF Box, BeginEstablishment, EndEstablishment
  <2>6. CASE ShutDownShadow \/ ForwardKill \/ HandleKill \/ HandleClosure \/ PingTimer \/ BanChanges
    BY <2>6, OtherStep DEF ShutDownShadow, ForwardKill, HandleKill, HandleClosure, PingTimer, BanChanges
  <2>7. ASSUME NEW l \in {"gate", "box"}, LoseLink(l) PROVE IInv'
    BY <2>7, OtherStep DEF LoseLink
  <2>8. CASE UNCHANGED vars
    BY <2>8, OtherStep DEF vars
  <2> QED BY <2>1, <2>2, <2>3, <2>4, <2>5, <2>6, <2>7, <2>8 DEF Next
<1> QED BY InitIInv, <1>1, PTL DEF Spec

(***************************************************************************)
(* A request goes to the box with its own URI and a token given for it,    *)
(* however many requests, with and without Expect, come over a connection. *)
(***************************************************************************)
THEOREM RequestsKeepCredentials == Spec => []OwnCredentials
<1>1. IInv => OwnCredentials
  BY DEF IInv
<1> QED BY <1>1, Invariance, PTL

(***************************************************************************)
(* No message is accepted before its client is authenticated, however many *)
(* messages arrive while the handshake is queued or waits.                 *)
(***************************************************************************)
THEOREM MessagesAreProven == Spec => []NoMessageUnproven
<1>1. IInv => NoMessageUnproven
  BY DEF IInv
<1> QED BY <1>1, Invariance, PTL

-------------------------------------------------------------------------------
\* The other variables: those of the gate, ...
GateType ==
    /\ banned \in BOOLEAN /\ first \in BOOLEAN /\ reading \in BOOLEAN
    /\ messages \in 0..MaxMessages
    /\ uri \in 0..MaxRequests /\ token \in 0..MaxRequests
    /\ answered \subseteq RequestIds
    /\ forwarded \subseteq [req: RequestIds, uri: 0..MaxRequests, token: 0..MaxRequests]
    /\ wsToken \in BOOLEAN /\ foyerSet \in BOOLEAN /\ unproven \in BOOLEAN

\* ... and those of the servers behind it.
RouteType ==
    /\ link \in [{"gate", "box"} -> BOOLEAN]
    /\ wait \in {"none", "waiting", "success", "failure"}
    /\ request \in {"none", "sent", "at_box", "running", "done"}
    /\ shadow \in {"none", "made", "attached", "closed"}
    /\ shutdown \in BOOLEAN
    /\ kill \in {"none", "at_foyer", "at_gate"}
    /\ closure \in BOOLEAN

\* A request in the queue, or being performed, has been received.
LEMMA RequestType ==
  ASSUME TypeInv
  PROVE  /\ jobs # <<>> => Head(jobs) \in Jobs
         /\ RequestIds \subseteq 0..MaxRequests /\ 0 \in 0..MaxRequests
         /\ \A r \in RequestIds : Or(uri, r) \in {uri, r}
<1>1. MaxRequests \in Nat
  BY BoundsAssumption
<1>2. jobs \in Seq(Jobs)
  BY DEF TypeInv
<1> QED BY <1>1, <1>2, HeadTailProperties DEF RequestIds, Or

\* What is sent to the box has the types of what is sent.
LEMMA SendToBoxType ==
  ASSUME GateType, NEW j, j.req \in RequestIds, NEW u \in 0..MaxRequests, NEW t \in 0..MaxRequests,
         SendToBox(j, u, t)
  PROVE  forwarded' \subseteq [req: RequestIds, uri: 0..MaxRequests, token: 0..MaxRequests]
BY DEF SendToBox, GateType

\* Every step keeps the types of the variables of the gate.
LEMMA GateTypeStep == IInv /\ GateType /\ [Next]_vars => GateType'
<1> SUFFICES ASSUME IInv, GateType, [Next]_vars PROVE GateType'
  OBVIOUS
<1> USE DEF readVars, jobVars, httpVars, wsVars, boxVars, routeVars
<1>t. TypeInv
  BY DEF IInv
<1>j. jobs # <<>> => Head(jobs) \in Jobs
  BY <1>t, RequestType
<1>r. RequestIds \subseteq 0..MaxRequests /\ 0 \in 0..MaxRequests
  BY <1>t, RequestType
<1>1. CASE \E k \in Kinds, e \in BOOLEAN : ReadHeaders(k, e)
  BY <1>1 DEF ReadHeaders, GateType
<1>2. CASE ReadEnd
  BY <1>2 DEF ReadEnd, GateType
<1>3. CASE RefuseAtEnd
  BY <1>3 DEF RefuseAtEnd, GateType
<1>4. CASE ReadMessage
  <2>1. messages' \in 0..MaxMessages
    BY <1>4, BoundsAssumption DEF ReadMessage, GateType
  <2> QED BY <1>4, <2>1 DEF ReadMessage, GateType
<1>5. CASE HangUp \/ DropJob
  BY <1>5 DEF HangUp, DropJob, GateType
<1>6. CASE BanChanges
  BY <1>6 DEF BanChanges, GateType
<1>7. CASE PerformExpect
  <2>1. Head(jobs).req \in RequestIds
    BY <1>j, <1>7, JobsType DEF PerformExpect, Takes
  <2>2. uri' \in 0..MaxRequests
    BY <1>r, <1>7, <2>1 DEF PerformExpect, GateType
  <2> QED BY <1>7, <2>2 DEF PerformExpect, GateType
<1>8. CASE PerformRequest
  <2>1. Head(jobs).req \in RequestIds
    BY <1>j, <1>8, JobsType DEF PerformRequest, Takes
  <2>2. Or(uri, Head(jobs).req) \in 0..MaxRequests
    BY <1>t, <1>r, <2>1, RequestType DEF GateType
  <2>3. uri' \in 0..MaxRequests /\ token' \in 0..MaxRequests
    BY <1>r, <1>8, <2>2 DEF PerformRequest, GateType
  <2>4. answered' \subseteq RequestIds
    BY <1>8, <2>1 DEF PerformRequest, GateType
  <2>5. forwarded' \subseteq [req: RequestIds, uri: 0..MaxRequests, token: 0..MaxRequests]
    <3>1. CASE SendToBox(Head(jobs), uri', token)
      BY <2>1, <2>3, <3>1, SendToBoxType DEF GateType
    <3>2. CASE forwarded' = forwarded
      BY <3>2 DEF GateType
    <3> QED BY <1>8, <3>1, <3>2 DEF PerformRequest
  <2> QED BY <1>8, <2>3, <2>4, <2>5 DEF PerformRequest, GateType
<1>9. CASE AuthAnswers
  <2>1. job.req \in RequestIds
    BY <1>t, <1>9, JobType DEF AuthAnswers
  <2>2. token' \in 0..MaxRequests
    BY <1>r, <1>9, <2>1 DEF AuthAnswers, GateType
  <2>3. forwarded' \subseteq [req: RequestIds, uri: 0..MaxRequests, token: 0..MaxRequests]
    <3>1. CASE SendToBox(job, uri, job.req)
      BY <1>r, <2>1, <3>1, SendToBoxType DEF GateType
    <3>2. CASE forwarded' = forwarded
      BY <3>2 DEF GateType
    <3> QED BY <1>9, <3>1, <3>2 DEF AuthAnswers
  <2> QED BY <1>9, <2>2, <2>3 DEF AuthAnswers, GateType
<1>10. CASE BoxAnswers
  <2>1. job.req \in RequestIds
    BY <1>t, <1>10, JobType DEF BoxAnswers
  <2>2. uri' \in 0..MaxRequests /\ token' \in 0..MaxRequests
    BY <1>r, <1>10 DEF BoxAnswers, GateType
  <2>3. answered' \subseteq RequestIds
    BY <1>10, <2>1 DEF BoxAnswers, GateType
  <2> QED BY <1>10, <2>2, <2>3 DEF BoxAnswers, GateType
<1>11. CASE BeginHandshake
  <2>1. Head(jobs).req \in RequestIds
    BY <1>j, <1>11, JobsType DEF BeginHandshake, Takes
  <2>2. uri' \in 0..MaxRequests
    BY <1>r, <1>11, <2>1 DEF BeginHandshake, GateType
  <2> QED BY <1>11, <2>2 DEF BeginHandshake, GateType
<1>12. CASE EstablishOrFail \/ EstablishmentFails
  BY <1>12 DEF EstablishOrFail, EstablishmentFails, GateType
<1>13. CASE Established
  BY <1>13 DEF Established, NoteFoyer, GateType
<1>14. CASE PerformMessage
  BY <1>14 DEF PerformMessage, GateType
<1>15. CASE DestroyWebSocket \/ ForwardEstablishment \/ Box \/ ShutDownShadow
  BY <1>15 DEF DestroyWebSocket, ForwardEstablishment, Box, BeginEstablishment, EndEstablishment,
               ShutDownShadow, GateType
<1>16. CASE ForwardKill \/ HandleKill \/ HandleClosure \/ PingTimer
  BY <1>16 DEF ForwardKill, HandleKill, HandleClosure, PingTimer, GateType
<1>17. CASE \E l \in {"gate", "box"} : LoseLink(l)
  BY <1>17 DEF LoseLink, GateType
<1>18. CASE UNCHANGED vars
  BY <1>18 DEF vars, GateType
<1> QED
  BY <1>1, <1>2, <1>3, <1>4, <1>5, <1>6, <1>7, <1>8, <1>9, <1>10, <1>11, <1>12, <1>13, <1>14, <1>15,
     <1>16, <1>17, <1>18 DEF Next, Client, PrimaryThread

\* Every step keeps the types of the variables of the other servers.
LEMMA RouteTypeStep == RouteType /\ [Next]_vars => RouteType'
<1> SUFFICES ASSUME RouteType, [Next]_vars PROVE RouteType'
  OBVIOUS
<1> USE DEF readVars, jobVars, httpVars, wsVars, boxVars, routeVars
<1>1. CASE Client
  BY <1>1 DEF Client, ReadHeaders, ReadEnd, RefuseAtEnd, ReadMessage, HangUp, RouteType
<1>2. CASE BanChanges \/ DropJob \/ PerformExpect \/ PerformRequest \/ AuthAnswers \/ BoxAnswers
  BY <1>2 DEF BanChanges, DropJob, PerformExpect, PerformRequest, AuthAnswers, BoxAnswers, RouteType
<1>3. CASE BeginHandshake \/ PerformMessage
  BY <1>3 DEF BeginHandshake, PerformMessage, RouteType
<1>4. CASE EstablishOrFail
  BY <1>4 DEF EstablishOrFail, RouteType
<1>5. CASE Established \/ EstablishmentFails
  BY <1>5 DEF Established, EstablishmentFails, RouteType
<1>6. CASE DestroyWebSocket
  <2>1. closure' \in BOOLEAN
    BY <1>6 DEF DestroyWebSocket
  <2> QED BY <1>6, <2>1 DEF DestroyWebSocket, RouteType
<1>7. CASE ForwardEstablishment
  BY <1>7 DEF ForwardEstablishment, RouteType
<1>8. CASE Box
  BY <1>8 DEF Box, BeginEstablishment, EndEstablishment, KillAfterShutdown, RouteType
<1>9. CASE ShutDownShadow
  BY <1>9 DEF ShutDownShadow, KillAfterShutdown, RouteType
<1>10. CASE ForwardKill \/ HandleKill \/ PingTimer
  BY <1>10 DEF ForwardKill, HandleKill, PingTimer, RouteType
<1>11. CASE HandleClosure
  <2>1. shutdown' \in BOOLEAN
    BY <1>11 DEF HandleClosure
  <2> QED BY <1>11, <2>1 DEF HandleClosure, RouteType
<1>12. CASE \E l \in {"gate", "box"} : LoseLink(l)
  <2>1. PICK l \in {"gate", "box"} : LoseLink(l)
    BY <1>12
  <2>2. link' \in [{"gate", "box"} -> BOOLEAN]
    BY <2>1 DEF LoseLink, RouteType
  <2>3. wait' \in {wait, "failure"} /\ request' \in {request, "done"} /\ kill' \in {kill, "none"}
    BY <2>1 DEF LoseLink
  <2>4. closure' = FALSE /\ UNCHANGED <<shadow, shutdown>>
    BY <2>1 DEF LoseLink
  <2> QED BY <2>2, <2>3, <2>4 DEF RouteType
<1>13. CASE UNCHANGED vars
  BY <1>13 DEF vars, RouteType
<1> QED
  BY <1>1, <1>2, <1>3, <1>4, <1>5, <1>6, <1>7, <1>8, <1>9, <1>10, <1>11, <1>12, <1>13
     DEF Next, PrimaryThread

\* With OwnCredentials, which says that nothing is forwarded under no URI or
\* token, the parts make TypeOK.
LEMMA TypesSuffice == IInv /\ GateType /\ RouteType => TypeOK
<1> SUFFICES ASSUME IInv, GateType, RouteType PROVE TypeOK
  OBVIOUS
<1>1. forwarded \subseteq [req: RequestIds, uri: RequestIds, token: RequestIds]
  <2> SUFFICES ASSUME NEW f \in forwarded
               PROVE  f \in [req: RequestIds, uri: RequestIds, token: RequestIds]
    OBVIOUS
  <2>1. f \in [req: RequestIds, uri: 0..MaxRequests, token: 0..MaxRequests]
    BY DEF GateType
  <2>2. f.uri = f.req /\ f.token = f.req /\ f.req \in RequestIds
    BY <2>1 DEF IInv, OwnCredentials
  <2> QED BY <2>1, <2>2
<1> QED BY <1>1 DEF IInv, TypeInv, RequestsBounded, GateType, RouteType, TypeOK

\* Every variable of a client's connection keeps its type, and the requests and
\* messages their bounds.
THEOREM TypeCorrect == Spec => []TypeOK
<1>1. Init => GateType /\ RouteType
  <2>1. 0 \in 0..MaxRequests /\ 0 \in 0..MaxMessages
    BY BoundsAssumption
  <2> QED BY <2>1 DEF Init, GateType, RouteType
<1>2. IInv /\ GateType /\ RouteType /\ [Next]_vars => GateType' /\ RouteType'
  BY GateTypeStep, RouteTypeStep
<1> QED BY <1>1, <1>2, Invariance, TypesSuffice, PTL DEF Spec
===================================================================================
