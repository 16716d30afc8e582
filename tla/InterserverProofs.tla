--------------------------- MODULE InterserverProofs ---------------------------
(***************************************************************************)
(* Whatever two servers ask of each other, and in whatever order their     *)
(* threads run: every promise is kept once and nobody without the key is   *)
(* served; and if the connector's end says hello first, the ends agree     *)
(* about the handshake and nobody is served before it.                     *)
(***************************************************************************)
EXTENDS Interserver, SequenceTheorems, TLAPS

-------------------------------------------------------------------------------
\* Queues

\* x stands in the queue q.
Has(q, x) == \E i \in DOMAIN q : q[i] = x

\* Nothing of the set T stands in q.
Free(q, T) == \A i \in DOMAIN q : q[i] \notin T

\* Nothing of the set T stands before x in q.
Leads(q, x, T) == \A i \in DOMAIN q : q[i] = x => \A j \in 1..(i - 1) : q[j] \notin T

\* An empty queue has nothing.
LEMMA EmptyFacts ==
  /\ \A x : ~Has(<<>>, x)
  /\ \A T : Free(<<>>, T)
  /\ \A x, T : Leads(<<>>, x, T)
BY DEF Has, Free, Leads

\* The queue r is q with y put at its end.
Puts(q, y, r) ==
    /\ r # <<>>
    /\ \A x : Has(r, x) <=> Has(q, x) \/ x = y
    /\ \A T : Free(r, T) <=> Free(q, T) /\ y \notin T
    /\ \A x, T : Leads(q, x, T) /\ (x = y => Free(q, T)) => Leads(r, x, T)

\* The queue r is q without its head y.
Drops(q, y, r) ==
    /\ \A x : Has(q, x) <=> Has(r, x) \/ x = y
    /\ \A T : Free(q, T) <=> Free(r, T) /\ y \notin T
    /\ \A x, T : Leads(q, x, T) => Leads(r, x, T) /\ (y \in T => ~Has(r, x))

\* Append puts.
LEMMA AppendPuts ==
  ASSUME NEW S, NEW q \in Seq(S), NEW y \in S
  PROVE  Append(q, y) \in Seq(S) /\ Puts(q, y, Append(q, y))
<1> DEFINE r == Append(q, y)
           n == Len(q)
<1>1. /\ n \in Nat /\ DOMAIN q = 1..n
      /\ r \in Seq(S) /\ DOMAIN r = 1..(n + 1)
      /\ r[n + 1] = y /\ \A i \in 1..n : r[i] = q[i]
  BY AppendProperties, LenProperties
<1> HIDE DEF r, n
<1>2. r # <<>>
  BY <1>1
<1>3. \A x : Has(r, x) <=> Has(q, x) \/ x = y
  <2>1. n + 1 \in 1..(n + 1) /\ \A i \in 1..(n + 1) : i \in 1..n \/ i = n + 1
    BY <1>1
  <2> QED BY <1>1, <2>1 DEF Has
<1>4. \A T : Free(r, T) <=> Free(q, T) /\ y \notin T
  <2>1. n + 1 \in 1..(n + 1) /\ \A i \in 1..(n + 1) : i \in 1..n \/ i = n + 1
    BY <1>1
  <2> QED BY <1>1, <2>1 DEF Free
<1>5. ASSUME NEW x, NEW T, Leads(q, x, T), x = y => Free(q, T),
             NEW i \in DOMAIN r, r[i] = x, NEW j \in 1..(i - 1)
      PROVE  r[j] \notin T
  <2>1. j \in 1..n /\ r[j] = q[j]
    BY <1>1, <1>5
  <2>2. CASE i \in 1..n
    BY <1>1, <1>5, <2>1, <2>2 DEF Leads
  <2>3. CASE i = n + 1
    BY <1>1, <1>5, <2>1, <2>3 DEF Free
  <2> QED BY <1>1, <1>5, <2>2, <2>3
<1>6. \A x, T : Leads(q, x, T) /\ (x = y => Free(q, T)) => Leads(r, x, T)
  BY <1>5 DEF Leads
<1> QED BY <1>1, <1>2, <1>3, <1>4, <1>6 DEF r, Puts

\* Tail drops.
LEMMA TailDrops ==
  ASSUME NEW S, NEW q \in Seq(S), q # <<>>
  PROVE  Head(q) \in S /\ Tail(q) \in Seq(S) /\ Drops(q, Head(q), Tail(q))
<1> DEFINE r == Tail(q)
           n == Len(r)
<1>1. /\ n \in Nat /\ DOMAIN q = 1..(n + 1)
      /\ r \in Seq(S) /\ DOMAIN r = 1..n
      /\ \A i \in 1..n : r[i] = q[i + 1]
      /\ Head(q) = q[1] /\ Head(q) \in S
  <2>1. Head(q) = q[1]
    OBVIOUS
  <2>2. Len(q) \in Nat \ {0}
    BY EmptySeq
  <2> QED BY <2>1, <2>2, HeadTailProperties, LenProperties
<1> HIDE DEF r, n
<1>2. /\ 1 \in 1..(n + 1)
      /\ \A i \in 1..n : i + 1 \in 1..(n + 1)
      /\ \A i \in 1..(n + 1) : i = 1 \/ (i - 1 \in 1..n /\ (i - 1) + 1 = i)
  BY <1>1
<1>3. \A x : Has(q, x) <=> Has(r, x) \/ x = Head(q)
  BY <1>1, <1>2 DEF Has
<1>4. \A T : Free(q, T) <=> Free(r, T) /\ Head(q) \notin T
  BY <1>1, <1>2 DEF Free
<1>5. ASSUME NEW x, NEW T, Leads(q, x, T), NEW i \in DOMAIN r, r[i] = x
      PROVE  /\ Head(q) \notin T
             /\ \A j \in 1..(i - 1) : r[j] \notin T
  <2>1. i + 1 \in DOMAIN q /\ q[i + 1] = x
    BY <1>1, <1>2, <1>5
  <2>2. \A j \in 1..i : q[j] \notin T
    BY <1>1, <1>5, <2>1 DEF Leads
  <2>3. \A j \in 1..(i - 1) : j + 1 \in 1..i /\ r[j] = q[j + 1]
    BY <1>1, <1>5
  <2>4. 1 \in 1..i
    BY <1>1, <1>5
  <2> QED BY <1>1, <2>2, <2>3, <2>4
<1>6. \A x, T : Leads(q, x, T) => Leads(r, x, T) /\ (Head(q) \in T => ~Has(r, x))
  BY <1>5 DEF Leads, Has
<1> QED BY <1>1, <1>3, <1>4, <1>6 DEF r, Drops

-------------------------------------------------------------------------------
\* The inductive invariant

ClientQueue == camp["client"]
ServerQueue == camp["server"]
ToClient    == wire["client"]
ToServer    == wire["server"]

PingFrame == [kind |-> "ping"]
PongFrame == [kind |-> "pong"]

Ins  == [dir: {"in"}, msg: Hello \cup Encoded]
Outs == [dir: {"out"}, msg: Hello \cup User]

\* The connector's end decodes what the acceptor's end encodes, and conversely;
\* the seeds of the two directions differ.
EncodedWith(seed) == [kind: {"request", "response"}, serial: Serials, seed: {seed}]

ClientTasks ==
    {Out(ClientHello), In(ServerHello)} \cup [dir: {"out"}, msg: User]
        \cup [dir: {"in"}, msg: EncodedWith("authentication")]

ServerTasks ==
    {In(ClientHello), Out(ServerHello)} \cup [dir: {"out"}, msg: User]
        \cup [dir: {"in"}, msg: EncodedWith("normal_data")]

ClientFrames == {ServerHello, PongFrame} \cup EncodedWith("authentication")
ServerFrames == {ClientHello, PingFrame} \cup EncodedWith("normal_data")

\* What stands in the queues and on the wire; control frames are for those only
\* who have authenticated.
Contents ==
    /\ ClientQueue \in Seq(ClientTasks)
    /\ ServerQueue \in Seq(ServerTasks)
    /\ ToClient \in Seq(ClientFrames)
    /\ ToServer \in Seq(ServerFrames)
    /\ Has(ToClient, PongFrame) \/ Has(ToServer, PingFrame) => authenticated["client"]

\* The client has begun to say hello.
Said == uuid["client"] \/ mutex["client"] = "hello"

\* An end is closed only when it is down.
ClosedDown == \A e \in Ends : closed[e] => down[e]

\* The connector's end says hello first; the flags of the two ends follow one
\* another.
Flags ==
    /\ announces
    /\ mutex["server"] # "hello"
    /\ mutex["client"] = "hello" => ~uuid["client"]
    /\ mutex["client"] = "request" => uuid["client"]
    /\ mutex["server"] = "request" => registered
    /\ ~busy["client"]
    /\ registered <=> uuid["server"]
    /\ registered => keysMatch /\ uuid["client"] /\ (busy["server"] \/ authenticated["server"])
    /\ busy["server"] => registered /\ ~authenticated["server"]
    /\ authenticated["server"] => registered
    /\ authenticated["client"] => authenticated["server"]
    /\ encoder["server"] = "authentication"
    /\ decoder["client"] = "authentication"
    /\ encoder["client"] = "normal_data" => uuid["client"]
    /\ authenticated["server"] => decoder["server"] = "normal_data"

\* The client's hello travels ahead of all that the client sends, and until the
\* server has accepted it, it is under way or one of the ends is down.
HelloOfClient ==
    /\ Leads(ClientQueue, Out(ClientHello), ClientTasks)
    /\ Leads(ToServer, ClientHello, ServerFrames)
    /\ Leads(ServerQueue, In(ClientHello), ServerTasks)
    /\ Has(ClientQueue, Out(ClientHello)) =>
            Said /\ ~registered /\ ToServer = <<>> /\ ServerQueue = <<>>
    /\ Has(ToServer, ClientHello) => ~registered /\ ServerQueue = <<>>
    /\ Has(ServerQueue, In(ClientHello)) => ~registered
    /\ ToServer # <<>> \/ ServerQueue # <<>> => uuid["client"]
    /\ ~Said => ClientQueue = <<>>
    /\ Said => \/ encoder["client"] = "normal_data" \/ down["client"]
               \/ Has(ClientQueue, Out(ClientHello))
    /\ Said /\ ~registered =>
            \/ down["client"] \/ down["server"]
            \/ Has(ClientQueue, Out(ClientHello)) \/ Has(ToServer, ClientHello)
            \/ Has(ServerQueue, In(ClientHello))
    /\ ~registered /\ ToServer # <<>> =>
            \/ down["server"] \/ Has(ToServer, ClientHello)
            \/ Has(ServerQueue, In(ClientHello))
    /\ ~registered /\ ServerQueue # <<>> =>
            down["server"] \/ Has(ServerQueue, In(ClientHello))

\* The same of the server's hello, until the client has authenticated.
HelloOfServer ==
    /\ ~registered => ToClient = <<>> /\ Free(ServerQueue, Outs) /\ Free(ClientQueue, Ins)
    /\ Leads(ServerQueue, Out(ServerHello), Outs)
    /\ Leads(ToClient, ServerHello, ClientFrames)
    /\ Leads(ClientQueue, In(ServerHello), Ins)
    /\ Has(ServerQueue, Out(ServerHello)) =>
            ~authenticated["client"] /\ ToClient = <<>> /\ Free(ClientQueue, Ins)
    /\ Has(ToClient, ServerHello) =>
            ~authenticated["client"] /\ authenticated["server"] /\ Free(ClientQueue, Ins)
    /\ Has(ClientQueue, In(ServerHello)) => ~authenticated["client"] /\ authenticated["server"]
    /\ registered /\ ~authenticated["client"] =>
            \/ down["client"] \/ down["server"]
            \/ Has(ServerQueue, Out(ServerHello)) \/ Has(ToClient, ServerHello)
            \/ Has(ClientQueue, In(ServerHello))
    /\ ~authenticated["client"] /\ ToClient # <<>> =>
            down["client"] \/ Has(ToClient, ServerHello) \/ Has(ClientQueue, In(ServerHello))
    /\ ~authenticated["client"] /\ ~Free(ClientQueue, Ins) =>
            down["client"] \/ Has(ClientQueue, In(ServerHello))

HandshakeInv == Contents /\ Flags /\ HelloOfClient /\ HelloOfServer

-------------------------------------------------------------------------------
\* Messages and tasks

\* Tasks and frames of different kinds are different.
LEMMA TaskFacts ==
  /\ \A m, n : Out(m) # In(n) /\ (Out(m) = Out(n) => m = n) /\ (In(m) = In(n) => m = n)
  /\ \A m : Out(m) \notin Ins /\ In(m) \notin Outs
  /\ ClientHello # ServerHello /\ ClientHello \notin User /\ ServerHello \notin User
  /\ \A m \in User : Out(m) \in Outs /\ Out(m) \in ClientTasks /\ Out(m) \in ServerTasks
  /\ Out(ClientHello) \in ClientTasks /\ Out(ClientHello) \in Outs
  /\ Out(ServerHello) \in ServerTasks /\ Out(ServerHello) \in Outs
  /\ In(ClientHello) \in ServerTasks /\ In(ClientHello) \in Ins
  /\ In(ServerHello) \in ClientTasks /\ In(ServerHello) \in Ins
BY DEF Out, In, Ins, Outs, ClientHello, ServerHello, Hello, User, ClientTasks, ServerTasks

\* Frames of different kinds are different, and what tasks they become.
LEMMA FrameFacts ==
  /\ \A seed : \A m \in EncodedWith(seed) :
        m # ClientHello /\ m # ServerHello /\ m # PingFrame /\ m # PongFrame /\ m \notin Control
  /\ PingFrame # ClientHello /\ PongFrame # ServerHello
  /\ PingFrame \in Control /\ PongFrame \in Control
  /\ ClientHello \notin Control /\ ServerHello \notin Control
  /\ \A m \in EncodedWith("authentication") : In(m) \in ClientTasks /\ In(m) \in Ins
  /\ \A m \in EncodedWith("normal_data") : In(m) \in ServerTasks /\ In(m) \in Ins
BY DEF EncodedWith, Encoded, In, Ins, ClientHello, ServerHello, PingFrame, PongFrame, Control,
       ClientTasks, ServerTasks, Seeds

\* What the workhorse finds at the head of a queue, by direction and kind.
LEMMA ClientTaskKinds ==
  ASSUME NEW t \in ClientTasks
  PROVE  /\ t.dir = "out" /\ t.msg.kind = "client_hello" => t = Out(ClientHello)
         /\ ~(t.dir = "out" /\ t.msg.kind = "server_hello")
         /\ t.dir = "in" /\ t.msg.kind = "server_hello" => t = In(ServerHello)
         /\ ~(t.dir = "in" /\ t.msg.kind = "client_hello")
         /\ t.msg.kind \in {"request", "response"} =>
                /\ t.dir = "out" => t.msg \in User /\ t = Out(t.msg)
                /\ t.dir = "in" => t.msg \in EncodedWith("authentication") /\ t = In(t.msg)
BY DEF ClientTasks, Out, In, ClientHello, ServerHello, User, EncodedWith

\* The same at the other end.
LEMMA ServerTaskKinds ==
  ASSUME NEW t \in ServerTasks
  PROVE  /\ t.dir = "in" /\ t.msg.kind = "client_hello" => t = In(ClientHello)
         /\ ~(t.dir = "in" /\ t.msg.kind = "server_hello")
         /\ t.dir = "out" /\ t.msg.kind = "server_hello" => t = Out(ServerHello)
         /\ ~(t.dir = "out" /\ t.msg.kind = "client_hello")
         /\ t.msg.kind \in {"request", "response"} =>
                /\ t.dir = "out" => t.msg \in User /\ t = Out(t.msg)
                /\ t.dir = "in" => t.msg \in EncodedWith("normal_data") /\ t = In(t.msg)
BY DEF ServerTasks, Out, In, ClientHello, ServerHello, User, EncodedWith

-------------------------------------------------------------------------------
\* The handshake, step by step

\* Steps that touch neither queues nor wires nor the flags of the handshake, but
\* may shut an end down.
LEMMA QuietStep ==
  ASSUME HandshakeInv, UNCHANGED <<handshakeVars, camp, wire>>,
         \A e \in Ends : down[e] => down'[e],
         mutex'["server"] # "hello",
         mutex'["client"] = "hello" <=> mutex["client"] = "hello",
         mutex'["client"] = "request" => uuid["client"],
         mutex'["server"] = "request" => registered
  PROVE  HandshakeInv'
<1> USE DEF HandshakeInv
<1>1. /\ ClientQueue' = ClientQueue /\ ServerQueue' = ServerQueue
      /\ ToClient' = ToClient /\ ToServer' = ToServer
      /\ uuid' = uuid /\ authenticated' = authenticated /\ busy' = busy
      /\ encoder' = encoder /\ decoder' = decoder
      /\ (registered' <=> registered) /\ (keysMatch' <=> keysMatch) /\ (announces' <=> announces)
      /\ (Said' <=> Said)
  BY DEF ClientQueue, ServerQueue, ToClient, ToServer, handshakeVars, Said
<1>2. {"client", "server"} = Ends
  BY DEF Ends
<1>3. Contents'
  BY <1>1 DEF Contents
<1>4. Flags'
  BY <1>1, <1>2 DEF Flags
<1>5. HelloOfClient'
  BY <1>1, <1>2 DEF HelloOfClient
<1>6. HelloOfServer'
  BY <1>1, <1>2 DEF HelloOfServer
<1> QED BY <1>3, <1>4, <1>5, <1>6

\* The hello is put into the queue.
LEMMA SayHelloStep ==
  ASSUME TypeOK, HandshakeInv, SayHello
  PROVE  HandshakeInv'
<1> USE DEF HandshakeInv
<1>1. /\ ~Said /\ Said' /\ ~uuid["client"] /\ mutex["client"] = "free"
      /\ mutex'["client"] = "hello" /\ mutex'["server"] = mutex["server"]
      /\ ClientQueue' = Append(ClientQueue, Out(ClientHello))
      /\ ServerQueue' = ServerQueue /\ ToClient' = ToClient /\ ToServer' = ToServer
      /\ uuid' = uuid /\ authenticated' = authenticated /\ busy' = busy
      /\ encoder' = encoder /\ decoder' = decoder /\ down' = down /\ closed' = closed
      /\ (registered' <=> registered) /\ (keysMatch' <=> keysMatch) /\ (announces' <=> announces)
  BY DEF SayHello, MutexFree, TypeOK, Ends, launch_deflate_and_send, Said, ClientQueue, ServerQueue,
         ToClient, ToServer, handshakeVars
<1>2. ClientQueue = <<>> /\ ToServer = <<>> /\ ServerQueue = <<>> /\ ~registered
  BY <1>1 DEF HelloOfClient, Flags
<1>3. /\ ClientQueue' \in Seq(ClientTasks) /\ ClientQueue' # <<>>
      /\ \A x : Has(ClientQueue', x) <=> x = Out(ClientHello)
      /\ Free(ClientQueue', Ins)
      /\ Leads(ClientQueue', Out(ClientHello), ClientTasks)
      /\ Leads(ClientQueue', In(ServerHello), Ins)
  <2>1. <<>> \in Seq(ClientTasks)
    BY EmptySeq
  <2>2. ClientQueue' = Append(<<>>, Out(ClientHello))
    BY <1>1, <1>2
  <2>3. ClientQueue' \in Seq(ClientTasks) /\ Puts(<<>>, Out(ClientHello), ClientQueue')
    BY <2>1, <2>2, AppendPuts, TaskFacts
  <2> QED BY <2>3, EmptyFacts, TaskFacts DEF Puts
<1>4. Contents'
  BY <1>1, <1>3 DEF Contents
<1>5. Flags'
  BY <1>1 DEF Flags
<1>6. HelloOfClient'
  BY <1>1, <1>2, <1>3 DEF HelloOfClient
<1>7. HelloOfServer'
  BY <1>1, <1>2, <1>3, EmptyFacts, TaskFacts DEF HelloOfServer
<1> QED BY <1>4, <1>5, <1>6, <1>7

\* The UUID is set.
LEMMA HelloSaidStep ==
  ASSUME TypeOK, HandshakeInv, HelloSaid
  PROVE  HandshakeInv'
<1> USE DEF HandshakeInv
<1>1. /\ Said /\ Said' /\ uuid'["client"] /\ uuid'["server"] = uuid["server"]
      /\ mutex'["client"] = "free" /\ mutex'["server"] = mutex["server"]
      /\ ClientQueue' = ClientQueue /\ ServerQueue' = ServerQueue
      /\ ToClient' = ToClient /\ ToServer' = ToServer
      /\ authenticated' = authenticated /\ busy' = busy
      /\ encoder' = encoder /\ decoder' = decoder /\ down' = down /\ closed' = closed
      /\ (registered' <=> registered) /\ (keysMatch' <=> keysMatch) /\ (announces' <=> announces)
  BY DEF HelloSaid, TypeOK, Ends, Said, ClientQueue, ServerQueue, ToClient, ToServer
<1>2. Contents'
  BY <1>1 DEF Contents
<1>3. Flags'
  BY <1>1 DEF Flags
<1>4. HelloOfClient'
  BY <1>1 DEF HelloOfClient
<1>5. HelloOfServer'
  BY <1>1 DEF HelloOfServer
<1> QED BY <1>2, <1>3, <1>4, <1>5

\* A request or a response is put into the queue of an end that has said hello.
LEMMA SendUserStep ==
  ASSUME TypeOK, HandshakeInv, NEW e \in Ends, NEW m \in User, launch_deflate_and_send(e, m),
         e = "client" => uuid["client"], e = "server" => registered,
         UNCHANGED <<handshakeVars, wire, down, closed>>,
         mutex'["server"] # "hello",
         mutex'["client"] = "hello" <=> mutex["client"] = "hello",
         mutex'["client"] = "request" => uuid["client"],
         mutex'["server"] = "request" => registered
  PROVE  HandshakeInv'
<1> USE DEF HandshakeInv
<1>1. /\ ToClient' = ToClient /\ ToServer' = ToServer
      /\ uuid' = uuid /\ authenticated' = authenticated /\ busy' = busy
      /\ encoder' = encoder /\ decoder' = decoder /\ down' = down /\ closed' = closed
      /\ (registered' <=> registered) /\ (keysMatch' <=> keysMatch) /\ (announces' <=> announces)
      /\ (Said' <=> Said)
  BY DEF ToClient, ToServer, handshakeVars, Said
<1>2. Flags'
  BY <1>1 DEF Flags
<1>3. CASE e = "client"
  <2>1. ClientQueue' = Append(ClientQueue, Out(m)) /\ ServerQueue' = ServerQueue
    BY <1>3 DEF launch_deflate_and_send, TypeOK, Ends, ClientQueue, ServerQueue
  <2>2. ClientQueue' \in Seq(ClientTasks) /\ Puts(ClientQueue, Out(m), ClientQueue')
    BY <2>1, AppendPuts, TaskFacts DEF Contents
  <2>3. Contents'
    BY <1>1, <2>1, <2>2 DEF Contents
  <2>4. HelloOfClient'
    BY <1>1, <1>3, <2>1, <2>2, TaskFacts DEF HelloOfClient, Puts, Said
  <2>5. HelloOfServer'
    BY <1>1, <2>1, <2>2, TaskFacts DEF HelloOfServer, Puts
  <2> QED BY <1>2, <2>3, <2>4, <2>5
<1>4. CASE e = "server"
  <2>1. ServerQueue' = Append(ServerQueue, Out(m)) /\ ClientQueue' = ClientQueue
    BY <1>4 DEF launch_deflate_and_send, TypeOK, Ends, ClientQueue, ServerQueue
  <2>2. ServerQueue' \in Seq(ServerTasks) /\ Puts(ServerQueue, Out(m), ServerQueue')
    BY <2>1, AppendPuts, TaskFacts DEF Contents
  <2>3. Contents'
    BY <1>1, <2>1, <2>2 DEF Contents
  <2>4. HelloOfClient'
    BY <1>1, <1>4, <2>1, <2>2, TaskFacts DEF HelloOfClient, Puts, Flags
  <2>5. HelloOfServer'
    BY <1>1, <1>4, <2>1, <2>2, TaskFacts DEF HelloOfServer, Puts
  <2> QED BY <1>2, <2>3, <2>4, <2>5
<1> QED BY <1>3, <1>4 DEF Ends

\* The client's timer sends a PING: both ends have authenticated.
LEMMA PingStep ==
  ASSUME TypeOK, HandshakeInv, Ping
  PROVE  HandshakeInv'
<1> USE DEF HandshakeInv
<1>1. /\ authenticated["client"] /\ ~down["client"]
      /\ ClientQueue' = ClientQueue /\ ServerQueue' = ServerQueue /\ ToClient' = ToClient
      /\ mutex' = mutex
      /\ uuid' = uuid /\ authenticated' = authenticated /\ busy' = busy
      /\ encoder' = encoder /\ decoder' = decoder /\ down' = down /\ closed' = closed
      /\ (registered' <=> registered) /\ (keysMatch' <=> keysMatch) /\ (announces' <=> announces)
      /\ (Said' <=> Said)
      /\ ToServer' = ToServer \/ ToServer' = Append(ToServer, PingFrame)
  BY DEF Ping, SendFrame, Peer, TypeOK, Ends, ClientQueue, ServerQueue, ToClient, ToServer,
         handshakeVars, Said, PingFrame
<1>2. registered /\ uuid["client"]
  BY <1>1 DEF Flags
<1>3. ToServer' = ToServer \/ Puts(ToServer, PingFrame, ToServer')
  BY <1>1, AppendPuts DEF Contents, ServerFrames
<1>4. ToServer' \in Seq(ServerFrames)
  BY <1>1, AppendPuts DEF Contents, ServerFrames
<1>5. Contents'
  BY <1>1, <1>4 DEF Contents
<1>6. Flags'
  BY <1>1 DEF Flags
<1>7. HelloOfClient'
  BY <1>1, <1>2, <1>3, FrameFacts DEF HelloOfClient, Puts
<1>8. HelloOfServer'
  BY <1>1, <1>3 DEF HelloOfServer
<1> QED BY <1>5, <1>6, <1>7, <1>8

\* The workhorse is done with a task that is no hello, or shuts the end down.
LEMMA TakeTaskStep ==
  ASSUME TypeOK, HandshakeInv, NEW e \in Ends, camp[e] # <<>>, CampDone(e),
         UNCHANGED <<handshakeVars, wire, mutex, closed>>,
         \A d \in Ends : down[d] => down'[d],
         \/ down'[e]
         \/ Head(camp[e]).msg.kind \in {"request", "response"}
  PROVE  HandshakeInv'
<1> USE DEF HandshakeInv
<1>1. /\ ToClient' = ToClient /\ ToServer' = ToServer /\ mutex' = mutex
      /\ uuid' = uuid /\ authenticated' = authenticated /\ busy' = busy
      /\ encoder' = encoder /\ decoder' = decoder /\ closed' = closed
      /\ (registered' <=> registered) /\ (keysMatch' <=> keysMatch) /\ (announces' <=> announces)
      /\ (Said' <=> Said)
      /\ \A d \in {"client", "server"} : down[d] => down'[d]
  BY DEF ToClient, ToServer, handshakeVars, Said, Ends
<1>2. Flags'
  BY <1>1 DEF Flags, Ends
<1>3. CASE e = "client"
  <2>1. /\ ClientQueue # <<>> /\ ServerQueue' = ServerQueue
        /\ ClientQueue' = Tail(ClientQueue)
        /\ down'["client"] \/ Head(ClientQueue).msg.kind \in {"request", "response"}
    BY <1>3 DEF CampDone, TypeOK, Ends, ClientQueue, ServerQueue
  <2>2. /\ ClientQueue' \in Seq(ClientTasks) /\ Head(ClientQueue) \in ClientTasks
        /\ Drops(ClientQueue, Head(ClientQueue), ClientQueue')
    BY <2>1, TailDrops DEF Contents
  <2>3. \/ down'["client"]
        \/ Head(ClientQueue) # Out(ClientHello) /\ Head(ClientQueue) # In(ServerHello)
    BY <2>1 DEF Out, In, ClientHello, ServerHello
  <2>4. Contents'
    BY <1>1, <2>1, <2>2 DEF Contents
  <2>5. HelloOfClient'
    BY <1>1, <2>1, <2>2, <2>3 DEF HelloOfClient, Drops
  <2>6. HelloOfServer'
    BY <1>1, <2>1, <2>2, <2>3 DEF HelloOfServer, Drops
  <2> QED BY <1>2, <2>4, <2>5, <2>6
<1>4. CASE e = "server"
  <2>1. /\ ServerQueue # <<>> /\ ClientQueue' = ClientQueue
        /\ ServerQueue' = Tail(ServerQueue)
        /\ down'["server"] \/ Head(ServerQueue).msg.kind \in {"request", "response"}
    BY <1>4 DEF CampDone, TypeOK, Ends, ClientQueue, ServerQueue
  <2>2. /\ ServerQueue' \in Seq(ServerTasks) /\ Head(ServerQueue) \in ServerTasks
        /\ Drops(ServerQueue, Head(ServerQueue), ServerQueue')
    BY <2>1, TailDrops DEF Contents
  <2>3. \/ down'["server"]
        \/ Head(ServerQueue) # In(ClientHello) /\ Head(ServerQueue) # Out(ServerHello)
    BY <2>1 DEF Out, In, ClientHello, ServerHello
  <2>4. Contents'
    BY <1>1, <2>1, <2>2 DEF Contents
  <2>5. HelloOfClient'
    BY <1>1, <2>1, <2>2, <2>3 DEF HelloOfClient, Drops
  <2>6. HelloOfServer'
    BY <1>1, <2>1, <2>2, <2>3 DEF HelloOfServer, Drops
  <2> QED BY <1>2, <2>4, <2>5, <2>6
<1> QED BY <1>3, <1>4 DEF Ends

\* A request or a response is encoded and sent.
LEMMA DeflateUserStep ==
  ASSUME TypeOK, ClosedDown, HandshakeInv, NEW e \in Ends, NEW kind \in {"request", "response"},
         DeflateUser(e, kind)
  PROVE  HandshakeInv'
<1> USE DEF HandshakeInv
<1>1. /\ mutex' = mutex
      /\ uuid' = uuid /\ authenticated' = authenticated /\ busy' = busy
      /\ encoder' = encoder /\ decoder' = decoder /\ down' = down /\ closed' = closed
      /\ (registered' <=> registered) /\ (keysMatch' <=> keysMatch) /\ (announces' <=> announces)
      /\ (Said' <=> Said)
  BY DEF DeflateUser, handshakeVars, Said
<1>2. Flags'
  BY <1>1 DEF Flags
<1> DEFINE f == [kind |-> kind, serial |-> HeadMsg(e).serial, seed |-> encoder[e]]
<1>3. CASE e = "client"
  <2>1. /\ ~down["client"] /\ ClientQueue # <<>>
        /\ Head(ClientQueue).dir = "out" /\ Head(ClientQueue).msg.kind = kind
        /\ ClientQueue' = Tail(ClientQueue) /\ ServerQueue' = ServerQueue
        /\ ToClient' = ToClient
        /\ \/ closed["server"] /\ ToServer' = ToServer
           \/ ToServer' = Append(ToServer, f)
    BY <1>3 DEF DeflateUser, Takes, CampDone, SendFrame, Peer, TypeOK, Ends, ClientQueue,
                ServerQueue, ToClient, ToServer
  <2>2. /\ ClientQueue' \in Seq(ClientTasks) /\ Head(ClientQueue) \in ClientTasks
        /\ Drops(ClientQueue, Head(ClientQueue), ClientQueue')
    BY <2>1, TailDrops DEF Contents
  <2>3. Head(ClientQueue).msg \in User /\ Head(ClientQueue) = Out(Head(ClientQueue).msg)
    BY <2>1, <2>2, ClientTaskKinds
  <2>4. Head(ClientQueue) # Out(ClientHello) /\ Head(ClientQueue) # In(ServerHello)
    BY <2>3, TaskFacts
  <2>5. ~Has(ClientQueue, Out(ClientHello))
    BY <2>2, <2>4 DEF HelloOfClient, Drops
  <2>6. uuid["client"] /\ encoder["client"] = "normal_data"
    <3>1. Said
      BY <2>1 DEF HelloOfClient
    <3>2. encoder["client"] = "normal_data"
      BY <2>1, <2>5, <3>1 DEF HelloOfClient
    <3>3. uuid["client"]
      BY <3>2 DEF Flags
    <3> QED BY <3>2, <3>3
  <2>7. f \in EncodedWith("normal_data")
    BY <1>3, <2>3, <2>6 DEF HeadMsg, ClientQueue, User, EncodedWith
  <2> HIDE DEF f
  <2>8. /\ ToServer' \in Seq(ServerFrames)
        /\ \/ down["server"] /\ ToServer' = ToServer
           \/ Puts(ToServer, f, ToServer')
    <3>1. closed["server"] => down["server"]
      BY DEF ClosedDown, Ends
    <3>2. ToServer \in Seq(ServerFrames) /\ f \in ServerFrames
      BY <2>7 DEF Contents, ServerFrames
    <3> QED BY <2>1, <3>1, <3>2, AppendPuts
  <2>9. f # ClientHello /\ f # PingFrame
    BY <2>7, FrameFacts
  <2>10. Contents'
    BY <1>1, <2>1, <2>2, <2>8, <2>9 DEF Contents, Puts
  <2>11. HelloOfClient'
    BY <1>1, <2>1, <2>2, <2>4, <2>5, <2>6, <2>8, <2>9 DEF HelloOfClient, Drops, Puts
  <2>12. HelloOfServer'
    BY <1>1, <2>1, <2>2, <2>4 DEF HelloOfServer, Drops
  <2> QED BY <1>2, <2>10, <2>11, <2>12
<1>4. CASE e = "server"
  <2>1. /\ ~down["server"] /\ ServerQueue # <<>>
        /\ Head(ServerQueue).dir = "out" /\ Head(ServerQueue).msg.kind = kind
        /\ ServerQueue' = Tail(ServerQueue) /\ ClientQueue' = ClientQueue
        /\ ToServer' = ToServer
        /\ \/ closed["client"] /\ ToClient' = ToClient
           \/ ToClient' = Append(ToClient, f)
    BY <1>4 DEF DeflateUser, Takes, CampDone, SendFrame, Peer, TypeOK, Ends, ClientQueue,
                ServerQueue, ToClient, ToServer
  <2>2. /\ ServerQueue' \in Seq(ServerTasks) /\ Head(ServerQueue) \in ServerTasks
        /\ Drops(ServerQueue, Head(ServerQueue), ServerQueue')
    BY <2>1, TailDrops DEF Contents
  <2>3. Head(ServerQueue).msg \in User /\ Head(ServerQueue) = Out(Head(ServerQueue).msg)
    BY <2>1, <2>2, ServerTaskKinds
  <2>4. /\ Head(ServerQueue) # In(ClientHello) /\ Head(ServerQueue) # Out(ServerHello)
        /\ Head(ServerQueue) \in Outs
    BY <2>3, TaskFacts
  <2>5. registered /\ ~Has(ServerQueue, Out(ServerHello))
    BY <2>2, <2>4 DEF HelloOfServer, Drops
  <2>6. f \in EncodedWith("authentication")
    BY <1>4, <2>3 DEF HeadMsg, ServerQueue, User, EncodedWith, Flags
  <2> HIDE DEF f
  <2>7. /\ ToClient' \in Seq(ClientFrames)
        /\ \/ down["client"] /\ ToClient' = ToClient
           \/ Puts(ToClient, f, ToClient')
    <3>1. closed["client"] => down["client"]
      BY DEF ClosedDown, Ends
    <3>2. ToClient \in Seq(ClientFrames) /\ f \in ClientFrames
      BY <2>6 DEF Contents, ClientFrames
    <3> QED BY <2>1, <3>1, <3>2, AppendPuts
  <2>8. f # ServerHello /\ f # PongFrame
    BY <2>6, FrameFacts
  <2>9. Contents'
    BY <1>1, <2>1, <2>2, <2>7, <2>8 DEF Contents, Puts
  <2>10. HelloOfClient'
    BY <1>1, <2>1, <2>2, <2>4, <2>5 DEF HelloOfClient, Drops
  <2>11. HelloOfServer'
    BY <1>1, <2>1, <2>2, <2>4, <2>5, <2>7, <2>8 DEF HelloOfServer, Drops, Puts
  <2> QED BY <1>2, <2>9, <2>10, <2>11
<1> QED BY <1>3, <1>4 DEF Ends

\* A hello is sent.  Its sender has set the UUID by then: m_mutex is free.
LEMMA DeflateHelloStep ==
  ASSUME TypeOK, ClosedDown, HandshakeInv, NEW e \in Ends, NEW kind \in {"client_hello", "server_hello"},
         DeflateHello(e, kind)
  PROVE  HandshakeInv' /\ UNCHANGED <<down, faults>>
<1> USE DEF HandshakeInv
<1>1. /\ ~down[e] /\ ~busy[e] /\ mutex[e] = "free" /\ mutex' = mutex
      /\ uuid' = uuid /\ authenticated' = authenticated /\ busy' = busy
      /\ decoder' = decoder /\ closed' = closed
      /\ (registered' <=> registered) /\ (keysMatch' <=> keysMatch) /\ (announces' <=> announces)
      /\ (Said' <=> Said)
  BY DEF DeflateHello, Takes, MutexFree, Said
<1>2. CASE e = "client"
  <2>1. /\ ClientQueue # <<>>
        /\ Head(ClientQueue).dir = "out" /\ Head(ClientQueue).msg.kind = kind
        /\ ClientQueue' = Tail(ClientQueue) /\ ServerQueue' = ServerQueue
    BY <1>2 DEF DeflateHello, Takes, CampDone, TypeOK, Ends, ClientQueue, ServerQueue
  <2>2. /\ ClientQueue' \in Seq(ClientTasks) /\ Head(ClientQueue) \in ClientTasks
        /\ Drops(ClientQueue, Head(ClientQueue), ClientQueue')
    BY <2>1, TailDrops DEF Contents
  <2>3. kind = "client_hello" /\ Head(ClientQueue) = Out(ClientHello)
    BY <2>1, <2>2, ClientTaskKinds
  <2>4. /\ ~registered /\ ToServer = <<>> /\ ServerQueue = <<>> /\ uuid["client"]
        /\ ~Has(ClientQueue', Out(ClientHello)) /\ ~authenticated["client"]
    BY <1>1, <1>2, <2>2, <2>3, TaskFacts DEF HelloOfClient, Drops, Said, Flags
  <2>5. HeadMsg(e) = ClientHello
    BY <1>2, <2>3 DEF HeadMsg, ClientQueue, Out
  <2>6. /\ down' = down /\ faults' = faults
        /\ encoder' = [encoder EXCEPT !["client"] = "normal_data"]
        /\ SendFrame(e, ClientHello)
    BY <1>2, <2>3, <2>4, <2>5 DEF DeflateHello
  <2>7. encoder'["client"] = "normal_data" /\ encoder'["server"] = encoder["server"]
    BY <2>6 DEF TypeOK, Ends
  <2>8. /\ ToClient' = ToClient
        /\ \/ closed["server"] /\ ToServer' = ToServer
           \/ ToServer' = Append(<<>>, ClientHello)
    BY <1>2, <2>4, <2>6 DEF SendFrame, Peer, TypeOK, Ends, ToClient, ToServer
  <2>9. /\ ToServer' \in Seq(ServerFrames)
        /\ \/ down["server"] /\ ToServer' = ToServer
           \/ Puts(<<>>, ClientHello, ToServer')
    <3>1. closed["server"] => down["server"]
      BY DEF ClosedDown, Ends
    <3>2. <<>> \in Seq(ServerFrames) /\ ClientHello \in ServerFrames
      BY EmptySeq DEF ServerFrames
    <3> QED BY <2>4, <2>8, <3>1, <3>2, AppendPuts
  <2>10. Contents'
    BY <1>1, <2>1, <2>2, <2>4, <2>8, <2>9, EmptyFacts, FrameFacts DEF Contents, Puts
  <2>11. Flags'
    BY <1>1, <2>4, <2>6, <2>7 DEF Flags
  <2>12. HelloOfClient'
    BY <1>1, <2>1, <2>2, <2>4, <2>6, <2>7, <2>9, EmptyFacts DEF HelloOfClient, Drops, Puts
  <2>13. HelloOfServer'
    BY <1>1, <2>1, <2>2, <2>3, <2>4, <2>6, <2>8, TaskFacts DEF HelloOfServer, Drops
  <2> QED BY <2>6, <2>10, <2>11, <2>12, <2>13
<1>3. CASE e = "server"
  <2>1. /\ ServerQueue # <<>>
        /\ Head(ServerQueue).dir = "out" /\ Head(ServerQueue).msg.kind = kind
        /\ ServerQueue' = Tail(ServerQueue) /\ ClientQueue' = ClientQueue
    BY <1>3 DEF DeflateHello, Takes, CampDone, TypeOK, Ends, ClientQueue, ServerQueue
  <2>2. /\ ServerQueue' \in Seq(ServerTasks) /\ Head(ServerQueue) \in ServerTasks
        /\ Drops(ServerQueue, Head(ServerQueue), ServerQueue')
    BY <2>1, TailDrops DEF Contents
  <2>3. kind = "server_hello" /\ Head(ServerQueue) = Out(ServerHello)
    BY <2>1, <2>2, ServerTaskKinds
  <2>4. /\ registered /\ uuid["server"] /\ authenticated["server"] /\ ~authenticated["client"]
        /\ ToClient = <<>> /\ Free(ClientQueue, Ins) /\ ~Has(ServerQueue', Out(ServerHello))
    BY <1>1, <1>3, <2>2, <2>3, TaskFacts DEF HelloOfServer, Drops, Flags
  <2>5. HeadMsg(e) = ServerHello
    BY <1>3, <2>3 DEF HeadMsg, ServerQueue, Out
  <2>6. down' = down /\ faults' = faults /\ encoder' = encoder /\ SendFrame(e, ServerHello)
    BY <1>3, <2>3, <2>4, <2>5 DEF DeflateHello
  <2>7. /\ ToServer' = ToServer
        /\ \/ closed["client"] /\ ToClient' = ToClient
           \/ ToClient' = Append(<<>>, ServerHello)
    BY <1>3, <2>4, <2>6 DEF SendFrame, Peer, TypeOK, Ends, ToClient, ToServer
  <2>8. /\ ToClient' \in Seq(ClientFrames)
        /\ \/ down["client"] /\ ToClient' = ToClient
           \/ Puts(<<>>, ServerHello, ToClient')
    <3>1. closed["client"] => down["client"]
      BY DEF ClosedDown, Ends
    <3>2. <<>> \in Seq(ClientFrames) /\ ServerHello \in ClientFrames
      BY EmptySeq DEF ClientFrames
    <3> QED BY <2>4, <2>7, <3>1, <3>2, AppendPuts
  <2>9. Contents'
    BY <1>1, <2>1, <2>2, <2>4, <2>7, <2>8, EmptyFacts, FrameFacts DEF Contents, Puts
  <2>10. Flags'
    BY <1>1, <2>6 DEF Flags
  <2>11. HelloOfClient'
    BY <1>1, <2>1, <2>2, <2>3, <2>4, <2>6, <2>7, TaskFacts DEF HelloOfClient, Drops
  <2>12. HelloOfServer'
    BY <1>1, <2>1, <2>2, <2>4, <2>6, <2>8, EmptyFacts DEF HelloOfServer, Drops, Puts
  <2> QED BY <2>6, <2>9, <2>10, <2>11, <2>12
<1> QED BY <1>2, <1>3 DEF Ends

\* The server accepts the client's hello, for the first time, and answers it.
LEMMA AcceptStep ==
  ASSUME TypeOK, HandshakeInv, server_accept_hello
  PROVE  HandshakeInv' /\ UNCHANGED <<down, faults>>
<1> USE DEF HandshakeInv
<1>1. /\ ServerQueue # <<>> /\ ~busy["server"] /\ keysMatch
      /\ Head(ServerQueue).dir = "in" /\ Head(ServerQueue).msg.kind = "client_hello"
      /\ mutex' = mutex /\ authenticated' = authenticated
      /\ encoder' = encoder /\ decoder' = decoder /\ closed' = closed
      /\ (keysMatch' <=> keysMatch) /\ (announces' <=> announces)
      /\ ToClient' = ToClient /\ ToServer' = ToServer
  BY DEF server_accept_hello, Takes, ChecksumVerifies, ServerQueue, ToClient, ToServer
<1> DEFINE rest == Tail(ServerQueue)
<1>2. /\ rest \in Seq(ServerTasks) /\ Head(ServerQueue) \in ServerTasks
      /\ Drops(ServerQueue, Head(ServerQueue), rest)
  BY <1>1, TailDrops DEF Contents
<1>3. Head(ServerQueue) = In(ClientHello)
  BY <1>1, <1>2, ServerTaskKinds
<1>4. /\ ~registered /\ ~uuid["server"] /\ uuid["client"] /\ ~authenticated["client"]
      /\ ~authenticated["server"] /\ ~Has(rest, In(ClientHello)) /\ Free(rest, Outs)
      /\ ToClient = <<>> /\ Free(ClientQueue, Ins)
      /\ ~Has(ClientQueue, Out(ClientHello)) /\ ~Has(ToServer, ClientHello)
  BY <1>1, <1>2, <1>3, TaskFacts DEF HelloOfClient, HelloOfServer, Drops, Flags
<1>5. /\ camp' = [camp EXCEPT !["server"] = Append(Tail(@), Out(ServerHello))]
      /\ uuid' = [uuid EXCEPT !["server"] = TRUE]
      /\ registered' = TRUE
      /\ busy' = [busy EXCEPT !["server"] = TRUE]
      /\ down' = down /\ faults' = faults
  BY <1>4 DEF server_accept_hello
<1>6. /\ ServerQueue' = Append(rest, Out(ServerHello)) /\ ClientQueue' = ClientQueue
      /\ uuid'["server"] /\ uuid'["client"] = uuid["client"]
      /\ busy'["server"] /\ busy'["client"] = busy["client"]
  BY <1>5 DEF TypeOK, Ends, ServerQueue, ClientQueue
<1> HIDE DEF rest
<1>7. ServerQueue' \in Seq(ServerTasks) /\ Puts(rest, Out(ServerHello), ServerQueue')
  BY <1>2, <1>6, AppendPuts, TaskFacts
<1>8. Said /\ Said'
  BY <1>4, <1>6 DEF Said
<1>9. Contents'
  BY <1>1, <1>6, <1>7 DEF Contents
<1>10. Flags'
  BY <1>1, <1>4, <1>5, <1>6 DEF Flags
<1>11. HelloOfClient'
  BY <1>1, <1>2, <1>4, <1>5, <1>6, <1>7, <1>8, TaskFacts DEF HelloOfClient, Drops, Puts
<1>12. HelloOfServer'
  BY <1>1, <1>2, <1>4, <1>5, <1>6, <1>7, TaskFacts DEF HelloOfServer, Drops, Puts
<1> QED BY <1>5, <1>9, <1>10, <1>11, <1>12

\* The server seeds its decoder and is authenticated.
LEMMA AuthenticateStep ==
  ASSUME TypeOK, HandshakeInv, Authenticate
  PROVE  HandshakeInv'
<1> USE DEF HandshakeInv
<1>1. /\ registered /\ busy["server"] /\ mutex' = mutex /\ uuid' = uuid
      /\ encoder' = encoder /\ closed' = closed /\ down' = down
      /\ (keysMatch' <=> keysMatch) /\ (announces' <=> announces)
      /\ (registered' <=> registered) /\ (Said' <=> Said)
      /\ ClientQueue' = ClientQueue /\ ServerQueue' = ServerQueue
      /\ ToClient' = ToClient /\ ToServer' = ToServer
      /\ authenticated'["server"] /\ authenticated'["client"] = authenticated["client"]
      /\ decoder'["server"] = "normal_data" /\ decoder'["client"] = decoder["client"]
      /\ ~busy'["server"] /\ busy'["client"] = busy["client"]
  BY DEF Authenticate, Flags, TypeOK, Ends, Said, ClientQueue, ServerQueue, ToClient, ToServer
<1>2. Contents'
  BY <1>1 DEF Contents
<1>3. Flags'
  BY <1>1 DEF Flags
<1>4. HelloOfClient'
  BY <1>1 DEF HelloOfClient
<1>5. HelloOfServer'
  BY <1>1 DEF HelloOfServer
<1> QED BY <1>2, <1>3, <1>4, <1>5

\* The client accepts the server's hello, which is the only one.
LEMMA ClientAcceptStep ==
  ASSUME TypeOK, HandshakeInv, client_accept_hello
  PROVE  HandshakeInv' /\ UNCHANGED <<down, faults>>
<1> USE DEF HandshakeInv
<1>1. /\ ClientQueue # <<>>
      /\ Head(ClientQueue).dir = "in" /\ Head(ClientQueue).msg.kind = "server_hello"
      /\ ClientQueue' = Tail(ClientQueue) /\ ServerQueue' = ServerQueue
      /\ mutex' = mutex /\ uuid' = uuid /\ busy' = busy
      /\ encoder' = encoder /\ decoder' = decoder /\ closed' = closed
      /\ (keysMatch' <=> keysMatch) /\ (announces' <=> announces)
      /\ (registered' <=> registered) /\ (Said' <=> Said)
      /\ ToClient' = ToClient /\ ToServer' = ToServer
  BY DEF client_accept_hello, Takes, CampDone, TypeOK, Ends, Said, ClientQueue, ServerQueue,
         ToClient, ToServer
<1>2. /\ ClientQueue' \in Seq(ClientTasks) /\ Head(ClientQueue) \in ClientTasks
      /\ Drops(ClientQueue, Head(ClientQueue), ClientQueue')
  BY <1>1, TailDrops DEF Contents
<1>3. Head(ClientQueue) = In(ServerHello)
  BY <1>1, <1>2, ClientTaskKinds
<1>4. /\ registered /\ uuid["client"] /\ authenticated["server"]
      /\ ~Has(ClientQueue', In(ServerHello)) /\ ~Has(ToClient, ServerHello)
      /\ ~Has(ServerQueue, Out(ServerHello))
  BY <1>2, <1>3, TaskFacts DEF HelloOfServer, Drops, Flags
<1>5. /\ authenticated' = [authenticated EXCEPT !["client"] = TRUE]
      /\ down' = down /\ faults' = faults
  BY <1>4 DEF client_accept_hello
<1>6. authenticated'["client"] /\ authenticated'["server"] = authenticated["server"]
  BY <1>5 DEF TypeOK, Ends
<1>7. Contents'
  BY <1>1, <1>2, <1>6 DEF Contents
<1>8. Flags'
  BY <1>1, <1>4, <1>5, <1>6 DEF Flags
<1>9. HelloOfClient'
  BY <1>1, <1>2, <1>3, <1>4, <1>5, TaskFacts DEF HelloOfClient, Drops
<1>10. HelloOfServer'
  BY <1>1, <1>2, <1>4, <1>5, <1>6 DEF HelloOfServer, Drops
<1> QED BY <1>5, <1>7, <1>8, <1>9, <1>10

\* A message goes from the wire to the workhorse's queue.
LEMMA ReceiveDataStep ==
  ASSUME TypeOK, HandshakeInv, NEW e \in Ends, layer5_on_receive_data(e)
  PROVE  HandshakeInv'
<1> USE DEF HandshakeInv
<1>1. /\ mutex' = mutex /\ uuid' = uuid /\ authenticated' = authenticated /\ busy' = busy
      /\ encoder' = encoder /\ decoder' = decoder /\ closed' = closed /\ down' = down
      /\ (registered' <=> registered) /\ (keysMatch' <=> keysMatch) /\ (announces' <=> announces)
      /\ (Said' <=> Said)
  BY DEF layer5_on_receive_data, handshakeVars, Said
<1>2. Flags'
  BY <1>1 DEF Flags
<1>3. CASE e = "client"
  <2> DEFINE h == Head(ToClient)
  <2>1. /\ ToClient # <<>> /\ h \notin Control
        /\ ToClient' = Tail(ToClient) /\ ToServer' = ToServer
        /\ ClientQueue' = Append(ClientQueue, In(h)) /\ ServerQueue' = ServerQueue
    BY <1>3 DEF layer5_on_receive_data, TypeOK, Ends, ClientQueue, ServerQueue, ToClient, ToServer
  <2>2. h \in ClientFrames /\ ToClient' \in Seq(ClientFrames) /\ Drops(ToClient, h, ToClient')
    BY <2>1, TailDrops DEF Contents
  <2> HIDE DEF h
  <2>3. h = ServerHello \/ h \in EncodedWith("authentication")
    BY <2>1, <2>2, FrameFacts DEF ClientFrames
  <2>4. In(h) \in ClientTasks /\ In(h) \in Ins
    BY <2>3, FrameFacts, TaskFacts
  <2>5. ClientQueue' \in Seq(ClientTasks) /\ Puts(ClientQueue, In(h), ClientQueue')
    BY <2>1, <2>4, AppendPuts DEF Contents
  <2>6. /\ registered /\ uuid["client"] /\ ~Has(ToClient', ServerHello)
        /\ ~Has(ServerQueue, Out(ServerHello))
        /\ h # ServerHello => ~Has(ToClient, ServerHello)
    BY <2>1, <2>2 DEF HelloOfServer, Drops, Flags
  <2>7. In(h) # Out(ClientHello) /\ (In(h) = In(ServerHello) <=> h = ServerHello)
    BY TaskFacts
  <2>8. h = ServerHello => Has(ToClient, ServerHello)
    BY <2>2 DEF Drops
  <2>9. Contents'
    BY <1>1, <2>1, <2>2, <2>5 DEF Contents, Drops
  <2>10. HelloOfClient'
    BY <1>1, <2>1, <2>5, <2>6, <2>7 DEF HelloOfClient, Puts, Said
  <2>11. HelloOfServer'
    BY <1>1, <2>1, <2>2, <2>5, <2>6, <2>7, <2>8 DEF HelloOfServer, Drops, Puts
  <2> QED BY <1>2, <2>9, <2>10, <2>11
<1>4. CASE e = "server"
  <2> DEFINE h == Head(ToServer)
  <2>1. /\ ToServer # <<>> /\ h \notin Control
        /\ ToServer' = Tail(ToServer) /\ ToClient' = ToClient
        /\ ServerQueue' = Append(ServerQueue, In(h)) /\ ClientQueue' = ClientQueue
    BY <1>4 DEF layer5_on_receive_data, TypeOK, Ends, ClientQueue, ServerQueue, ToClient, ToServer
  <2>2. h \in ServerFrames /\ ToServer' \in Seq(ServerFrames) /\ Drops(ToServer, h, ToServer')
    BY <2>1, TailDrops DEF Contents
  <2> HIDE DEF h
  <2>3. h = ClientHello \/ h \in EncodedWith("normal_data")
    BY <2>1, <2>2, FrameFacts DEF ServerFrames
  <2>4. In(h) \in ServerTasks /\ In(h) \in Ins
    BY <2>3, FrameFacts, TaskFacts
  <2>5. ServerQueue' \in Seq(ServerTasks) /\ Puts(ServerQueue, In(h), ServerQueue')
    BY <2>1, <2>4, AppendPuts DEF Contents
  <2>6. /\ uuid["client"] /\ ~Has(ToServer', ClientHello)
        /\ ~Has(ClientQueue, Out(ClientHello))
        /\ h # ClientHello => ~Has(ToServer, ClientHello)
        /\ h = ClientHello => ~registered /\ ServerQueue = <<>>
    BY <2>1, <2>2 DEF HelloOfClient, Drops
  <2>7. /\ In(h) # Out(ServerHello) /\ In(h) \notin Outs
        /\ In(h) = In(ClientHello) <=> h = ClientHello
    BY TaskFacts
  <2>8. Contents'
    BY <1>1, <2>1, <2>2, <2>5 DEF Contents, Drops
  <2>9. HelloOfClient'
    BY <1>1, <2>1, <2>2, <2>5, <2>6, <2>7, EmptyFacts DEF HelloOfClient, Drops, Puts, Said
  <2>10. HelloOfServer'
    BY <1>1, <2>1, <2>5, <2>7 DEF HelloOfServer, Puts
  <2> QED BY <1>2, <2>8, <2>9, <2>10
<1> QED BY <1>3, <1>4 DEF Ends

\* A heartbeat is for an end that has authenticated.
LEMMA HeartbeatStep ==
  ASSUME TypeOK, HandshakeInv, NEW e \in Ends, ReceiveHeartbeat(e),
         UNCHANGED <<handshakeVars, mutex, closed, camp>>
  PROVE  HandshakeInv' /\ UNCHANGED <<down, faults>>
<1> USE DEF HandshakeInv
<1>1. /\ mutex' = mutex /\ uuid' = uuid /\ authenticated' = authenticated /\ busy' = busy
      /\ encoder' = encoder /\ decoder' = decoder /\ closed' = closed
      /\ (registered' <=> registered) /\ (keysMatch' <=> keysMatch) /\ (announces' <=> announces)
      /\ (Said' <=> Said)
      /\ ClientQueue' = ClientQueue /\ ServerQueue' = ServerQueue
      /\ wire[e] # <<>> /\ Head(wire[e]) \in Control
  BY DEF ReceiveHeartbeat, handshakeVars, Said, ClientQueue, ServerQueue
<1>2. CASE e = "client"
  <2> DEFINE h == Head(ToClient)
  <2>1. ToClient # <<>> /\ h \in Control
    BY <1>1, <1>2 DEF ToClient
  <2>2. h \in ClientFrames /\ Tail(ToClient) \in Seq(ClientFrames)
        /\ Drops(ToClient, h, Tail(ToClient))
    BY <2>1, TailDrops DEF Contents
  <2> HIDE DEF h
  <2>3. h = PongFrame
    BY <2>1, <2>2, FrameFacts DEF ClientFrames
  <2>4. authenticated["client"] /\ registered
    BY <2>2, <2>3 DEF Contents, Drops, Flags
  <2>5. Head(wire[e]).kind # "ping"
    BY <1>2, <2>3 DEF h, ToClient, PongFrame
  <2>6. /\ down' = down /\ faults' = faults
        /\ wire' = [wire EXCEPT ![e] = Tail(@)]
    BY <1>2, <2>4, <2>5 DEF ReceiveHeartbeat
  <2>7. ToClient' = Tail(ToClient) /\ ToServer' = ToServer
    BY <1>2, <2>6 DEF TypeOK, Ends, ToClient, ToServer
  <2>8. Contents'
    BY <1>1, <2>2, <2>4, <2>7 DEF Contents
  <2>9. Flags'
    BY <1>1, <2>6 DEF Flags
  <2>10. HelloOfClient'
    BY <1>1, <2>6, <2>7 DEF HelloOfClient
  <2>11. HelloOfServer'
    BY <1>1, <2>2, <2>4, <2>6, <2>7 DEF HelloOfServer, Drops
  <2> QED BY <2>6, <2>8, <2>9, <2>10, <2>11
<1>3. CASE e = "server"
  <2> DEFINE h == Head(ToServer)
  <2>1. ToServer # <<>> /\ h \in Control
    BY <1>1, <1>3 DEF ToServer
  <2>2. h \in ServerFrames /\ Tail(ToServer) \in Seq(ServerFrames)
        /\ Drops(ToServer, h, Tail(ToServer))
    BY <2>1, TailDrops DEF Contents
  <2> HIDE DEF h
  <2>3. h = PingFrame
    BY <2>1, <2>2, FrameFacts DEF ServerFrames
  <2>4. authenticated["client"] /\ authenticated["server"] /\ registered
    BY <2>2, <2>3 DEF Contents, Drops, Flags
  <2>5. /\ down' = down /\ faults' = faults
        /\ \/ wire' = [wire EXCEPT !["server"] = Tail(@), !["client"] = Append(@, PongFrame)]
           \/ wire' = [wire EXCEPT !["server"] = Tail(@)]
    BY <1>3, <2>4 DEF ReceiveHeartbeat, Peer, PongFrame
  <2>6. /\ ToServer' = Tail(ToServer)
        /\ ToClient' = ToClient \/ ToClient' = Append(ToClient, PongFrame)
    BY <2>5 DEF TypeOK, Ends, ToClient, ToServer
  <2>7. /\ ToClient' \in Seq(ClientFrames)
        /\ ToClient' = ToClient \/ Puts(ToClient, PongFrame, ToClient')
    <3>1. ToClient \in Seq(ClientFrames) /\ PongFrame \in ClientFrames
      BY DEF Contents, ClientFrames
    <3> QED BY <2>6, <3>1, AppendPuts
  <2>8. Contents'
    BY <1>1, <2>2, <2>4, <2>6, <2>7 DEF Contents
  <2>9. Flags'
    BY <1>1, <2>5 DEF Flags
  <2>10. HelloOfClient'
    BY <1>1, <2>2, <2>4, <2>5, <2>6 DEF HelloOfClient, Drops
  <2>11. HelloOfServer'
    BY <1>1, <2>4, <2>5, <2>7, FrameFacts DEF HelloOfServer, Puts
  <2> QED BY <2>5, <2>8, <2>9, <2>10, <2>11
<1> QED BY <1>2, <1>3 DEF Ends

\* An end that is down is closed, and what was travelling to it is lost.
LEMMA CloseStep ==
  ASSUME TypeOK, HandshakeInv, NEW e \in Ends, layer4_on_close(e)
  PROVE  HandshakeInv'
<1> USE DEF HandshakeInv
<1>1. /\ down[e] /\ mutex' = mutex /\ down' = down
      /\ uuid' = uuid /\ authenticated' = authenticated /\ busy' = busy
      /\ encoder' = encoder /\ decoder' = decoder
      /\ (registered' <=> registered) /\ (keysMatch' <=> keysMatch) /\ (announces' <=> announces)
      /\ (Said' <=> Said)
      /\ ClientQueue' = ClientQueue /\ ServerQueue' = ServerQueue
  BY DEF layer4_on_close, handshakeVars, Said, ClientQueue, ServerQueue
<1>2. Flags'
  BY <1>1 DEF Flags
<1>3. /\ <<>> \in Seq(ClientFrames) /\ <<>> \in Seq(ServerFrames)
      /\ ToClient' = IF e = "client" THEN <<>> ELSE ToClient
      /\ ToServer' = IF e = "server" THEN <<>> ELSE ToServer
  BY EmptySeq DEF layer4_on_close, TypeOK, Ends, ToClient, ToServer
<1>4. Contents'
  BY <1>1, <1>3, EmptyFacts DEF Contents
<1>5. HelloOfClient'
  BY <1>1, <1>3, EmptyFacts DEF HelloOfClient
<1>6. HelloOfServer'
  BY <1>1, <1>3, EmptyFacts DEF HelloOfServer, Ends
<1> QED BY <1>2, <1>4, <1>5, <1>6

-------------------------------------------------------------------------------
\* Types

Tasks  == Outs \cup Ins
Frames == Hello \cup Control \cup Encoded

\* The workhorse's queues and the wires keep their types.
LEMMA QueueTypes ==
  ASSUME TypeOK, NEW e \in Ends
  PROVE  /\ camp \in [Ends -> Seq(Tasks)] /\ wire \in [Ends -> Seq(Frames)]
         /\ \A y \in Tasks : [camp EXCEPT ![e] = Append(@, y)] \in [Ends -> Seq(Tasks)]
         /\ \A y \in Frames : [wire EXCEPT ![e] = Append(@, y)] \in [Ends -> Seq(Frames)]
         /\ [wire EXCEPT ![e] = <<>>] \in [Ends -> Seq(Frames)]
         /\ camp[e] # <<>> =>
                Head(camp[e]) \in Tasks /\ [camp EXCEPT ![e] = Tail(@)] \in [Ends -> Seq(Tasks)]
         /\ wire[e] # <<>> =>
                Head(wire[e]) \in Frames /\ [wire EXCEPT ![e] = Tail(@)] \in [Ends -> Seq(Frames)]
<1>1. camp \in [Ends -> Seq(Tasks)] /\ wire \in [Ends -> Seq(Frames)]
  BY DEF TypeOK, Tasks, Frames, Outs, Ins
<1>2. camp[e] \in Seq(Tasks) /\ wire[e] \in Seq(Frames)
  BY <1>1
<1>3. /\ \A y \in Tasks : Append(camp[e], y) \in Seq(Tasks)
      /\ \A y \in Frames : Append(wire[e], y) \in Seq(Frames)
  BY <1>2, AppendPuts
<1>4. /\ camp[e] # <<>> => Head(camp[e]) \in Tasks /\ Tail(camp[e]) \in Seq(Tasks)
      /\ wire[e] # <<>> => Head(wire[e]) \in Frames /\ Tail(wire[e]) \in Seq(Frames)
  BY <1>2, TailDrops
<1>5. <<>> \in Seq(Frames)
  BY EmptySeq
<1> QED BY <1>1, <1>3, <1>4, <1>5

\* What is sent is a frame.
LEMMA SendFrameType ==
  ASSUME TypeOK, NEW e \in Ends, NEW f \in Frames, SendFrame(e, f)
  PROVE  wire' \in [Ends -> Seq(Frames)]
<1>1. Peer(e) \in Ends
  BY DEF Peer, Ends
<1>2. wire \in [Ends -> Seq(Frames)]
  BY QueueTypes
<1>3. CASE closed[Peer(e)]
  BY <1>1, <1>2, <1>3 DEF SendFrame
<1>4. CASE ~closed[Peer(e)]
  <2>1. wire' = [wire EXCEPT ![Peer(e)] = Append(@, f)]
    BY <1>4 DEF SendFrame
  <2> QED BY <1>1, <2>1, QueueTypes
<1> QED BY <1>3, <1>4

\* The message at the head of a queue, by direction and kind.
LEMMA HeadTypes ==
  ASSUME TypeOK, NEW e \in Ends, NEW dir, NEW kind, Takes(e, dir, kind)
  PROVE  /\ HeadMsg(e).kind = kind
         /\ kind \in {"request", "response"} =>
                /\ HeadMsg(e).serial \in Serials
                /\ dir = "out" => HeadMsg(e) \in User
                /\ dir = "in" => HeadMsg(e) \in Encoded
         /\ kind \in {"client_hello", "server_hello"} => HeadMsg(e) \in Hello
<1>1. Head(camp[e]) \in Tasks
  BY QueueTypes DEF Takes
<1>2. Head(camp[e]).dir = dir /\ Head(camp[e]).msg.kind = kind
  BY DEF Takes
<1> QED BY <1>1, <1>2 DEF Tasks, Outs, Ins, HeadMsg, Hello, User, Encoded

\* All that the type says, but for queues and wires.
FlagTypes ==
    /\ keysMatch \in BOOLEAN
    /\ announces \in BOOLEAN
    /\ mutex \in [Ends -> {"free", "hello", "request"}]
    /\ uuid \in [Ends -> BOOLEAN]
    /\ authenticated \in [Ends -> BOOLEAN]
    /\ registered \in BOOLEAN
    /\ down \in [Ends -> BOOLEAN]
    /\ closed \in [Ends -> BOOLEAN]
    /\ busy \in [Ends -> BOOLEAN]
    /\ status \in [Ends -> Statuses]
    /\ encoder \in [Ends -> Seeds]
    /\ decoder \in [Ends -> Seeds]
    /\ promises \in [Ends -> SUBSET Serials]
    /\ outcome \in [Ends -> [Serials -> {"unsent", "waiting", "answered", "lost"}]]
    /\ jobs \in [Ends -> SUBSET Serials]
    /\ doomed \in [Ends -> BOOLEAN]
    /\ pings \in 0..MaxPings
    /\ performed \in [Ends -> SUBSET Serials]
    /\ faults \subseteq {"uuid", "hello", "control", "status", "garbled"}

\* Shutting an end down keeps the types, and so does reporting a failure.
LEMMA ShutdownTypes ==
  ASSUME TypeOK, NEW e \in Ends
  PROVE  /\ [down EXCEPT ![e] = TRUE] \in [Ends -> BOOLEAN]
         /\ \A code \in Statuses : StatusAfter(e, code) \in [Ends -> Statuses]
         /\ \A code \in Statuses :
                shutdown(e, code) => down' \in [Ends -> BOOLEAN] /\ status' \in [Ends -> Statuses]
         /\ \A what \in {"uuid", "hello", "control", "status", "garbled"} :
                Fail(e, what) => /\ down' \in [Ends -> BOOLEAN] /\ status' \in [Ends -> Statuses]
                                 /\ faults' \subseteq {"uuid", "hello", "control", "status", "garbled"}
<1>1. /\ down \in [Ends -> BOOLEAN] /\ status \in [Ends -> Statuses] /\ Peer(e) \in Ends
      /\ faults \subseteq {"uuid", "hello", "control", "status", "garbled"}
  BY DEF TypeOK, Peer, Ends
<1>2. [down EXCEPT ![e] = TRUE] \in [Ends -> BOOLEAN]
  BY <1>1
<1>3. \A code \in Statuses : StatusAfter(e, code) \in [Ends -> Statuses]
  BY <1>1 DEF StatusAfter
<1>4. \A code \in Statuses :
         shutdown(e, code) => down' \in [Ends -> BOOLEAN] /\ status' \in [Ends -> Statuses]
  BY <1>2, <1>3 DEF shutdown
<1>5. "error" \in Statuses
  BY DEF Statuses
<1> QED BY <1>1, <1>2, <1>3, <1>4, <1>5 DEF Fail

\* The dispatcher's steps and those of others keep the types.
LEMMA DispatcherTypes ==
  ASSUME TypeOK, NEW e \in Ends,
         \/ SayHello \/ HelloSaid \/ Ping
         \/ BeginRequest(e) \/ ShutdownByOthers(e) \/ Dispatcher(e)
  PROVE  TypeOK'
<1> USE DEF FlagTypes
<1>1. FlagTypes /\ {"client", "server"} = Ends
  BY DEF TypeOK, Ends
<1>2. SUFFICES FlagTypes' /\ (camp \in [Ends -> Seq(Tasks)] /\ wire \in [Ends -> Seq(Frames)])'
  BY DEF TypeOK, Tasks, Frames, Outs, Ins
<1>3. camp \in [Ends -> Seq(Tasks)] /\ wire \in [Ends -> Seq(Frames)]
  BY QueueTypes
<1>4. \A s \in Serials : Out(Request(s)) \in Tasks /\ Out(Response(s)) \in Tasks
  BY DEF Tasks, Outs, Out, Request, Response, User
<1>5. 1..Requests(e) \subseteq Serials
  BY DEF Requests, Serials
<1>6. CASE SayHello
  <2>1. Out(ClientHello) \in Tasks
    BY DEF Tasks, Outs, Out, ClientHello, Hello
  <2>2. camp' \in [Ends -> Seq(Tasks)]
    BY <1>1, <1>6, <2>1, QueueTypes DEF SayHello, launch_deflate_and_send
  <2> QED BY <1>1, <1>3, <1>6, <2>2 DEF SayHello, handshakeVars, requestVars
<1>7. CASE HelloSaid
  BY <1>1, <1>3, <1>7 DEF HelloSaid, requestVars
<1>8. CASE Ping
  <2>1. [kind |-> "ping"] \in Frames
    BY DEF Frames, Control
  <2>2. wire' \in [Ends -> Seq(Frames)]
    BY <1>1, <1>8, <2>1, SendFrameType DEF Ping
  <2>3. pings' \in 0..MaxPings
    BY <1>1, <1>8, BoundsAssumption DEF Ping
  <2> QED BY <1>1, <1>3, <1>8, <2>2, <2>3 DEF Ping, handshakeVars, requestVars
<1>9. CASE BeginRequest(e)
  BY <1>1, <1>3, <1>9 DEF BeginRequest, handshakeVars, requestVars
<1>10. CASE ShutdownByOthers(e)
  <2>1. down' \in [Ends -> BOOLEAN] /\ status' \in [Ends -> Statuses]
    BY <1>10, ShutdownTypes DEF ShutdownByOthers
  <2> QED BY <1>1, <1>3, <1>10, <2>1 DEF ShutdownByOthers, handshakeVars, requestVars
<1>11. CASE EndRequest(e)
  <2>1. PICK s \in 1..Requests(e) :
            /\ promises' = [promises EXCEPT ![e] = @ \cup {s}]
            /\ outcome' = [outcome EXCEPT ![e][s] = "waiting"]
            /\ launch_deflate_and_send(e, Request(s))
    BY <1>11 DEF EndRequest
  <2>2. camp' \in [Ends -> Seq(Tasks)]
    BY <1>4, <1>5, <2>1, QueueTypes DEF launch_deflate_and_send
  <2>3. promises' \in [Ends -> SUBSET Serials]
    BY <1>1, <1>5, <2>1
  <2>4. outcome' \in [Ends -> [Serials -> {"unsent", "waiting", "answered", "lost"}]]
    BY <1>1, <1>5, <2>1
  <2> QED BY <1>1, <1>3, <1>11, <2>2, <2>3, <2>4 DEF EndRequest, handshakeVars
<1>12. CASE PerformJob(e)
  <2>1. PICK s \in jobs[e], fatal \in BOOLEAN :
            /\ jobs' = [jobs EXCEPT ![e] = @ \ {s}]
            /\ performed' = [performed EXCEPT ![e] = @ \cup {s}]
            /\ launch_deflate_and_send(e, Response(s))
            /\ doomed' = [doomed EXCEPT ![e] = @ \/ fatal]
            /\ UNCHANGED <<handshakeVars, promises, outcome,
                           mutex, down, status, closed, wire, pings, faults>>
    BY <1>12 DEF PerformJob
  <2>2. s \in Serials
    BY <1>1, <2>1
  <2>3. camp' \in [Ends -> Seq(Tasks)]
    BY <1>4, <2>1, <2>2, QueueTypes DEF launch_deflate_and_send
  <2>4. doomed' \in [Ends -> BOOLEAN]
    BY <1>1, <2>1
  <2> QED BY <1>1, <1>3, <2>1, <2>2, <2>3, <2>4 DEF handshakeVars
<1>13. CASE ShutdownAfterJob(e)
  <2>1. down' \in [Ends -> BOOLEAN] /\ status' \in [Ends -> Statuses]
    BY <1>13, ShutdownTypes DEF ShutdownAfterJob, Statuses
  <2> QED BY <1>1, <1>3, <1>13, <2>1 DEF ShutdownAfterJob, handshakeVars
<1>14. CASE DropJob(e)
  BY <1>1, <1>3, <1>14 DEF DropJob, handshakeVars
<1> QED BY <1>6, <1>7, <1>8, <1>9, <1>10, <1>11, <1>12, <1>13, <1>14 DEF Dispatcher

\* The workhorse's steps keep the types.
LEMMA WorkhorseTypes ==
  ASSUME TypeOK, NEW e \in Ends, Workhorse(e)
  PROVE  TypeOK'
<1> USE DEF FlagTypes
<1>1. FlagTypes /\ {"client", "server"} = Ends
  BY DEF TypeOK, Ends
<1>2. SUFFICES FlagTypes' /\ (camp \in [Ends -> Seq(Tasks)] /\ wire \in [Ends -> Seq(Frames)])'
  BY DEF TypeOK, Tasks, Frames, Outs, Ins
<1>3. camp \in [Ends -> Seq(Tasks)] /\ wire \in [Ends -> Seq(Frames)]
  BY QueueTypes
<1>4. \A d \in Ends : camp[d] # <<>> /\ CampDone(d) => camp' \in [Ends -> Seq(Tasks)]
  BY QueueTypes DEF CampDone
<1>5. CASE DropTask(e)
  BY <1>1, <1>3, <1>4, <1>5 DEF DropTask, handshakeVars, requestVars
<1>6. ASSUME NEW kind \in {"client_hello", "server_hello"}, DeflateHello(e, kind)
      PROVE  FlagTypes' /\ (camp \in [Ends -> Seq(Tasks)] /\ wire \in [Ends -> Seq(Frames)])'
  <2>1. HeadMsg(e) \in Frames
    BY <1>6, HeadTypes DEF DeflateHello, Frames
  <2>2. camp' \in [Ends -> Seq(Tasks)] /\ wire' \in [Ends -> Seq(Frames)]
    BY <1>3, <1>4, <1>6, <2>1, SendFrameType DEF DeflateHello, Takes
  <2>3. encoder' \in [Ends -> Seeds]
    <3>1. encoder' \in {encoder, [encoder EXCEPT ![e] = "normal_data"]}
      BY <1>6 DEF DeflateHello
    <3> QED BY <1>1, <3>1 DEF Seeds
  <2>4. Fail(e, "uuid") \/ UNCHANGED <<down, status, faults>>
    BY <1>6 DEF DeflateHello
  <2>5. /\ down' \in [Ends -> BOOLEAN] /\ status' \in [Ends -> Statuses]
        /\ faults' \subseteq {"uuid", "hello", "control", "status", "garbled"}
    BY <1>1, <2>4, ShutdownTypes
  <2> QED BY <1>1, <1>6, <2>2, <2>3, <2>5 DEF DeflateHello, requestVars
<1>7. ASSUME NEW kind \in {"request", "response"}, DeflateUser(e, kind)
      PROVE  FlagTypes' /\ (camp \in [Ends -> Seq(Tasks)] /\ wire \in [Ends -> Seq(Frames)])'
  <2>1. HeadMsg(e).serial \in Serials
    BY <1>7, HeadTypes DEF DeflateUser
  <2>2. [kind |-> kind, serial |-> HeadMsg(e).serial, seed |-> encoder[e]] \in Frames
    BY <1>1, <2>1 DEF Frames, Encoded
  <2>3. camp' \in [Ends -> Seq(Tasks)] /\ wire' \in [Ends -> Seq(Frames)]
    BY <1>3, <1>4, <1>7, <2>2, SendFrameType DEF DeflateUser, Takes
  <2> QED BY <1>1, <1>7, <2>3 DEF DeflateUser, handshakeVars, requestVars
<1>8. CASE RefuseHello
  <2>1. down' \in [Ends -> BOOLEAN] /\ status' \in [Ends -> Statuses]
    BY <1>1, <1>8, ShutdownTypes DEF RefuseHello, Statuses
  <2> QED BY <1>1, <1>3, <1>4, <1>8, <2>1 DEF RefuseHello, Takes, handshakeVars, requestVars
<1>9. CASE server_accept_hello
  <2>1. camp["server"] # <<>> /\ Tail(camp["server"]) \in Seq(Tasks)
    BY <1>1, <1>3, <1>9, TailDrops DEF server_accept_hello, Takes
  <2>2. Out(ServerHello) \in Tasks
    BY DEF Tasks, Outs, Out, ServerHello, Hello
  <2>3. Append(Tail(camp["server"]), Out(ServerHello)) \in Seq(Tasks)
    BY <2>1, <2>2, AppendPuts
  <2>4. CASE uuid["server"]
    <3>1. Fail("server", "hello") /\ CampDone("server") /\ UNCHANGED <<uuid, registered, busy>>
      BY <1>9, <2>4 DEF server_accept_hello
    <3>2. /\ down' \in [Ends -> BOOLEAN] /\ status' \in [Ends -> Statuses]
          /\ faults' \subseteq {"uuid", "hello", "control", "status", "garbled"}
      BY <1>1, <3>1, ShutdownTypes
    <3> QED BY <1>1, <1>3, <1>4, <1>9, <2>1, <3>1, <3>2 DEF server_accept_hello, requestVars
  <2>5. CASE ~uuid["server"]
    <3>1. /\ camp' = [camp EXCEPT !["server"] = Append(Tail(@), Out(ServerHello))]
          /\ uuid' = [uuid EXCEPT !["server"] = TRUE]
          /\ registered' = TRUE
          /\ busy' = [busy EXCEPT !["server"] = TRUE]
          /\ UNCHANGED <<down, status, faults>>
      BY <1>9, <2>5 DEF server_accept_hello
    <3>2. camp' \in [Ends -> Seq(Tasks)]
      BY <1>1, <1>3, <2>3, <3>1
    <3> QED BY <1>1, <1>3, <1>9, <3>1, <3>2 DEF server_accept_hello, requestVars
  <2> QED BY <2>4, <2>5
<1>10. CASE Authenticate
  <2>1. decoder' \in [Ends -> Seeds]
    BY <1>1, <1>10 DEF Authenticate, Seeds
  <2> QED BY <1>1, <1>3, <1>10, <2>1 DEF Authenticate, requestVars
<1>11. CASE client_accept_hello
  <2>1. \/ Fail("client", "uuid") /\ UNCHANGED authenticated
        \/ /\ authenticated' = [authenticated EXCEPT !["client"] = TRUE]
           /\ UNCHANGED <<down, status, faults>>
    BY <1>11 DEF client_accept_hello
  <2>2. /\ authenticated' \in [Ends -> BOOLEAN] /\ down' \in [Ends -> BOOLEAN]
        /\ status' \in [Ends -> Statuses]
        /\ faults' \subseteq {"uuid", "hello", "control", "status", "garbled"}
    BY <1>1, <2>1, ShutdownTypes
  <2> QED BY <1>1, <1>3, <1>4, <1>11, <2>2 DEF client_accept_hello, Takes, requestVars
<1>12. CASE InflateRequest(e)
  <2>1. HeadMsg(e).serial \in Serials
    BY <1>12, HeadTypes DEF InflateRequest
  <2>2. jobs' \in {jobs, [jobs EXCEPT ![e] = @ \cup {HeadMsg(e).serial}]}
    BY <1>12 DEF InflateRequest, InflateOrFail, requestVars
  <2>3. jobs' \in [Ends -> SUBSET Serials]
    <3>1. jobs \in [Ends -> SUBSET Serials]
      BY <1>1
    <3> HIDE DEF FlagTypes
    <3>2. jobs[e] \cup {HeadMsg(e).serial} \in SUBSET Serials
      BY <2>1, <3>1
    <3> QED BY <2>2, <3>1, <3>2
  <2>4. /\ Fail(e, "garbled") \/ UNCHANGED <<down, status, faults>>
        /\ UNCHANGED <<promises, outcome, doomed, performed>>
    BY <1>12 DEF InflateRequest, InflateOrFail, requestVars
  <2>5. /\ down' \in [Ends -> BOOLEAN] /\ status' \in [Ends -> Statuses]
        /\ faults' \subseteq {"uuid", "hello", "control", "status", "garbled"}
    BY <1>1, <2>4, ShutdownTypes
  <2> QED BY <1>1, <1>3, <1>4, <1>12, <2>3, <2>4, <2>5 DEF InflateRequest, Takes, handshakeVars
<1>13. CASE InflateResponse(e)
  <2>1. HeadMsg(e).serial \in Serials
    BY <1>13, HeadTypes DEF InflateResponse
  <2>2. \/ Fail(e, "garbled") /\ UNCHANGED requestVars
        \/ SatisfyPromise(e) /\ UNCHANGED <<down, status, faults>>
    BY <1>13 DEF InflateResponse, InflateOrFail
  <2>3. FlagTypes'
    <3>1. CASE Fail(e, "garbled") /\ UNCHANGED requestVars
      <4>1. /\ down' \in [Ends -> BOOLEAN] /\ status' \in [Ends -> Statuses]
            /\ faults' \subseteq {"uuid", "hello", "control", "status", "garbled"}
        BY <1>1, <3>1, ShutdownTypes
      <4> QED BY <1>1, <1>13, <3>1, <4>1 DEF InflateResponse, handshakeVars, requestVars
    <3>2. CASE SatisfyPromise(e) /\ UNCHANGED <<down, status, faults>>
      <4>1. promises' \in [Ends -> SUBSET Serials]
        BY <1>1, <3>2 DEF SatisfyPromise
      <4>2. outcome' \in {outcome, [outcome EXCEPT ![e][HeadMsg(e).serial] = "answered"]}
        BY <3>2 DEF SatisfyPromise
      <4>3. outcome' \in [Ends -> [Serials -> {"unsent", "waiting", "answered", "lost"}]]
        <5>1. outcome[e] \in [Serials -> {"unsent", "waiting", "answered", "lost"}]
          BY <1>1
        <5>2. [outcome[e] EXCEPT ![HeadMsg(e).serial] = "answered"]
                    \in [Serials -> {"unsent", "waiting", "answered", "lost"}]
          BY <2>1, <5>1
        <5>3. CASE outcome' = outcome
          BY <1>1, <5>3
        <5>4. CASE outcome' = [outcome EXCEPT ![e][HeadMsg(e).serial] = "answered"]
          BY <1>1, <5>2, <5>4
        <5> QED BY <4>2, <5>3, <5>4
      <4> QED BY <1>1, <1>13, <3>2, <4>1, <4>3 DEF InflateResponse, SatisfyPromise, handshakeVars
    <3> QED BY <2>2, <3>1, <3>2
  <2> QED BY <1>3, <1>4, <1>13, <2>3 DEF InflateResponse, Takes
<1> QED BY <1>5, <1>6, <1>7, <1>8, <1>9, <1>10, <1>11, <1>12, <1>13 DEF Workhorse

\* The epoll thread's steps keep the types.
LEMMA EpollTypes ==
  ASSUME TypeOK, NEW e \in Ends, Epoll(e)
  PROVE  TypeOK'
<1> USE DEF FlagTypes
<1>1. FlagTypes /\ {"client", "server"} = Ends /\ Peer(e) \in Ends
  BY DEF TypeOK, Ends, Peer
<1>2. SUFFICES FlagTypes' /\ (camp \in [Ends -> Seq(Tasks)] /\ wire \in [Ends -> Seq(Frames)])'
  BY DEF TypeOK, Tasks, Frames, Outs, Ins
<1>3. camp \in [Ends -> Seq(Tasks)] /\ wire \in [Ends -> Seq(Frames)]
  BY QueueTypes
<1>4. CASE layer5_on_receive_data(e)
  <2>1. Head(wire[e]) \in Frames /\ Head(wire[e]) \notin Control
    BY <1>4, QueueTypes DEF layer5_on_receive_data
  <2>2. In(Head(wire[e])) \in Tasks
    BY <2>1 DEF Frames, Tasks, In, Ins
  <2>3. camp' \in [Ends -> Seq(Tasks)] /\ wire' \in [Ends -> Seq(Frames)]
    BY <1>4, <2>2, QueueTypes DEF layer5_on_receive_data
  <2> QED BY <1>1, <1>4, <2>3 DEF layer5_on_receive_data, handshakeVars, requestVars
<1>5. CASE Polled(e) /\ ReceiveHeartbeat(e)
            /\ UNCHANGED <<handshakeVars, requestVars, mutex, closed, camp, pings>>
  <2>1. /\ [kind |-> "pong"] \in Frames
        /\ Tail(wire[e]) \in Seq(Frames)
        /\ wire[Peer(e)] \in Seq(Frames)
    BY <1>1, <1>3, <1>5, TailDrops DEF ReceiveHeartbeat, Frames, Control
  <2>2. Append(wire[Peer(e)], [kind |-> "pong"]) \in Seq(Frames) /\ Peer(e) # e
    BY <2>1, AppendPuts DEF Peer
  <2>3. wire' \in [Ends -> Seq(Frames)]
    <3>1. \/ wire' = [wire EXCEPT ![e] = Tail(@)]
          \/ wire' = [wire EXCEPT ![e] = Tail(@), ![Peer(e)] = Append(@, [kind |-> "pong"])]
      BY <1>5 DEF ReceiveHeartbeat
    <3>2. CASE wire' = [wire EXCEPT ![e] = Tail(@)]
      BY <1>1, <1>3, <2>1, <3>2
    <3>3. CASE wire' = [wire EXCEPT ![e] = Tail(@), ![Peer(e)] = Append(@, [kind |-> "pong"])]
      BY <1>1, <1>3, <2>1, <2>2, <3>3
    <3> QED BY <3>1, <3>2, <3>3
  <2>4. /\ down' \in [Ends -> BOOLEAN] /\ status' \in [Ends -> Statuses]
        /\ faults' \subseteq {"uuid", "hello", "control", "status", "garbled"}
    <3>1. CASE FailControl(e, "control")
                /\ \E code \in {"none", "error"} : status' = StatusAfter(e, code)
      BY <1>1, <3>1, ShutdownTypes DEF FailControl, Statuses
    <3>2. CASE UNCHANGED <<down, status, faults>>
      BY <1>1, <3>2
    <3> QED BY <1>5, <3>1, <3>2 DEF ReceiveHeartbeat
  <2> QED BY <1>1, <1>3, <1>5, <2>3, <2>4 DEF handshakeVars, requestVars
<1>6. CASE Polled(e) /\ ReceiveStatus(e)
            /\ UNCHANGED <<handshakeVars, requestVars, mutex, closed, camp, pings>>
  <2>1. \A code \in Statuses :
            StatusAfter(e, code) \in [Ends -> Statuses]
            /\ [StatusAfter(e, code) EXCEPT ![e] = "none"] \in [Ends -> Statuses]
    BY ShutdownTypes DEF Statuses
  <2>2. /\ down' \in [Ends -> BOOLEAN] /\ status' \in [Ends -> Statuses]
        /\ faults' \subseteq {"uuid", "hello", "control", "status", "garbled"}
    <3>1. /\ down' \in {down, [down EXCEPT ![e] = TRUE]}
          /\ faults' \in {faults, faults \cup {"status"}}
          /\ \/ status' = [status EXCEPT ![e] = "none"]
             \/ \E code \in Statuses : status' = [StatusAfter(e, code) EXCEPT ![e] = "none"]
      BY <1>6 DEF ReceiveStatus, FailControl, Statuses
    <3>2. [status EXCEPT ![e] = "none"] \in [Ends -> Statuses]
      BY <1>1 DEF Statuses
    <3>3. status' \in [Ends -> Statuses]
      BY <2>1, <3>1, <3>2
    <3>4. [down EXCEPT ![e] = TRUE] \in [Ends -> BOOLEAN]
      BY ShutdownTypes
    <3> QED BY <1>1, <3>1, <3>3, <3>4
  <2>3. wire' = wire
    BY <1>6 DEF ReceiveStatus
  <2> QED BY <1>1, <1>3, <1>6, <2>2, <2>3 DEF handshakeVars, requestVars
<1>7. CASE layer4_on_close(e)
  <2>1. wire' \in [Ends -> Seq(Frames)]
    BY <1>7, QueueTypes DEF layer4_on_close
  <2>2. outcome' \in [Ends -> [Serials -> {"unsent", "waiting", "answered", "lost"}]]
    BY <1>1, <1>7 DEF layer4_on_close
  <2>3. status' \in [Ends -> Statuses]
    BY <1>1, <1>7 DEF layer4_on_close, Statuses
  <2> QED BY <1>1, <1>3, <1>7, <2>1, <2>2, <2>3 DEF layer4_on_close, handshakeVars
<1>8. CASE HangUp(e)
  <2>1. down' \in [Ends -> BOOLEAN] /\ status' \in [Ends -> Statuses]
    BY <1>8, ShutdownTypes DEF HangUp, Statuses
  <2> QED BY <1>1, <1>3, <1>8, <2>1 DEF HangUp, handshakeVars, requestVars
<1> QED BY <1>4, <1>5, <1>6, <1>7, <1>8 DEF Epoll, layer5_on_receive_control

-------------------------------------------------------------------------------
\* Authentication

\* If the connector's end says hello first, what is inflated can be decoded and
\* comes from a peer that has authenticated.
LEMMA InflateFacts ==
  ASSUME TypeOK, HandshakeInv, NEW e \in Ends, NEW kind \in {"request", "response"},
         Takes(e, "in", kind), ~down[e]
  PROVE  ~Garbled(e) /\ authenticated[e]
<1> USE DEF HandshakeInv
<1>1. CASE e = "client"
  <2>1. /\ ClientQueue # <<>> /\ ~down["client"] /\ HeadMsg(e) = Head(ClientQueue).msg
        /\ Head(ClientQueue).dir = "in" /\ Head(ClientQueue).msg.kind = kind
    BY <1>1 DEF Takes, HeadMsg, ClientQueue
  <2>2. Head(ClientQueue) \in ClientTasks
        /\ Drops(ClientQueue, Head(ClientQueue), Tail(ClientQueue))
    BY <2>1, TailDrops DEF Contents
  <2>3. /\ Head(ClientQueue).msg \in EncodedWith("authentication")
        /\ Head(ClientQueue) = In(Head(ClientQueue).msg)
    BY <2>1, <2>2, ClientTaskKinds
  <2>4. Head(ClientQueue) \in Ins /\ Head(ClientQueue) # In(ServerHello)
    BY <2>3, FrameFacts, TaskFacts
  <2>5. ~Free(ClientQueue, Ins) /\ ~Has(ClientQueue, In(ServerHello))
    BY <2>2, <2>4 DEF HelloOfServer, Drops
  <2>6. authenticated["client"]
    BY <2>1, <2>5 DEF HelloOfServer
  <2>7. ~Garbled(e)
    BY <1>1, <2>1, <2>3, <2>6 DEF Garbled, EncodedWith, Flags
  <2> QED BY <1>1, <2>6, <2>7
<1>2. CASE e = "server"
  <2>1. /\ ServerQueue # <<>> /\ ~down["server"] /\ HeadMsg(e) = Head(ServerQueue).msg
        /\ Head(ServerQueue).dir = "in" /\ Head(ServerQueue).msg.kind = kind /\ ~busy["server"]
    BY <1>2 DEF Takes, HeadMsg, ServerQueue
  <2>2. Head(ServerQueue) \in ServerTasks
        /\ Drops(ServerQueue, Head(ServerQueue), Tail(ServerQueue))
    BY <2>1, TailDrops DEF Contents
  <2>3. /\ Head(ServerQueue).msg \in EncodedWith("normal_data")
        /\ Head(ServerQueue) = In(Head(ServerQueue).msg)
    BY <2>1, <2>2, ServerTaskKinds
  <2>4. Head(ServerQueue) # In(ClientHello)
    BY <2>3, FrameFacts, TaskFacts
  <2>5. ~Has(ServerQueue, In(ClientHello))
    BY <2>2, <2>4 DEF HelloOfClient, Drops
  <2>6. authenticated["server"]
    BY <2>1, <2>5 DEF HelloOfClient, Flags
  <2>7. ~Garbled(e)
    BY <1>2, <2>1, <2>3, <2>6 DEF Garbled, EncodedWith, Flags
  <2> QED BY <1>2, <2>6, <2>7
<1> QED BY <1>1, <1>2 DEF Ends

\* Who has something to do for its peer has authenticated.
Served == \A e \in Ends : jobs[e] # {} \/ performed[e] # {} => authenticated[e]

\* The handshake goes on as it should, and nothing fails but a check for a status
\* frame.
LEMMA HandshakeStep ==
  ASSUME TypeOK, ClosedDown, HandshakeInv, Served, Next
  PROVE  HandshakeInv' /\ faults' \subseteq faults \cup {"status"}
<1> DEFINE Goal == HandshakeInv' /\ faults' \subseteq faults \cup {"status"}
<1>1. UNCHANGED faults => faults' \subseteq faults \cup {"status"}
  OBVIOUS
<1>2. /\ announces /\ mutex["server"] # "hello"
      /\ mutex["client"] = "request" => uuid["client"]
      /\ mutex["server"] = "request" => registered
      /\ registered => uuid["client"]
      /\ authenticated["client"] => registered
      /\ authenticated["server"] => registered
  BY DEF HandshakeInv, Flags
<1>3. ASSUME NEW e \in Ends, down' = [down EXCEPT ![e] = TRUE]
      PROVE  \A d \in Ends : down[d] => down'[d]
  BY <1>3 DEF TypeOK
<1>4. CASE SayHello
  BY <1>4, SayHelloStep DEF SayHello
<1>5. CASE HelloSaid
  BY <1>5, HelloSaidStep DEF HelloSaid
<1>6. CASE Ping
  BY <1>6, PingStep DEF Ping
<1>7. ASSUME NEW e \in Ends, BeginRequest(e)
      PROVE  Goal
  <2>1. /\ mutex'["server"] # "hello"
        /\ mutex'["client"] = "hello" <=> mutex["client"] = "hello"
        /\ mutex'["client"] = "request" => uuid["client"]
        /\ mutex'["server"] = "request" => registered
    BY <1>2, <1>7 DEF BeginRequest, Reachable, MutexFree, TypeOK, Ends
  <2> QED BY <1>1, <1>7, <2>1, QuietStep DEF BeginRequest
<1>8. ASSUME NEW e \in Ends, ShutdownByOthers(e) \/ HangUp(e) \/ ShutdownAfterJob(e)
      PROVE  Goal
  <2>1. /\ UNCHANGED <<handshakeVars, camp, wire, mutex, closed, faults>>
        /\ down' = [down EXCEPT ![e] = TRUE]
    BY <1>8 DEF ShutdownByOthers, HangUp, ShutdownAfterJob, shutdown
  <2> QED BY <1>2, <1>3, <2>1, QuietStep
<1>9. ASSUME NEW e \in Ends, EndRequest(e)
      PROVE  Goal
  <2>1. /\ mutex'["server"] # "hello"
        /\ mutex'["client"] = "hello" <=> mutex["client"] = "hello"
        /\ mutex'["client"] = "request" => uuid["client"]
        /\ mutex'["server"] = "request" => registered
        /\ mutex[e] = "request"
    BY <1>2, <1>9 DEF EndRequest, TypeOK, Ends
  <2>2. PICK s \in 1..Requests(e) : launch_deflate_and_send(e, Request(s))
    BY <1>9 DEF EndRequest
  <2>3. Request(s) \in User
    BY DEF Request, User, Requests, Serials
  <2>4. e = "client" => uuid["client"]
    BY <1>2, <2>1
  <2>5. e = "server" => registered
    BY <1>2, <2>1
  <2> QED BY <1>9, <2>1, <2>2, <2>3, <2>4, <2>5, SendUserStep DEF EndRequest
<1>10. ASSUME NEW e \in Ends, PerformJob(e)
      PROVE  Goal
  <2>1. PICK s \in jobs[e] : launch_deflate_and_send(e, Response(s))
    BY <1>10 DEF PerformJob
  <2>2. UNCHANGED <<handshakeVars, mutex, down, closed, wire, faults>>
    BY <1>10 DEF PerformJob
  <2>3. Response(s) \in User
    BY DEF Response, User, TypeOK
  <2>4. authenticated[e]
    BY <2>1 DEF Served
  <2>5. (e = "client" => uuid["client"]) /\ (e = "server" => registered)
    BY <1>2, <2>4
  <2> QED BY <1>2, <2>1, <2>2, <2>3, <2>5, SendUserStep
<1>11. ASSUME NEW e \in Ends, DropJob(e)
      PROVE  Goal
  BY <1>1, <1>2, <1>11, QuietStep DEF DropJob
<1>12. ASSUME NEW e \in Ends, Workhorse(e)
      PROVE  Goal
  <2>1. CASE DropTask(e)
    BY <2>1, TakeTaskStep DEF DropTask
  <2>2. ASSUME NEW kind \in {"client_hello", "server_hello"}, DeflateHello(e, kind)
        PROVE  Goal
    BY <2>2, DeflateHelloStep
  <2>3. ASSUME NEW kind \in {"request", "response"}, DeflateUser(e, kind)
        PROVE  Goal
    BY <2>3, DeflateUserStep DEF DeflateUser
  <2>4. CASE RefuseHello
    <3>1. /\ camp["server"] # <<>> /\ CampDone("server") /\ down' = [down EXCEPT !["server"] = TRUE]
          /\ UNCHANGED <<handshakeVars, wire, mutex, closed, faults>> /\ "server" \in Ends
      BY <2>4 DEF RefuseHello, Takes, Ends, shutdown
    <3>2. down'["server"]
      BY <3>1 DEF TypeOK
    <3> QED BY <1>3, <3>1, <3>2, TakeTaskStep
  <2>5. CASE server_accept_hello
    BY <2>5, AcceptStep
  <2>6. CASE Authenticate
    BY <2>6, AuthenticateStep DEF Authenticate
  <2>7. CASE client_accept_hello
    BY <2>7, ClientAcceptStep
  <2>8. CASE InflateRequest(e) \/ InflateResponse(e)
    <3>1. /\ camp[e] # <<>> /\ CampDone(e) /\ Head(camp[e]).msg.kind \in {"request", "response"}
          /\ UNCHANGED <<handshakeVars, wire, mutex, closed>>
      BY <2>8 DEF InflateRequest, InflateResponse, Takes
    <3>2. ~Garbled(e)
      BY <2>8, InflateFacts DEF InflateRequest, InflateResponse
    <3>3. UNCHANGED <<down, status, faults>>
      BY <2>8, <3>2 DEF InflateRequest, InflateResponse, InflateOrFail
    <3> QED BY <3>1, <3>3, TakeTaskStep
  <2> QED BY <1>12, <2>1, <2>2, <2>3, <2>4, <2>5, <2>6, <2>7, <2>8 DEF Workhorse
<1>13. ASSUME NEW e \in Ends, layer5_on_receive_control(e)
       PROVE  Goal
  <2>1. UNCHANGED <<handshakeVars, mutex, closed, camp>>
    BY <1>13 DEF layer5_on_receive_control
  <2>2. CASE ReceiveHeartbeat(e)
    BY <2>1, <2>2, HeartbeatStep
  <2>3. CASE ReceiveStatus(e)
    <3>1. /\ down' = [down EXCEPT ![e] = TRUE] \/ down' = down
          /\ wire' = wire /\ faults' \subseteq faults \cup {"status"}
      BY <2>3 DEF ReceiveStatus, FailControl
    <3>2. \A d \in Ends : down[d] => down'[d]
      BY <1>3, <3>1
    <3> QED BY <1>2, <2>1, <3>1, <3>2, QuietStep
  <2> QED BY <1>13, <2>2, <2>3 DEF layer5_on_receive_control
<1>14. ASSUME NEW e \in Ends, Epoll(e)
       PROVE  Goal
  BY <1>8, <1>13, <1>14, ReceiveDataStep, CloseStep
     DEF Epoll, layer5_on_receive_data, layer4_on_close
<1> QED BY <1>4, <1>5, <1>6, <1>7, <1>8, <1>9, <1>10, <1>11, <1>12, <1>14 DEF Next, Dispatcher

\* The end d has something to do for its peer, or has done it.
Serves(d) == jobs[d] # {} \/ performed[d] # {}

\* Jobs come from messages that could be decoded.
LEMMA JobsFromMessages ==
  ASSUME TypeOK, Next, NEW d \in Ends, Serves(d)'
  PROVE  Serves(d) \/ (InflateRequest(d) /\ ~Garbled(d))
<1>1. ASSUME NEW e \in Ends, PerformJob(e)
      PROVE  Serves(d)
  <2>1. PICK s \in jobs[e] : /\ jobs' = [jobs EXCEPT ![e] = @ \ {s}]
                             /\ performed' = [performed EXCEPT ![e] = @ \cup {s}]
    BY <1>1 DEF PerformJob
  <2>2. d # e => jobs'[d] = jobs[d] /\ performed'[d] = performed[d]
    BY <2>1 DEF TypeOK
  <2> QED BY <2>1, <2>2 DEF Serves
<1>2. ASSUME NEW e \in Ends, DropJob(e)
      PROVE  Serves(d)
  BY <1>2 DEF DropJob, Serves, TypeOK
<1>3. ASSUME NEW e \in Ends, InflateRequest(e)
      PROVE  Serves(d) \/ (InflateRequest(d) /\ ~Garbled(d))
  <2>1. CASE Garbled(e)
    BY <1>3, <2>1 DEF InflateRequest, InflateOrFail, requestVars, Serves
  <2>2. CASE ~Garbled(e)
    <3>1. jobs' = [jobs EXCEPT ![e] = @ \cup {HeadMsg(e).serial}] /\ performed' = performed
      BY <1>3, <2>2 DEF InflateRequest, InflateOrFail
    <3>2. d # e => jobs'[d] = jobs[d] /\ performed'[d] = performed[d]
      BY <3>1 DEF TypeOK
    <3> QED BY <1>3, <2>2, <3>2 DEF Serves
  <2> QED BY <2>1, <2>2
<1>4. ASSUME NEW e \in Ends, InflateResponse(e)
      PROVE  UNCHANGED <<jobs, performed>>
  BY <1>4 DEF InflateResponse, InflateOrFail, SatisfyPromise, requestVars
<1>5. \/ UNCHANGED <<jobs, performed>>
      \/ \E e \in Ends : PerformJob(e) \/ DropJob(e) \/ InflateRequest(e)
  BY <1>4 DEF Next, SayHello, HelloSaid, Ping, BeginRequest, ShutdownByOthers, Dispatcher, EndRequest,
           ShutdownAfterJob, Workhorse, DropTask, DeflateHello, DeflateUser,
           RefuseHello, server_accept_hello, Authenticate, client_accept_hello,
           Epoll, layer5_on_receive_data, layer5_on_receive_control,
           layer4_on_close, HangUp, requestVars
<1> QED BY <1>1, <1>2, <1>3, <1>5 DEF Serves

\* Who has authenticated stays so, and the keys stay as they are.
LEMMA AuthenticationStays ==
  ASSUME TypeOK, Next
  PROVE  /\ \A d \in Ends : authenticated[d] => authenticated'[d]
         /\ UNCHANGED <<keysMatch, announces>>
<1>1. \/ UNCHANGED authenticated
      \/ authenticated' = [authenticated EXCEPT !["server"] = TRUE]
      \/ authenticated' = [authenticated EXCEPT !["client"] = TRUE]
  BY DEF Next, SayHello, HelloSaid, Ping, BeginRequest, ShutdownByOthers, Dispatcher, EndRequest,
           PerformJob, ShutdownAfterJob, DropJob, Workhorse, DropTask, DeflateHello, DeflateUser,
           RefuseHello, server_accept_hello, Authenticate, client_accept_hello, InflateRequest,
           InflateResponse, Epoll, layer5_on_receive_data, layer5_on_receive_control,
           layer4_on_close, HangUp, handshakeVars
<1>2. UNCHANGED <<keysMatch, announces>>
  BY DEF Next, SayHello, HelloSaid, Ping, BeginRequest, ShutdownByOthers, Dispatcher, EndRequest,
           PerformJob, ShutdownAfterJob, DropJob, Workhorse, DropTask, DeflateHello, DeflateUser,
           RefuseHello, server_accept_hello, Authenticate, client_accept_hello, InflateRequest,
           InflateResponse, Epoll, layer5_on_receive_data, layer5_on_receive_control,
           layer4_on_close, HangUp, handshakeVars
<1> QED BY <1>1, <1>2 DEF TypeOK

\* Who has something to do for its peer has authenticated, if hellos come first.
LEMMA ServedStep ==
  ASSUME TypeOK, HandshakeInv, Served, Next
  PROVE  Served'
<1> SUFFICES ASSUME NEW d \in Ends, Serves(d)'
             PROVE  authenticated'[d]
  BY DEF Served, Serves
<1>1. Serves(d) \/ InflateRequest(d)
  BY JobsFromMessages
<1>2. authenticated[d]
  BY <1>1, InflateFacts DEF InflateRequest, Served, Serves
<1> QED BY <1>2, AuthenticationStays

\* Who has something to do for its peer has the same key as the peer.
Keyed == \A d \in Ends : Serves(d) => keysMatch

\* A message encrypted with another key cannot be decoded.
LEMMA KeyedStep ==
  ASSUME TypeOK, Keyed, Next
  PROVE  Keyed'
<1> SUFFICES ASSUME NEW d \in Ends, Serves(d)'
             PROVE  keysMatch'
  BY DEF Keyed
<1>1. Serves(d) \/ ~Garbled(d)
  BY JobsFromMessages
<1>2. keysMatch
  BY <1>1 DEF Keyed, Garbled
<1> QED BY <1>2, AuthenticationStays

-------------------------------------------------------------------------------
\* Status frames

\* A status frame comes from an end that has been shut down.
StatusInv == \A e \in Ends : status[e] # "none" => down[Peer(e)]

\* The check for a status frame fails at an end whose peer is down, too.
Blame == "status" \in faults => \A e \in Ends : down[e]

\* Who shuts an end down, closes it or handles a status frame.
LEMMA Shutdowns ==
  ASSUME TypeOK, Next
  PROVE  \/ UNCHANGED <<down, status, closed>> /\ faults' = faults
         \/ \E e \in Ends, code \in Statuses, what \in {"uuid", "hello", "control", "garbled"} :
                shutdown(e, code) /\ UNCHANGED closed /\ faults' \subseteq faults \cup {what}
         \/ \E e \in Ends : layer4_on_close(e)
         \/ \E e \in Ends : ReceiveStatus(e) /\ UNCHANGED closed
<1> DEFINE Quiet == UNCHANGED <<down, status, closed>> /\ faults' = faults
           Shut  == \E e \in Ends, code \in Statuses, what \in {"uuid", "hello", "control", "garbled"} :
                        shutdown(e, code) /\ UNCHANGED closed /\ faults' \subseteq faults \cup {what}
<1>1. {"none", "error", "shutdown"} = Statuses /\ {"client", "server"} = Ends
  BY DEF Statuses, Ends
<1>2. ASSUME NEW e \in Ends, NEW what \in {"uuid", "hello", "control", "garbled"},
             Fail(e, what), UNCHANGED closed
      PROVE  Shut
  BY <1>1, <1>2 DEF Fail
<1>3. ASSUME NEW e \in Ends, NEW code \in Statuses, shutdown(e, code), UNCHANGED <<closed, faults>>
      PROVE  Shut
  BY <1>3
<1> HIDE DEF Shut
<1>4. ASSUME NEW e \in Ends, ShutdownByOthers(e) \/ HangUp(e) \/ ShutdownAfterJob(e)
      PROVE  Shut
  BY <1>1, <1>3, <1>4 DEF ShutdownByOthers, HangUp, ShutdownAfterJob
<1>5. ASSUME RefuseHello
      PROVE  Shut
  BY <1>1, <1>3, <1>5 DEF RefuseHello
<1>6. ASSUME NEW e \in Ends, NEW kind \in {"client_hello", "server_hello"}, DeflateHello(e, kind)
      PROVE  Quiet \/ Shut
  BY <1>2, <1>6 DEF DeflateHello
<1>7. ASSUME server_accept_hello \/ client_accept_hello
      PROVE  Quiet \/ Shut
  <2>1. \/ UNCHANGED <<down, status, faults>> /\ UNCHANGED closed
        \/ Fail("server", "hello") /\ UNCHANGED closed
        \/ Fail("client", "uuid") /\ UNCHANGED closed
    BY <1>7 DEF server_accept_hello, client_accept_hello
  <2> QED BY <1>1, <1>2, <2>1
<1>8. ASSUME NEW e \in Ends, InflateRequest(e) \/ InflateResponse(e)
      PROVE  Quiet \/ Shut
  BY <1>2, <1>8 DEF InflateRequest, InflateResponse, InflateOrFail
<1>9. ASSUME NEW e \in Ends, ReceiveHeartbeat(e), UNCHANGED closed
      PROVE  Quiet \/ Shut
  <2>1. CASE UNCHANGED <<down, status, faults>>
    BY <1>9, <2>1
  <2>2. CASE FailControl(e, "control") /\ \E code \in {"none", "error"} : status' = StatusAfter(e, code)
    BY <1>1, <1>9, <2>2 DEF FailControl, Shut, shutdown
  <2> QED BY <1>9, <2>1, <2>2 DEF ReceiveHeartbeat
<1>10. ASSUME NEW e \in Ends, Workhorse(e)
       PROVE  Quiet \/ Shut
  BY <1>5, <1>6, <1>7, <1>8, <1>10 DEF Workhorse, DropTask, DeflateUser, Authenticate
<1>11. ASSUME NEW e \in Ends, Dispatcher(e)
       PROVE  Quiet \/ Shut
  BY <1>4, <1>11 DEF Dispatcher, EndRequest, PerformJob, DropJob
<1>12. ASSUME NEW e \in Ends, Epoll(e)
       PROVE  Quiet \/ Shut \/ layer4_on_close(e) \/ (ReceiveStatus(e) /\ UNCHANGED closed)
  BY <1>4, <1>9, <1>12 DEF Epoll, layer5_on_receive_data, layer5_on_receive_control
<1> QED BY <1>4, <1>10, <1>11, <1>12 DEF Next, SayHello, HelloSaid, Ping, BeginRequest, Shut

\* Who has been shut down stays so and is not closed before; and an end says so
\* only when it is down.
LEMMA StatusStep ==
  ASSUME TypeOK, ClosedDown, StatusInv, Blame, Next
  PROVE  ClosedDown' /\ StatusInv' /\ Blame'
<1>1. /\ down \in [Ends -> BOOLEAN] /\ closed \in [Ends -> BOOLEAN] /\ status \in [Ends -> Statuses]
      /\ \A e \in Ends : Peer(e) \in Ends /\ Peer(Peer(e)) = e /\ Peer(e) # e
      /\ \A d, e \in Ends : d = e \/ d = Peer(e)
      /\ \A e : Peer(e)' = Peer(e)
  BY DEF TypeOK, Peer, Ends
<1>2. ASSUME NEW e \in Ends, NEW code \in Statuses, down' = [down EXCEPT ![e] = TRUE]
      PROVE  /\ down'[e] /\ \A d \in Ends : down[d] => down'[d]
             /\ \A d \in Ends : StatusAfter(e, code)[d] # "none" => down'[Peer(d)]
  <2>1. down'[e] /\ \A d \in Ends : down[d] => down'[d]
    BY <1>1, <1>2
  <2>2. \A d \in Ends : StatusAfter(e, code)[d] # status[d] => d = Peer(e)
    BY <1>1 DEF StatusAfter
  <2> QED BY <1>1, <2>1, <2>2 DEF StatusInv
<1>3. CASE UNCHANGED <<down, status, closed>> /\ faults' = faults
  BY <1>1, <1>3 DEF ClosedDown, StatusInv, Blame
<1>4. ASSUME NEW e \in Ends, NEW code \in Statuses,
             NEW what \in {"uuid", "hello", "control", "garbled"},
             shutdown(e, code), UNCHANGED closed, faults' \subseteq faults \cup {what}
      PROVE  ClosedDown' /\ StatusInv' /\ Blame'
  <2>1. /\ \A d \in Ends : down[d] => down'[d]
        /\ \A d \in Ends : status'[d] # "none" => down'[Peer(d)]
    BY <1>2, <1>4 DEF shutdown
  <2>2. "status" \in faults' => "status" \in faults
    BY <1>4
  <2> QED BY <1>1, <1>4, <2>1, <2>2 DEF ClosedDown, StatusInv, Blame
<1>5. ASSUME NEW e \in Ends, layer4_on_close(e)
      PROVE  ClosedDown' /\ StatusInv' /\ Blame'
  <2>1. /\ down[e] /\ UNCHANGED <<down, faults>>
        /\ closed' = [closed EXCEPT ![e] = TRUE] /\ status' = [status EXCEPT ![e] = "none"]
    BY <1>5 DEF layer4_on_close
  <2>2. \A d \in Ends : (closed'[d] => closed[d] \/ d = e) /\ status'[d] \in {status[d], "none"}
    BY <1>1, <2>1
  <2> QED BY <1>1, <2>1, <2>2 DEF ClosedDown, StatusInv, Blame
<1>6. ASSUME NEW e \in Ends, ReceiveStatus(e), UNCHANGED closed
      PROVE  ClosedDown' /\ StatusInv' /\ Blame'
  <2>1. down[Peer(e)]
    BY <1>6 DEF ReceiveStatus, StatusInv
  <2>2. CASE \E code \in Statuses : /\ down' = [down EXCEPT ![e] = TRUE]
                                   /\ status' = [StatusAfter(e, code) EXCEPT ![e] = "none"]
    <3>1. PICK code \in Statuses : status' = [StatusAfter(e, code) EXCEPT ![e] = "none"]
      BY <2>2
    <3>2. /\ down'[e] /\ \A d \in Ends : down[d] => down'[d]
          /\ \A d \in Ends : StatusAfter(e, code)[d] # "none" => down'[Peer(d)]
      BY <1>2, <2>2
    <3>3. \A d \in Ends : status'[d] \in {StatusAfter(e, code)[d], "none"}
      <4>1. StatusAfter(e, code) \in [Ends -> Statuses]
        BY ShutdownTypes
      <4> QED BY <3>1, <4>1
    <3>4. \A d \in Ends : down'[d]
      BY <1>1, <2>1, <3>2
    <3> QED BY <1>1, <1>6, <3>4 DEF ClosedDown, StatusInv, Blame
  <2>3. CASE status' = [status EXCEPT ![e] = "none"] /\ UNCHANGED <<down, faults>>
    <3>1. \A d \in Ends : status'[d] \in {status[d], "none"}
      BY <1>1, <2>3
    <3> QED BY <1>1, <1>6, <2>3, <3>1 DEF ClosedDown, StatusInv, Blame
  <2>4. {"none", "error", "shutdown"} = Statuses
    BY DEF Statuses
  <2> QED BY <1>6, <2>2, <2>3, <2>4 DEF ReceiveStatus, FailControl
<1> QED BY <1>3, <1>4, <1>5, <1>6, Shutdowns

-------------------------------------------------------------------------------
\* Promises

\* Nobody is in the middle of send_request at an end that is closed: whoever
\* closes it holds m_mutex.
Promised ==
    /\ NoOrphanedPromise
    /\ \A e \in Ends : mutex[e] = "request" => ~closed[e]

\* What becomes of requests in a step: what has been answered or lost stays so.
Outcomes ==
    \A e \in Ends, s \in Serials :
        /\ outcome[e][s] \in {"answered", "lost"} => outcome'[e][s] = outcome[e][s]
        /\ outcome'[e][s] = "unsent" => outcome[e][s] = "unsent"

\* Promises are inserted, satisfied and failed with m_mutex held.
LEMMA PromiseStep ==
  ASSUME TypeOK, ClosedDown, Promised, Next
  PROVE  Promised' /\ Outcomes
<1>1. ASSUME NEW e \in Ends, InflateResponse(e), Garbled(e)
      PROVE  Promised' /\ Outcomes
  BY <1>1 DEF InflateResponse, InflateOrFail, requestVars, Promised, NoOrphanedPromise, Outcomes
<1>2. ASSUME NEW e \in Ends, BeginRequest(e)
      PROVE  Promised' /\ Outcomes
  BY <1>2 DEF BeginRequest, ClosedDown, Promised, NoOrphanedPromise, Outcomes, TypeOK, requestVars
<1>3. ASSUME NEW e \in Ends, EndRequest(e)
      PROVE  Promised' /\ Outcomes
  <2>1. PICK s \in 1..Requests(e) :
            /\ outcome[e][s] = "unsent"
            /\ promises' = [promises EXCEPT ![e] = @ \cup {s}]
            /\ outcome' = [outcome EXCEPT ![e][s] = "waiting"]
    BY <1>3 DEF EndRequest
  <2>2. /\ mutex[e] = "request" /\ mutex' = [mutex EXCEPT ![e] = "free"]
        /\ closed' = closed /\ s \in Serials
    BY <1>3 DEF EndRequest, Requests, Serials
  <2>3. /\ outcome'[e] = [outcome[e] EXCEPT ![s] = "waiting"]
        /\ promises'[e] = promises[e] \cup {s}
        /\ \A d \in Ends : d # e => outcome'[d] = outcome[d] /\ promises'[d] = promises[d]
        /\ \A d \in Ends : mutex'[d] = "request" => mutex[d] = "request"
    BY <2>1, <2>2 DEF TypeOK
  <2>4. outcome[e] \in [Serials -> {"unsent", "waiting", "answered", "lost"}]
    BY DEF TypeOK
  <2>5. \A t \in Serials : outcome'[e][t] = IF t = s THEN "waiting" ELSE outcome[e][t]
    BY <2>2, <2>3, <2>4
  <2>6. ~closed[e] /\ promises[e] = {t \in Serials : outcome[e][t] = "waiting"}
    BY <2>2 DEF Promised, NoOrphanedPromise
  <2>7. Promised'
    <3>1. promises'[e] = {t \in Serials : outcome'[e][t] = "waiting"}
      BY <2>2, <2>3, <2>5, <2>6
    <3>2. \A d \in Ends \ {e} : promises'[d] = {t \in Serials : outcome'[d][t] = "waiting"}
      BY <2>3 DEF Promised, NoOrphanedPromise
    <3>3. \A d \in Ends : (closed'[d] => promises'[d] = {}) /\ (mutex'[d] = "request" => ~closed'[d])
      BY <2>2, <2>3, <2>6 DEF Promised, NoOrphanedPromise
    <3> QED BY <3>1, <3>2, <3>3 DEF Promised, NoOrphanedPromise
  <2>8. Outcomes
    BY <2>1, <2>3, <2>5 DEF Outcomes
  <2> QED BY <2>7, <2>8
<1>4. ASSUME NEW e \in Ends, InflateResponse(e), ~Garbled(e)
      PROVE  Promised' /\ Outcomes
  <2>1. SatisfyPromise(e) /\ closed' = closed /\ mutex' = mutex
    BY <1>4 DEF InflateResponse, InflateOrFail
  <2> DEFINE s == HeadMsg(e).serial
  <2>2. s \in Serials
    BY <1>4, HeadTypes DEF InflateResponse
  <2> HIDE DEF s
  <2>3. /\ promises' = [promises EXCEPT ![e] = @ \ {s}]
        /\ outcome' = IF s \in promises[e] THEN [outcome EXCEPT ![e][s] = "answered"] ELSE outcome
    BY <2>1 DEF SatisfyPromise, s
  <2>4. /\ promises'[e] = promises[e] \ {s}
        /\ \A d \in Ends : d # e => outcome'[d] = outcome[d] /\ promises'[d] = promises[d]
    BY <2>3 DEF TypeOK
  <2>5. outcome[e] \in [Serials -> {"unsent", "waiting", "answered", "lost"}]
    BY DEF TypeOK
  <2>6. \A t \in Serials : outcome'[e][t] =
            IF t = s /\ s \in promises[e] THEN "answered" ELSE outcome[e][t]
    <3>1. CASE s \in promises[e]
      <4>1. outcome'[e] = [outcome[e] EXCEPT ![s] = "answered"]
        BY <2>3, <3>1 DEF TypeOK
      <4> QED BY <2>5, <3>1, <4>1
    <3>2. CASE s \notin promises[e]
      BY <2>3, <3>2
    <3> QED BY <3>1, <3>2
  <2>7. promises[e] = {t \in Serials : outcome[e][t] = "waiting"}
    BY DEF Promised, NoOrphanedPromise
  <2>8. Promised'
    BY <2>1, <2>4, <2>6, <2>7 DEF Promised, NoOrphanedPromise
  <2>9. Outcomes
    BY <2>4, <2>6, <2>7 DEF Outcomes
  <2> QED BY <2>8, <2>9
<1>5. ASSUME NEW e \in Ends, layer4_on_close(e)
      PROVE  Promised' /\ Outcomes
  <2>1. /\ mutex[e] = "free" /\ mutex' = mutex
        /\ closed' = [closed EXCEPT ![e] = TRUE]
        /\ promises' = [promises EXCEPT ![e] = {}]
        /\ outcome' = [outcome EXCEPT ![e] =
                [s \in Serials |-> IF s \in promises[e] THEN "lost" ELSE @[s]]]
    BY <1>5 DEF layer4_on_close, MutexFree
  <2>2. /\ promises'[e] = {}
        /\ \A d \in Ends : d # e => /\ outcome'[d] = outcome[d] /\ promises'[d] = promises[d]
                                    /\ closed'[d] = closed[d]
        /\ \A s \in Serials : outcome'[e][s] = IF s \in promises[e] THEN "lost" ELSE outcome[e][s]
    BY <2>1 DEF TypeOK
  <2>3. promises[e] = {t \in Serials : outcome[e][t] = "waiting"}
    BY DEF Promised, NoOrphanedPromise
  <2>4. Promised'
    BY <2>1, <2>2, <2>3 DEF Promised, NoOrphanedPromise
  <2>5. Outcomes
    BY <2>2, <2>3 DEF Outcomes
  <2> QED BY <2>4, <2>5
<1>6. ASSUME NEW e \in Ends, InflateRequest(e)
      PROVE  UNCHANGED <<promises, outcome, closed, mutex>>
  BY <1>6 DEF InflateRequest, InflateOrFail, requestVars
<1>7. \/ /\ UNCHANGED <<promises, outcome, closed>>
         /\ \A e \in Ends : mutex'[e] = "request" => mutex[e] = "request"
      \/ \E e \in Ends : BeginRequest(e) \/ EndRequest(e) \/ InflateResponse(e) \/ layer4_on_close(e)
  <2>1. SayHello \/ HelloSaid => \A e \in Ends : mutex'[e] = "request" => mutex[e] = "request"
    BY DEF SayHello, HelloSaid, TypeOK, Ends
  <2>2. \/ UNCHANGED <<promises, outcome, closed>> /\ (UNCHANGED mutex \/ SayHello \/ HelloSaid)
        \/ \E e \in Ends : BeginRequest(e) \/ EndRequest(e) \/ InflateResponse(e) \/ layer4_on_close(e)
    BY <1>6 DEF Next, SayHello, HelloSaid, Ping, ShutdownByOthers, Dispatcher, PerformJob,
           ShutdownAfterJob, DropJob, Workhorse, DropTask, DeflateHello, DeflateUser,
           RefuseHello, server_accept_hello, Authenticate, client_accept_hello,
           Epoll, layer5_on_receive_data, layer5_on_receive_control, HangUp, requestVars
  <2> QED BY <2>1, <2>2
<1>8. CASE /\ UNCHANGED <<promises, outcome, closed>>
           /\ \A e \in Ends : mutex'[e] = "request" => mutex[e] = "request"
  BY <1>8 DEF Promised, NoOrphanedPromise, Outcomes
<1> QED BY <1>1, <1>2, <1>3, <1>4, <1>5, <1>7, <1>8

-------------------------------------------------------------------------------
\* Requests

\* The three forms of request s on its way: what the workhorse is to encode, the
\* frame, and what the workhorse of the peer is to decode.
OutReq(s)  == {Out(Request(s))}
WireReq(s) == [kind: {"request"}, serial: {s}, seed: Seeds]
InReq(s)   == [dir: {"in"}, msg: WireReq(s)]

\* No two members of T stand in q.
Single(q, T) == \A x \in T : Leads(q, x, T)

\* The queue r has no more of T than q.
Keeps(q, r, T) ==
    /\ Single(q, T) => Single(r, T)
    /\ Free(q, T) => Free(r, T)

\* Request s of the peer is in the peer's queue, on the wire, in the queue of e.
Queued(e, s)  == ~Free(camp[Peer(e)], OutReq(s))
Travels(e, s) == ~Free(wire[e], WireReq(s))
Arrived(e, s) == ~Free(camp[e], InReq(s))

Sent(e, s) == outcome[Peer(e)][s] # "unsent"

\* Request s of the peer of e is in one place at most, once, if it has been sent.
Once(e, s) ==
    /\ Single(camp[Peer(e)], OutReq(s))
    /\ Single(wire[e], WireReq(s))
    /\ Single(camp[e], InReq(s))
    /\ Queued(e, s) => ~Travels(e, s) /\ ~Arrived(e, s) /\ s \notin jobs[e] /\ s \notin performed[e]
    /\ Travels(e, s) => ~Arrived(e, s) /\ s \notin jobs[e] /\ s \notin performed[e]
    /\ Arrived(e, s) => s \notin jobs[e] /\ s \notin performed[e]
    /\ s \in jobs[e] => s \notin performed[e]
    /\ Queued(e, s) \/ Travels(e, s) \/ Arrived(e, s) \/ s \in jobs[e] \/ s \in performed[e] =>
            Sent(e, s)

OnceInv == \A e \in Ends, s \in Serials : Once(e, s)

\* What queues do to a set of which they hold one member at most.
LEMMA KeepsFacts ==
  /\ \A q, T : Keeps(q, q, T) /\ Keeps(q, <<>>, T)
  /\ \A q, r, z, T : Keeps(q, r, T) /\ Keeps(r, z, T) => Keeps(q, z, T)
  /\ \A q, y, r, T : Puts(q, y, r) /\ y \notin T => Keeps(q, r, T)
  /\ \A q, y, r, T : Puts(q, y, r) /\ Single(q, T) /\ Free(q, T) => Single(r, T)
  /\ \A q, y, r, T : Puts(q, y, r) /\ Free(q, T) /\ y \notin T => Free(r, T)
  /\ \A q, y, r, T : Drops(q, y, r) => Keeps(q, r, T) /\ (y \in T => ~Free(q, T))
  /\ \A q, y, r, T : Drops(q, y, r) /\ Single(q, T) /\ y \in T => Free(r, T)
<1>1. \A q, T : Keeps(q, q, T) /\ Keeps(q, <<>>, T)
  BY EmptyFacts DEF Keeps, Single
<1>2. \A q, y, r, T : Puts(q, y, r) /\ y \notin T => Keeps(q, r, T)
  BY DEF Keeps, Puts, Single
<1>3. \A q, y, r, T : Puts(q, y, r) /\ Single(q, T) /\ Free(q, T) => Single(r, T)
  BY DEF Puts, Single
<1>4. \A q, y, r, T : Puts(q, y, r) /\ Free(q, T) /\ y \notin T => Free(r, T)
  BY DEF Puts
<1>5. \A q, y, r, T : Drops(q, y, r) => Keeps(q, r, T) /\ (y \in T => ~Free(q, T))
  BY DEF Keeps, Drops, Single
<1>6. ASSUME NEW q, NEW y, NEW r, NEW T, Drops(q, y, r), Single(q, T), y \in T
      PROVE  Free(r, T)
  <2>1. \A x \in T : ~Has(r, x)
    BY <1>6 DEF Drops, Single
  <2> QED BY <2>1 DEF Has, Free
<1>7. \A q, r, z, T : Keeps(q, r, T) /\ Keeps(r, z, T) => Keeps(q, z, T)
  BY DEF Keeps
<1> QED BY <1>1, <1>2, <1>3, <1>4, <1>5, <1>6, <1>7

\* A request that only goes from one place to the next stays in one place.
LEMMA OnceMoves ==
  ASSUME NEW e \in Ends, NEW s \in Serials, Once(e, s),
         Single(camp[Peer(e)], OutReq(s))', Single(wire[e], WireReq(s))', Single(camp[e], InReq(s))',
         Queued(e, s)' => Queued(e, s) \/ (~Sent(e, s) /\ Sent(e, s)'),
         Travels(e, s)' => Travels(e, s) \/ (Queued(e, s) /\ ~Queued(e, s)'),
         Arrived(e, s)' => Arrived(e, s) \/ (Travels(e, s) /\ ~Travels(e, s)'),
         s \in jobs'[e] => s \in jobs[e] \/ (Arrived(e, s) /\ ~Arrived(e, s)'),
         s \in performed'[e] => s \in performed[e] \/ (s \in jobs[e] /\ s \notin jobs'[e]),
         Sent(e, s) => Sent(e, s)'
  PROVE  Once(e, s)'
BY DEF Once

CampKept ==
    \A e \in Ends, s \in Serials :
        Keeps(camp[e], camp'[e], OutReq(s)) /\ Keeps(camp[e], camp'[e], InReq(s))

WireKept == \A e \in Ends, s \in Serials : Keeps(wire[e], wire'[e], WireReq(s))

JobsKept == \A e \in Ends : jobs'[e] \subseteq jobs[e] /\ performed'[e] \subseteq performed[e]

\* A step that moves no request keeps them where they are.
LEMMA NothingMoves ==
  ASSUME OnceInv, CampKept, WireKept, JobsKept, Outcomes
  PROVE  OnceInv'
<1>1. SUFFICES ASSUME NEW e \in Ends, NEW s \in Serials
               PROVE  Once(e, s)'
  BY DEF OnceInv
<1>2. Once(e, s) /\ Peer(e) \in Ends /\ Peer(e)' = Peer(e)
  BY DEF OnceInv, Peer, Ends
<1>3. /\ Single(camp'[Peer(e)], OutReq(s)) /\ Single(wire'[e], WireReq(s))
      /\ Single(camp'[e], InReq(s))
      /\ Free(camp[Peer(e)], OutReq(s)) => Free(camp'[Peer(e)], OutReq(s))
      /\ Free(wire[e], WireReq(s)) => Free(wire'[e], WireReq(s))
      /\ Free(camp[e], InReq(s)) => Free(camp'[e], InReq(s))
  BY <1>2 DEF CampKept, WireKept, Keeps, Once
<1>4. /\ (Queued(e, s)' => Queued(e, s)) /\ (Travels(e, s)' => Travels(e, s))
      /\ (Arrived(e, s)' => Arrived(e, s)) /\ (Sent(e, s) => Sent(e, s)')
  BY <1>2, <1>3 DEF Queued, Travels, Arrived, Sent, Outcomes
<1>5. /\ Single(camp[Peer(e)], OutReq(s))' /\ Single(wire[e], WireReq(s))'
      /\ Single(camp[e], InReq(s))'
  BY <1>2, <1>3
<1>6. (s \in jobs'[e] => s \in jobs[e]) /\ (s \in performed'[e] => s \in performed[e])
  BY DEF JobsKept
<1> QED BY <1>2, <1>4, <1>5, <1>6, OnceMoves

\* The forms of different requests are different.
LEMMA FormFacts ==
  /\ \A s, m : Out(m) \notin InReq(s) /\ In(m) \notin OutReq(s)
  /\ \A s, m : m.kind # "request" => Out(m) \notin OutReq(s) /\ m \notin WireReq(s) /\ In(m) \notin InReq(s)
  /\ \A s, t : Out(Request(t)) \in OutReq(s) => t = s
  /\ \A s, m : (In(m) \in InReq(s) <=> m \in WireReq(s)) /\ (m \in WireReq(s) => m.serial = s)
BY DEF Out, In, OutReq, InReq, WireReq, Request

\* What the workhorse takes is no more in its queue.
LEMMA DoneKeeps ==
  ASSUME TypeOK, NEW e \in Ends, camp[e] # <<>>, CampDone(e)
  PROVE  /\ CampKept
         /\ \A T : Head(camp[e]) \in T => ~Free(camp[e], T)
         /\ \A T : Single(camp[e], T) /\ Head(camp[e]) \in T => Free(camp'[e], T)
<1>1. camp \in [Ends -> Seq(Tasks)]
  BY QueueTypes
<1>2. camp[e] \in Seq(Tasks)
  BY <1>1
<1>3. Drops(camp[e], Head(camp[e]), Tail(camp[e]))
  BY <1>2, TailDrops
<1>4. camp'[e] = Tail(camp[e]) /\ \A d \in Ends : d # e => camp'[d] = camp[d]
  BY <1>1 DEF CampDone
<1>5. CampKept
  BY <1>3, <1>4, KeepsFacts DEF CampKept
<1>6. \A T : Head(camp[e]) \in T => ~Free(camp[e], T)
  BY <1>3, KeepsFacts
<1>7. \A T : Single(camp[e], T) /\ Head(camp[e]) \in T => Free(camp'[e], T)
  BY <1>3, <1>4, KeepsFacts
<1> QED BY <1>5, <1>6, <1>7

\* What is launched or received is in the queue of the one end.
LEMMA AppendKeeps ==
  ASSUME TypeOK, NEW e \in Ends, NEW y \in Tasks, camp' = [camp EXCEPT ![e] = Append(@, y)]
  PROVE  /\ Puts(camp[e], y, camp'[e])
         /\ \A d \in Ends : d # e => camp'[d] = camp[d]
         /\ (\A s \in Serials : y \notin OutReq(s) /\ y \notin InReq(s)) => CampKept
<1>1. camp \in [Ends -> Seq(Tasks)]
  BY QueueTypes
<1>2. camp[e] \in Seq(Tasks)
  BY <1>1
<1>3. Puts(camp[e], y, Append(camp[e], y))
  BY <1>2, AppendPuts
<1>4. camp'[e] = Append(camp[e], y) /\ \A d \in Ends : d # e => camp'[d] = camp[d]
  BY <1>1
<1> QED BY <1>3, <1>4, KeepsFacts DEF CampKept

\* What is sent is on the wire to the peer, if it can be received.
LEMMA SendKeeps ==
  ASSUME TypeOK, NEW e \in Ends, NEW f \in Frames, SendFrame(e, f)
  PROVE  /\ Puts(wire[Peer(e)], f, wire'[Peer(e)]) \/ wire' = wire
         /\ \A d \in Ends : d # Peer(e) => wire'[d] = wire[d]
         /\ (\A s \in Serials : f \notin WireReq(s)) => WireKept
<1>1. wire \in [Ends -> Seq(Frames)] /\ Peer(e) \in Ends
  BY QueueTypes DEF Peer, Ends
<1>2. wire[Peer(e)] \in Seq(Frames)
  BY <1>1
<1>3. Puts(wire[Peer(e)], f, Append(wire[Peer(e)], f))
  BY <1>2, AppendPuts
<1>4. CASE closed[Peer(e)]
  <2>1. wire' = wire
    BY <1>1, <1>4 DEF SendFrame
  <2> QED BY <2>1, KeepsFacts DEF WireKept
<1>5. CASE ~closed[Peer(e)]
  <2>1. /\ wire'[Peer(e)] = Append(wire[Peer(e)], f)
        /\ \A d \in Ends : d # Peer(e) => wire'[d] = wire[d]
    BY <1>1, <1>5 DEF SendFrame
  <2> QED BY <1>3, <2>1, KeepsFacts DEF WireKept
<1> QED BY <1>4, <1>5

\* The dispatcher sends a request that has not been sent.
LEMMA EndRequestOnce ==
  ASSUME TypeOK, OnceInv, Outcomes, NEW a \in Ends, EndRequest(a)
  PROVE  OnceInv'
<1>1. PICK t \in 1..Requests(a) :
          /\ outcome[a][t] = "unsent"
          /\ outcome' = [outcome EXCEPT ![a][t] = "waiting"]
          /\ launch_deflate_and_send(a, Request(t))
  BY DEF EndRequest
<1>2. /\ t \in Serials /\ UNCHANGED <<wire, jobs, performed>>
      /\ Out(Request(t)) \in Tasks
  BY DEF EndRequest, Requests, Serials, Tasks, Outs, Out, Request, User
<1>3. /\ Puts(camp[a], Out(Request(t)), camp'[a])
      /\ \A d \in Ends : d # a => camp'[d] = camp[d]
  BY <1>1, <1>2, AppendKeeps DEF launch_deflate_and_send
<1>4. outcome'[a][t] = "waiting"
  BY <1>1, <1>2 DEF TypeOK
<1>5. SUFFICES ASSUME NEW e \in Ends, NEW s \in Serials
               PROVE  Once(e, s)'
  BY DEF OnceInv
<1>6. Once(e, s) /\ Peer(e) \in Ends /\ Peer(e)' = Peer(e)
  BY DEF OnceInv, Peer, Ends
<1>7. Keeps(camp[e], camp'[e], InReq(s)) /\ (s # t => Keeps(camp[a], camp'[a], OutReq(s)))
  BY <1>3, KeepsFacts, FormFacts
<1>8. CASE Peer(e) = a /\ s = t
  <2>1. ~Sent(e, s) /\ Sent(e, s)'
    BY <1>1, <1>4, <1>6, <1>8 DEF Sent
  <2>2. Single(camp[a], OutReq(s)) /\ Free(camp[a], OutReq(s))
    BY <1>6, <1>8, <2>1 DEF Once, Queued
  <2>3. Single(camp'[a], OutReq(s))
    BY <1>3, <2>2, KeepsFacts
  <2>4. /\ Single(camp[Peer(e)], OutReq(s))' /\ Single(wire[e], WireReq(s))'
        /\ Single(camp[e], InReq(s))'
    BY <1>2, <1>6, <1>7, <1>8, <2>3 DEF Keeps, Once
  <2>5. (Travels(e, s)' => Travels(e, s)) /\ (Arrived(e, s)' => Arrived(e, s))
    BY <1>2, <1>7 DEF Travels, Arrived, Keeps
  <2> QED BY <1>2, <1>6, <2>1, <2>4, <2>5, OnceMoves
<1>9. CASE ~(Peer(e) = a /\ s = t)
  <2>1. Keeps(camp[Peer(e)], camp'[Peer(e)], OutReq(s))
    BY <1>3, <1>6, <1>7, <1>9, KeepsFacts
  <2>2. /\ Single(camp[Peer(e)], OutReq(s))' /\ Single(wire[e], WireReq(s))'
        /\ Single(camp[e], InReq(s))'
    BY <1>2, <1>6, <1>7, <2>1 DEF Keeps, Once
  <2>3. /\ (Queued(e, s)' => Queued(e, s)) /\ (Travels(e, s)' => Travels(e, s))
        /\ (Arrived(e, s)' => Arrived(e, s)) /\ (Sent(e, s) => Sent(e, s)')
    BY <1>2, <1>6, <1>7, <2>1 DEF Queued, Travels, Arrived, Sent, Keeps, Outcomes
  <2> QED BY <1>2, <1>6, <2>2, <2>3, OnceMoves
<1> QED BY <1>8, <1>9

\* The workhorse sends a request that it takes from its queue.
LEMMA DeflateOnce ==
  ASSUME TypeOK, OnceInv, Outcomes, NEW a \in Ends, DeflateUser(a, "request")
  PROVE  OnceInv'
<1> DEFINE t == HeadMsg(a).serial
           f == [kind |-> "request", serial |-> HeadMsg(a).serial, seed |-> encoder[a]]
<1>1. /\ t \in Serials /\ Head(camp[a]) = Out(Request(t)) /\ camp[a] # <<>> /\ CampDone(a)
      /\ f \in Frames /\ SendFrame(a, f) /\ f \in WireReq(t) /\ UNCHANGED <<jobs, performed>>
  <2>1. /\ Takes(a, "out", "request") /\ CampDone(a) /\ SendFrame(a, f)
        /\ UNCHANGED <<jobs, performed>>
    BY DEF DeflateUser, requestVars
  <2>2. t \in Serials /\ HeadMsg(a) \in User /\ HeadMsg(a).kind = "request"
    BY <2>1, HeadTypes
  <2>3. HeadMsg(a) = Request(t)
    BY <2>2 DEF User, Request
  <2>4. Head(camp[a]) \in Tasks /\ Head(camp[a]).dir = "out" /\ Head(camp[a]).msg = HeadMsg(a)
    BY <2>1, QueueTypes DEF Takes, HeadMsg
  <2>5. Head(camp[a]) = Out(Request(t))
    BY <2>3, <2>4 DEF Tasks, Outs, Ins, Out
  <2>6. encoder[a] \in Seeds
    BY DEF TypeOK
  <2>7. f \in Frames /\ f \in WireReq(t)
    BY <2>2, <2>6 DEF Frames, Encoded, WireReq
  <2> QED BY <2>1, <2>2, <2>5, <2>7 DEF Takes
<1> HIDE DEF t, f
<1>2. /\ CampKept /\ Head(camp[a]) \in OutReq(t)
      /\ ~Free(camp[a], OutReq(t))
      /\ Single(camp[a], OutReq(t)) => Free(camp'[a], OutReq(t))
  <2>1. Head(camp[a]) \in OutReq(t)
    BY <1>1 DEF OutReq
  <2> QED BY <1>1, <2>1, DoneKeeps
<1>3. /\ Puts(wire[Peer(a)], f, wire'[Peer(a)]) \/ wire' = wire
      /\ \A d \in Ends : d # Peer(a) => wire'[d] = wire[d]
  BY <1>1, SendKeeps
<1>4. SUFFICES ASSUME NEW e \in Ends, NEW s \in Serials
               PROVE  Once(e, s)'
  BY DEF OnceInv
<1>5. Once(e, s) /\ Peer(e) \in Ends /\ Peer(e)' = Peer(e) /\ Peer(Peer(e)) = e /\ Peer(Peer(a)) = a
  BY DEF OnceInv, Peer, Ends
<1>6. Keeps(camp[Peer(e)], camp'[Peer(e)], OutReq(s)) /\ Keeps(camp[e], camp'[e], InReq(s))
  BY <1>2, <1>5 DEF CampKept
<1>7. /\ (Queued(e, s)' => Queued(e, s)) /\ (Arrived(e, s)' => Arrived(e, s))
      /\ (Sent(e, s) => Sent(e, s)')
      /\ Single(camp'[Peer(e)], OutReq(s)) /\ Single(camp'[e], InReq(s))
  BY <1>5, <1>6 DEF Queued, Arrived, Sent, Keeps, Outcomes, Once
<1>8. CASE e = Peer(a) /\ s = t
  <2>1. Queued(e, s) /\ ~Queued(e, s)'
    BY <1>2, <1>5, <1>8 DEF Queued, Once
  <2>2. Free(wire[e], WireReq(s)) /\ Single(wire[e], WireReq(s))
    BY <1>5, <2>1 DEF Once, Travels
  <2>3. Single(wire'[e], WireReq(s))
    BY <1>3, <1>8, <2>2, KeepsFacts
  <2>4. /\ Single(camp[Peer(e)], OutReq(s))' /\ Single(wire[e], WireReq(s))'
        /\ Single(camp[e], InReq(s))'
    BY <1>5, <1>7, <2>3
  <2> QED BY <1>1, <1>5, <1>7, <2>1, <2>4, OnceMoves
<1>9. CASE ~(e = Peer(a) /\ s = t)
  <2>1. Keeps(wire[e], wire'[e], WireReq(s))
    <3>1. s # t => f \notin WireReq(s)
      BY <1>1, FormFacts
    <3> QED BY <1>3, <1>9, <3>1, KeepsFacts
  <2>2. /\ Single(camp[Peer(e)], OutReq(s))' /\ Single(wire[e], WireReq(s))'
        /\ Single(camp[e], InReq(s))'
    BY <1>5, <1>7, <2>1 DEF Keeps, Once
  <2>3. Travels(e, s)' => Travels(e, s)
    BY <2>1 DEF Travels, Keeps
  <2> QED BY <1>1, <1>5, <1>7, <2>2, <2>3, OnceMoves
<1> QED BY <1>8, <1>9

\* The epoll thread hands to the workhorse what it takes from the wire.
LEMMA ReceiveOnce ==
  ASSUME TypeOK, OnceInv, Outcomes, NEW a \in Ends, layer5_on_receive_data(a)
  PROVE  OnceInv'
<1> DEFINE f == Head(wire[a])
<1>1. /\ wire[a] # <<>> /\ wire' = [wire EXCEPT ![a] = Tail(@)]
      /\ camp' = [camp EXCEPT ![a] = Append(@, In(f))]
      /\ f \notin Control /\ UNCHANGED <<jobs, performed>>
  BY DEF layer5_on_receive_data, requestVars
<1>2. f \in Frames /\ wire \in [Ends -> Seq(Frames)] /\ wire[a] \in Seq(Frames)
  BY <1>1, QueueTypes
<1>3. In(f) \in Tasks
  BY <1>1, <1>2 DEF Frames, Tasks, In, Ins
<1>4. /\ Drops(wire[a], f, wire'[a])
      /\ \A d \in Ends : d # a => wire'[d] = wire[d]
  <2>1. Drops(wire[a], f, Tail(wire[a]))
    BY <1>1, <1>2, TailDrops
  <2> QED BY <1>1, <1>2, <2>1
<1> HIDE DEF f
<1>5. /\ Puts(camp[a], In(f), camp'[a])
      /\ \A d \in Ends : d # a => camp'[d] = camp[d]
  BY <1>1, <1>3, AppendKeeps
<1>6. SUFFICES ASSUME NEW e \in Ends, NEW s \in Serials
               PROVE  Once(e, s)'
  BY DEF OnceInv
<1>7. Once(e, s) /\ Peer(e) \in Ends /\ Peer(e)' = Peer(e)
  BY DEF OnceInv, Peer, Ends
<1>8. Keeps(wire[e], wire'[e], WireReq(s)) /\ Keeps(camp[Peer(e)], camp'[Peer(e)], OutReq(s))
  BY <1>4, <1>5, <1>7, FormFacts, KeepsFacts
<1>9. /\ (Queued(e, s)' => Queued(e, s)) /\ (Travels(e, s)' => Travels(e, s))
      /\ (Sent(e, s) => Sent(e, s)')
      /\ Single(camp'[Peer(e)], OutReq(s)) /\ Single(wire'[e], WireReq(s))
  BY <1>7, <1>8 DEF Queued, Travels, Sent, Keeps, Outcomes, Once
<1>10. CASE e = a /\ f \in WireReq(s)
  <2>1. Single(wire[a], WireReq(s)) /\ Single(camp[a], InReq(s))
    BY <1>7, <1>10 DEF Once
  <2>2. ~Free(wire[a], WireReq(s)) /\ Free(wire'[a], WireReq(s))
    BY <1>4, <1>10, <2>1, KeepsFacts
  <2>3. Travels(e, s) /\ ~Travels(e, s)'
    BY <1>10, <2>2 DEF Travels
  <2>4. Free(camp[a], InReq(s))
    BY <1>7, <1>10, <2>3 DEF Once, Arrived
  <2>5. Single(camp'[a], InReq(s))
    BY <1>5, <2>1, <2>4, KeepsFacts
  <2>6. /\ Single(camp[Peer(e)], OutReq(s))' /\ Single(wire[e], WireReq(s))'
        /\ Single(camp[e], InReq(s))'
    BY <1>7, <1>9, <1>10, <2>5
  <2> QED BY <1>1, <1>7, <1>9, <2>3, <2>6, OnceMoves
<1>11. CASE ~(e = a /\ f \in WireReq(s))
  <2>1. Keeps(camp[e], camp'[e], InReq(s))
    BY <1>5, <1>11, FormFacts, KeepsFacts
  <2>2. /\ Single(camp[Peer(e)], OutReq(s))' /\ Single(wire[e], WireReq(s))'
        /\ Single(camp[e], InReq(s))'
    BY <1>7, <1>9, <2>1 DEF Keeps, Once
  <2>3. Arrived(e, s)' => Arrived(e, s)
    BY <2>1 DEF Arrived, Keeps
  <2> QED BY <1>1, <1>7, <1>9, <2>2, <2>3, OnceMoves
<1> QED BY <1>10, <1>11

\* The workhorse makes a job of a request that it takes from its queue.
LEMMA InflateOnce ==
  ASSUME TypeOK, OnceInv, Outcomes, NEW a \in Ends, InflateRequest(a), ~Garbled(a)
  PROVE  OnceInv'
<1> DEFINE t == HeadMsg(a).serial
<1>1. /\ t \in Serials /\ Head(camp[a]) \in InReq(t) /\ camp[a] # <<>> /\ CampDone(a)
      /\ jobs' = [jobs EXCEPT ![a] = @ \cup {t}] /\ UNCHANGED <<wire, performed>>
  <2>1. Takes(a, "in", "request") /\ CampDone(a) /\ wire' = wire
    BY DEF InflateRequest
  <2>2. jobs' = [jobs EXCEPT ![a] = @ \cup {t}] /\ performed' = performed
    BY DEF InflateRequest, InflateOrFail
  <2>3. t \in Serials /\ HeadMsg(a) \in Encoded /\ HeadMsg(a).kind = "request"
    BY <2>1, HeadTypes
  <2>4. HeadMsg(a) \in WireReq(t)
    BY <2>3 DEF Encoded, WireReq
  <2>5. Head(camp[a]) \in Tasks /\ Head(camp[a]).dir = "in" /\ Head(camp[a]).msg = HeadMsg(a)
    BY <2>1, QueueTypes DEF Takes, HeadMsg
  <2>6. Head(camp[a]) \in InReq(t)
    BY <2>4, <2>5 DEF Tasks, Outs, Ins, InReq
  <2> QED BY <2>1, <2>2, <2>3, <2>6 DEF Takes
<1> HIDE DEF t
<1>2. /\ CampKept /\ ~Free(camp[a], InReq(t))
      /\ Single(camp[a], InReq(t)) => Free(camp'[a], InReq(t))
  BY <1>1, DoneKeeps
<1>3. \A d \in Ends : jobs'[d] = IF d = a THEN jobs[d] \cup {t} ELSE jobs[d]
  BY <1>1 DEF TypeOK
<1>4. SUFFICES ASSUME NEW e \in Ends, NEW s \in Serials
               PROVE  Once(e, s)'
  BY DEF OnceInv
<1>5. Once(e, s) /\ Peer(e) \in Ends /\ Peer(e)' = Peer(e)
  BY DEF OnceInv, Peer, Ends
<1>6. Keeps(camp[Peer(e)], camp'[Peer(e)], OutReq(s)) /\ Keeps(camp[e], camp'[e], InReq(s))
  BY <1>2, <1>5 DEF CampKept
<1>7. /\ (Queued(e, s)' => Queued(e, s)) /\ (Travels(e, s)' => Travels(e, s))
      /\ (Arrived(e, s)' => Arrived(e, s)) /\ (Sent(e, s) => Sent(e, s)')
      /\ Single(camp[Peer(e)], OutReq(s))' /\ Single(wire[e], WireReq(s))'
      /\ Single(camp[e], InReq(s))'
  BY <1>1, <1>5, <1>6 DEF Queued, Travels, Arrived, Sent, Keeps, Outcomes, Once
<1>8. s \in jobs'[e] => s \in jobs[e] \/ (Arrived(e, s) /\ ~Arrived(e, s)')
  <2>1. CASE e = a /\ s = t
    BY <1>2, <1>5, <2>1 DEF Arrived, Once
  <2>2. CASE ~(e = a /\ s = t)
    BY <1>3, <2>2
  <2> QED BY <2>1, <2>2
<1> QED BY <1>1, <1>5, <1>7, <1>8, OnceMoves

\* The dispatcher performs a job and forgets it.
LEMMA PerformOnce ==
  ASSUME TypeOK, OnceInv, Outcomes, NEW a \in Ends, PerformJob(a)
  PROVE  OnceInv'
<1>1. PICK t \in jobs[a] :
          /\ jobs' = [jobs EXCEPT ![a] = @ \ {t}]
          /\ performed' = [performed EXCEPT ![a] = @ \cup {t}]
          /\ launch_deflate_and_send(a, Response(t))
          /\ wire' = wire
  BY DEF PerformJob
<1>2. CampKept
  <2>1. Response(t) \in User /\ Response(t).kind # "request"
    BY DEF TypeOK, Response, User
  <2>2. Out(Response(t)) \in Tasks
    BY <2>1 DEF Tasks, Outs, Out
  <2>3. \A s \in Serials : Out(Response(t)) \notin OutReq(s) /\ Out(Response(t)) \notin InReq(s)
    BY <2>1, FormFacts
  <2>4. camp' = [camp EXCEPT ![a] = Append(@, Out(Response(t)))]
    BY <1>1 DEF launch_deflate_and_send
  <2> QED BY <2>2, <2>3, <2>4, AppendKeeps
<1>3. \A d \in Ends : /\ jobs'[d] = IF d = a THEN jobs[d] \ {t} ELSE jobs[d]
                      /\ performed'[d] = IF d = a THEN performed[d] \cup {t} ELSE performed[d]
  BY <1>1 DEF TypeOK
<1>4. SUFFICES ASSUME NEW e \in Ends, NEW s \in Serials
               PROVE  Once(e, s)'
  BY DEF OnceInv
<1>5. Once(e, s) /\ Peer(e) \in Ends /\ Peer(e)' = Peer(e)
  BY DEF OnceInv, Peer, Ends
<1>6. Keeps(camp[Peer(e)], camp'[Peer(e)], OutReq(s)) /\ Keeps(camp[e], camp'[e], InReq(s))
  BY <1>2, <1>5 DEF CampKept
<1>7. /\ (Queued(e, s)' => Queued(e, s)) /\ (Travels(e, s)' => Travels(e, s))
      /\ (Arrived(e, s)' => Arrived(e, s)) /\ (Sent(e, s) => Sent(e, s)')
      /\ Single(camp[Peer(e)], OutReq(s))' /\ Single(wire[e], WireReq(s))'
      /\ Single(camp[e], InReq(s))'
  BY <1>1, <1>5, <1>6 DEF Queued, Travels, Arrived, Sent, Keeps, Outcomes, Once
<1>8. /\ s \in jobs'[e] => s \in jobs[e]
      /\ s \in performed'[e] => s \in performed[e] \/ (s \in jobs[e] /\ s \notin jobs'[e])
  BY <1>1, <1>3
<1> QED BY <1>5, <1>7, <1>8, OnceMoves

\* No other step moves a request.
LEMMA OnceStep ==
  ASSUME TypeOK, OnceInv, Outcomes, Next
  PROVE  OnceInv'
<1>1. (UNCHANGED camp => CampKept) /\ (UNCHANGED wire => WireKept)
      /\ (UNCHANGED <<jobs, performed>> => JobsKept)
  BY KeepsFacts DEF CampKept, WireKept, JobsKept
<1>2. wire \in [Ends -> Seq(Frames)] /\ camp \in [Ends -> Seq(Tasks)] /\ "server" \in Ends
      /\ "client" \in Ends
  BY QueueTypes DEF Ends
<1>3. CASE SayHello
  <2>1. /\ camp' = [camp EXCEPT !["client"] = Append(@, Out(ClientHello))]
        /\ UNCHANGED <<wire, jobs, performed>>
    BY <1>3 DEF SayHello, launch_deflate_and_send, requestVars
  <2>2. Out(ClientHello) \in Tasks /\ ClientHello.kind # "request"
    BY DEF Tasks, Outs, Out, ClientHello, Hello
  <2>3. \A s : Out(ClientHello) \notin OutReq(s) /\ Out(ClientHello) \notin InReq(s)
    BY <2>2, FormFacts
  <2>4. CampKept
    BY <1>2, <2>1, <2>2, <2>3, AppendKeeps
  <2> QED BY <1>1, <2>1, <2>4, NothingMoves
<1>4. CASE Ping
  <2>1. /\ SendFrame("client", PingFrame) /\ UNCHANGED <<camp, jobs, performed>>
    BY <1>4 DEF Ping, requestVars, PingFrame
  <2>2. PingFrame \in Frames /\ PingFrame.kind # "request"
    BY DEF PingFrame, Frames, Control
  <2>3. WireKept
    BY <1>2, <2>1, <2>2, SendKeeps, FormFacts
  <2> QED BY <1>1, <2>1, <2>3, NothingMoves
<1>5. ASSUME NEW e \in Ends, DropJob(e)
      PROVE  OnceInv'
  <2>1. JobsKept /\ UNCHANGED <<camp, wire>>
    BY <1>5 DEF DropJob, JobsKept, TypeOK
  <2> QED BY <1>1, <2>1, NothingMoves
<1>6. ASSUME NEW e \in Ends, camp[e] # <<>>, CampDone(e), UNCHANGED <<wire, jobs, performed>>
      PROVE  OnceInv'
  BY <1>1, <1>6, DoneKeeps, NothingMoves
<1>7. ASSUME NEW e \in Ends, NEW kind \in {"client_hello", "server_hello"}, DeflateHello(e, kind)
      PROVE  OnceInv'
  <2>1. /\ Takes(e, "out", kind) /\ CampDone(e) /\ UNCHANGED <<jobs, performed>>
        /\ UNCHANGED wire \/ SendFrame(e, HeadMsg(e))
    BY <1>7 DEF DeflateHello, requestVars
  <2>2. HeadMsg(e) \in Frames /\ HeadMsg(e).kind # "request"
    BY <2>1, HeadTypes DEF Frames
  <2>3. CampKept
    BY <2>1, DoneKeeps DEF Takes
  <2>4. WireKept
    <3>1. \A s \in Serials : HeadMsg(e) \notin WireReq(s)
      BY <2>2, FormFacts
    <3> QED BY <1>1, <2>1, <2>2, <3>1, SendKeeps
  <2> QED BY <1>1, <2>1, <2>3, <2>4, NothingMoves
<1>8. ASSUME NEW e \in Ends, DeflateUser(e, "response")
      PROVE  OnceInv'
  <2>1. /\ Takes(e, "out", "response") /\ CampDone(e) /\ UNCHANGED <<jobs, performed>>
        /\ SendFrame(e, [kind |-> "response", serial |-> HeadMsg(e).serial, seed |-> encoder[e]])
    BY <1>8 DEF DeflateUser, requestVars
  <2> DEFINE f == [kind |-> "response", serial |-> HeadMsg(e).serial, seed |-> encoder[e]]
  <2>2. HeadMsg(e).serial \in Serials /\ encoder[e] \in Seeds
    BY <2>1, HeadTypes DEF TypeOK
  <2>3. f \in Frames /\ f.kind # "request"
    BY <2>2 DEF Frames, Encoded
  <2>4. CampKept
    BY <2>1, DoneKeeps DEF Takes
  <2>5. WireKept
    <3>1. \A s \in Serials : f \notin WireReq(s)
      BY <2>3, FormFacts
    <3> HIDE DEF f
    <3>2. SendFrame(e, f)
      BY <2>1 DEF f
    <3> QED BY <2>3, <3>1, <3>2, SendKeeps
  <2> QED BY <1>1, <2>1, <2>4, <2>5, NothingMoves
<1>9. CASE server_accept_hello
  <2>1. /\ camp["server"] # <<>> /\ UNCHANGED <<wire, jobs, performed>>
        /\ \/ CampDone("server")
           \/ camp' = [camp EXCEPT !["server"] = Append(Tail(@), Out(ServerHello))]
    BY <1>9 DEF server_accept_hello, Takes, requestVars
  <2>2. CASE CampDone("server")
    BY <1>2, <1>6, <2>1, <2>2
  <2>3. CASE camp' = [camp EXCEPT !["server"] = Append(Tail(@), Out(ServerHello))]
    <3> DEFINE q == camp["server"]
               r == Tail(camp["server"])
               z == Append(Tail(camp["server"]), Out(ServerHello))
    <3>1. Out(ServerHello) \in Tasks /\ ServerHello.kind # "request"
      BY DEF Tasks, Outs, Out, ServerHello, Hello
    <3>2. q \in Seq(Tasks) /\ q # <<>>
      BY <1>2, <2>1
    <3>3. Drops(q, Head(q), r) /\ r \in Seq(Tasks)
      BY <3>2, TailDrops
    <3>4. Puts(r, Out(ServerHello), z)
      BY <3>1, <3>3, AppendPuts
    <3>5. camp'["server"] = z /\ \A d \in Ends : d # "server" => camp'[d] = camp[d]
      BY <1>2, <2>3
    <3> HIDE DEF q, r, z
    <3>6. \A s : Keeps(q, z, OutReq(s)) /\ Keeps(q, z, InReq(s))
      <4>1. \A T : Keeps(q, r, T)
        BY <3>3, KeepsFacts
      <4>2. \A s : Keeps(r, z, OutReq(s)) /\ Keeps(r, z, InReq(s))
        BY <3>1, <3>4, FormFacts, KeepsFacts
      <4> QED BY <4>1, <4>2, KeepsFacts
    <3>7. CampKept
      BY <3>5, <3>6, KeepsFacts DEF CampKept, q
    <3> QED BY <1>1, <2>1, <3>7, NothingMoves
  <2> QED BY <2>1, <2>2, <2>3
<1>10. ASSUME NEW e \in Ends, InflateResponse(e) \/ (InflateRequest(e) /\ Garbled(e))
       PROVE  OnceInv'
  <2>1. /\ Takes(e, "in", "response") \/ Takes(e, "in", "request")
        /\ CampDone(e) /\ UNCHANGED <<wire, jobs, performed>>
    BY <1>10 DEF InflateRequest, InflateResponse, InflateOrFail, SatisfyPromise, requestVars
  <2> QED BY <1>6, <2>1 DEF Takes
<1>11. ASSUME NEW e \in Ends, ReceiveHeartbeat(e), UNCHANGED <<camp, jobs, performed>>
       PROVE  OnceInv'
  <2>1. /\ wire[e] # <<>> /\ UNCHANGED <<camp, jobs, performed>>
        /\ \/ wire' = [wire EXCEPT ![e] = Tail(@)]
           \/ wire' = [wire EXCEPT ![e] = Tail(@), ![Peer(e)] = Append(@, PongFrame)]
    BY <1>11 DEF ReceiveHeartbeat, PongFrame
  <2>2. PongFrame \in Frames /\ PongFrame.kind # "request" /\ Peer(e) \in Ends /\ Peer(e) # e
    BY DEF PongFrame, Frames, Control, Peer, Ends
  <2>3. wire[e] \in Seq(Frames) /\ wire[Peer(e)] \in Seq(Frames)
    BY <1>2, <2>2
  <2>4. Drops(wire[e], Head(wire[e]), Tail(wire[e]))
    BY <2>1, <2>3, TailDrops
  <2>5. Puts(wire[Peer(e)], PongFrame, Append(wire[Peer(e)], PongFrame))
    BY <2>2, <2>3, AppendPuts
  <2>6. /\ wire'[e] = Tail(wire[e])
        /\ \A d \in Ends : d = e \/ d = Peer(e)
        /\ wire'[Peer(e)] \in {wire[Peer(e)], Append(wire[Peer(e)], PongFrame)}
    BY <1>2, <2>1, <2>2 DEF Peer, Ends
  <2>7. \A s : PongFrame \notin WireReq(s)
    BY <2>2, FormFacts
  <2>8. \A s : Keeps(wire[e], wire'[e], WireReq(s)) /\ Keeps(wire[Peer(e)], wire'[Peer(e)], WireReq(s))
    <3>1. \A T : Keeps(wire[e], wire'[e], T)
      BY <2>4, <2>6, KeepsFacts
    <3>2. ASSUME NEW s
          PROVE  Keeps(wire[Peer(e)], wire'[Peer(e)], WireReq(s))
      <4>1. CASE wire'[Peer(e)] = wire[Peer(e)]
        BY <4>1, KeepsFacts
      <4>2. CASE wire'[Peer(e)] = Append(wire[Peer(e)], PongFrame)
        BY <2>5, <2>7, <4>2, KeepsFacts
      <4> QED BY <2>6, <4>1, <4>2
    <3> QED BY <3>1, <3>2
  <2>9. WireKept
    BY <2>6, <2>8 DEF WireKept
  <2> QED BY <1>1, <2>1, <2>9, NothingMoves
<1>12. ASSUME NEW e \in Ends, layer4_on_close(e)
       PROVE  OnceInv'
  <2>1. wire' = [wire EXCEPT ![e] = <<>>] /\ UNCHANGED <<camp, jobs, performed>>
    BY <1>12 DEF layer4_on_close
  <2>2. WireKept
    BY <1>2, <2>1, KeepsFacts DEF WireKept
  <2> QED BY <1>1, <2>1, <2>2, NothingMoves
<1>13. ASSUME NEW e \in Ends, DropTask(e) \/ RefuseHello \/ client_accept_hello
       PROVE  OnceInv'
  <2>1. /\ UNCHANGED <<wire, jobs, performed>>
        /\ \E d \in Ends : camp[d] # <<>> /\ CampDone(d)
    BY <1>2, <1>13 DEF DropTask, RefuseHello, client_accept_hello, Takes, requestVars
  <2> QED BY <1>6, <2>1
<1>14. ASSUME UNCHANGED <<camp, wire, jobs, performed>>
       PROVE  OnceInv'
  BY <1>1, <1>14, NothingMoves
<1>15. ASSUME NEW e \in Ends, Workhorse(e)
       PROVE  OnceInv'
  BY <1>7, <1>8, <1>9, <1>10, <1>13, <1>14, <1>15, DeflateOnce, InflateOnce
     DEF Workhorse, Authenticate, requestVars
<1>16. ASSUME NEW e \in Ends, Epoll(e)
       PROVE  OnceInv'
  BY <1>11, <1>12, <1>14, <1>16, ReceiveOnce
     DEF Epoll, HangUp, layer5_on_receive_control, ReceiveStatus, requestVars
<1>17. ASSUME NEW e \in Ends, Dispatcher(e)
       PROVE  OnceInv'
  BY <1>5, <1>14, <1>17, EndRequestOnce, PerformOnce DEF Dispatcher, ShutdownAfterJob
<1> QED BY <1>3, <1>4, <1>14, <1>15, <1>16, <1>17
        DEF Next, HelloSaid, BeginRequest, ShutdownByOthers, requestVars

-------------------------------------------------------------------------------
\* The invariant

\* If the connector's end says hello first, the handshake goes as it should.
Announced == announces => HandshakeInv /\ Served /\ faults \subseteq {"status"}

IInv ==
    /\ TypeOK
    /\ ClosedDown /\ StatusInv /\ Blame
    /\ Announced
    /\ Keyed
    /\ Promised
    /\ OnceInv

\* At first both ends are fresh, and nothing is anywhere.
LEMMA InitIInv == Init => IInv
<1> SUFFICES ASSUME Init
             PROVE  IInv
  OBVIOUS
<1>1. /\ \A S : <<>> \in Seq(S)
      /\ \A e \in Ends : /\ mutex[e] = "free" /\ ~uuid[e] /\ ~authenticated[e] /\ ~down[e] /\ ~closed[e]
                         /\ camp[e] = <<>> /\ ~busy[e] /\ wire[e] = <<>> /\ status[e] = "none"
                         /\ encoder[e] = "authentication" /\ decoder[e] = "authentication"
                         /\ promises[e] = {} /\ jobs[e] = {} /\ performed[e] = {}
                         /\ \A s \in Serials : outcome[e][s] = "unsent"
      /\ {"client", "server"} = Ends /\ ~registered /\ faults = {}
  BY EmptySeq DEF Init, Ends
<1>2. TypeOK
  <2>1. /\ camp \in [Ends -> Seq([dir: {"out"}, msg: Hello \cup User]
                                 \cup [dir: {"in"}, msg: Hello \cup Encoded])]
        /\ wire \in [Ends -> Seq(Hello \cup Control \cup Encoded)]
    BY <1>1 DEF Init
  <2>2. outcome \in [Ends -> [Serials -> {"unsent", "waiting", "answered", "lost"}]]
    BY DEF Init
  <2>3. pings \in 0..MaxPings
    BY BoundsAssumption DEF Init
  <2> QED BY <2>1, <2>2, <2>3 DEF Init, TypeOK, Seeds, Statuses
<1>3. Contents
  <2>1. ClientQueue = <<>> /\ ServerQueue = <<>> /\ ToClient = <<>> /\ ToServer = <<>>
    BY <1>1 DEF ClientQueue, ServerQueue, ToClient, ToServer
  <2> QED BY <1>1, <2>1, EmptyFacts DEF Contents
<1>4. announces => Flags
  BY <1>1 DEF Flags
<1>5. HelloOfClient
  BY <1>1, EmptyFacts DEF HelloOfClient, ClientQueue, ServerQueue, ToServer, Said
<1>6. HelloOfServer
  BY <1>1, EmptyFacts DEF HelloOfServer, ClientQueue, ServerQueue, ToClient
<1>7. Served /\ Keyed /\ Promised /\ ClosedDown /\ StatusInv /\ Blame
  BY <1>1 DEF Served, Keyed, Serves, Promised, NoOrphanedPromise, ClosedDown, StatusInv, Blame
<1>8. ASSUME NEW e \in Ends, NEW s \in Serials
      PROVE  Once(e, s)
  <2>1. Peer(e) \in Ends
    BY DEF Peer, Ends
  <2> QED BY <1>1, <2>1, EmptyFacts DEF Once, Single, Queued, Travels, Arrived
<1> QED BY <1>1, <1>2, <1>3, <1>4, <1>5, <1>6, <1>7, <1>8
       DEF IInv, Announced, HandshakeInv, OnceInv

\* The types are kept.
LEMMA TypeStep ==
  ASSUME TypeOK, Next
  PROVE  TypeOK'
<1>1. ASSUME NEW e \in Ends, BeginRequest(e) \/ ShutdownByOthers(e) \/ Dispatcher(e)
      PROVE  TypeOK'
  BY <1>1, DispatcherTypes
<1>2. CASE SayHello \/ HelloSaid \/ Ping
  <2>1. "client" \in Ends
    BY DEF Ends
  <2> QED BY <1>2, <2>1, DispatcherTypes
<1>3. ASSUME NEW e \in Ends, Workhorse(e) \/ Epoll(e)
      PROVE  TypeOK'
  BY <1>3, WorkhorseTypes, EpollTypes
<1> QED BY <1>1, <1>2, <1>3 DEF Next

\* What holds in every state.
LEMMA Invariance == Spec => []IInv
<1>1. ASSUME IInv, [Next]_vars
      PROVE  IInv'
  <2>1. CASE Next
    <3>1. TypeOK' /\ ClosedDown' /\ StatusInv' /\ Blame' /\ Keyed' /\ Promised' /\ Outcomes
      BY <1>1, <2>1, TypeStep, StatusStep, KeyedStep, PromiseStep DEF IInv
    <3>2. Announced'
      <4>1. announces' = announces
        BY <1>1, <2>1, AuthenticationStays DEF IInv
      <4>2. CASE announces
        <5>1. HandshakeInv /\ Served /\ faults \subseteq {"status"}
          BY <1>1, <4>2 DEF IInv, Announced
        <5>2. HandshakeInv' /\ faults' \subseteq faults \cup {"status"} /\ Served'
          BY <1>1, <2>1, <5>1, HandshakeStep, ServedStep DEF IInv
        <5> QED BY <5>1, <5>2 DEF Announced
      <4> QED BY <4>1, <4>2 DEF Announced
    <3>3. OnceInv'
      BY <1>1, <2>1, <3>1, OnceStep DEF IInv
    <3> QED BY <3>1, <3>2, <3>3 DEF IInv
  <2>2. CASE UNCHANGED vars
    <3>1. TypeOK'
      BY <1>1, <2>2 DEF IInv, TypeOK, vars
    <3>2. (Contents' <=> Contents) /\ (Flags' <=> Flags)
      BY <2>2 DEF Contents, Flags, vars, ClientQueue, ServerQueue, ToClient, ToServer
    <3>3. (HelloOfClient' <=> HelloOfClient) /\ (HelloOfServer' <=> HelloOfServer)
      BY <2>2 DEF HelloOfClient, HelloOfServer, vars, ClientQueue, ServerQueue, ToClient, ToServer,
                  Said
    <3>4. Announced'
      BY <1>1, <2>2, <3>2, <3>3 DEF IInv, Announced, HandshakeInv, Served, vars
    <3>5. Promised' /\ Keyed' /\ ClosedDown' /\ StatusInv' /\ Blame'
      BY <1>1, <2>2 DEF IInv, Promised, NoOrphanedPromise, Keyed, Serves, ClosedDown, StatusInv,
                        Blame, vars
    <3>6. OnceInv'
      BY <1>1, <2>2 DEF IInv, OnceInv, Once, Queued, Travels, Arrived, Sent, vars
    <3> QED BY <3>1, <3>4, <3>5, <3>6 DEF IInv
  <2> QED BY <1>1, <2>1, <2>2
<1> QED BY <1>1, InitIInv, PTL DEF Spec

\* What has been performed has been performed.
LEMMA PerformedStays ==
  ASSUME TypeOK, Next
  PROVE  \A e \in Ends : performed[e] \subseteq performed'[e]
<1>1. ASSUME NEW e \in Ends, InflateRequest(e) \/ InflateResponse(e)
      PROVE  UNCHANGED performed
  BY <1>1 DEF InflateRequest, InflateResponse, InflateOrFail, SatisfyPromise, requestVars
<1>2. \/ UNCHANGED performed
      \/ \E e \in Ends : PerformJob(e)
  BY <1>1 DEF Next, SayHello, HelloSaid, Ping, BeginRequest, ShutdownByOthers, Dispatcher, EndRequest,
           ShutdownAfterJob, DropJob, Workhorse, DropTask, DeflateHello, DeflateUser,
           RefuseHello, server_accept_hello, Authenticate, client_accept_hello,
           Epoll, layer5_on_receive_data, layer5_on_receive_control,
           layer4_on_close, HangUp, requestVars
<1>3. ASSUME NEW e \in Ends, PerformJob(e)
      PROVE  \A d \in Ends : performed[d] \subseteq performed'[d]
  BY <1>3 DEF PerformJob, TypeOK
<1> QED BY <1>2, <1>3

-------------------------------------------------------------------------------
\* The theorems

\* Every variable keeps its type.
THEOREM TypeCorrect == Spec => []TypeOK
<1>1. IInv => TypeOK
  BY DEF IInv
<1> QED BY <1>1, Invariance, PTL

\* If the connector's end says hello first, no message is garbled and no assertion
\* of the handshake fails, however long the workhorse lags behind the control
\* frames (each hello leads its queue), but that for a status frame, at an end
\* whose peer has been shut down.
THEOREM EndsNeverDisagree == Spec => []EndsAgree
<1>1. IInv => EndsAgree
  BY DEF IInv, Announced, Blame, EndsAgree
<1> QED BY <1>1, Invariance, PTL

\* Whoever's request becomes a job has the key, hello or not; and has proved it
\* before, if it is one that says hello first.
THEOREM StrangersAreNotServed == Spec => []ServesOnlyAuthenticated
<1>1. IInv => ServesOnlyAuthenticated
  BY DEF IInv, Announced, Served, Keyed, Serves, ServesOnlyAuthenticated
<1> QED BY <1>1, Invariance, PTL

\* A promise somebody waits for is in the map, and none is there after closing.
THEOREM PromisesAreKept == Spec => []NoOrphanedPromise
<1>1. IInv => NoOrphanedPromise
  BY DEF IInv, Promised
<1> QED BY <1>1, Invariance, PTL

\* A request is in one place at a time on its way from queue to queue, and once
\* performed in none; what has been answered or lost stays so.
THEOREM RequestsHappenOnce == Spec => AtMostOnce
<1> DEFINE Step == \A e \in Ends, s \in Serials :
        /\ s \in performed[e] => s \notin jobs'[e]
        /\ outcome[e][s] \in {"answered", "lost"} => outcome'[e][s] = outcome[e][s]
<1>1. ASSUME IInv, IInv', [Next]_vars
      PROVE  [Step]_vars
  <2>1. CASE UNCHANGED vars
    BY <2>1
  <2>2. CASE Next
    <3>1. Outcomes
      BY <1>1, <2>2, PromiseStep DEF IInv
    <3>2. \A e \in Ends : performed[e] \subseteq performed'[e]
      BY <1>1, <2>2, PerformedStays DEF IInv
    <3>3. \A e \in Ends, s \in Serials : s \in performed'[e] => s \notin jobs'[e]
      BY <1>1 DEF IInv, OnceInv, Once
    <3> QED BY <3>1, <3>2, <3>3 DEF Outcomes
  <2> QED BY <1>1, <2>1, <2>2
<1> HIDE DEF Step
<1>2. Spec => [][Step]_vars
  BY <1>1, Invariance, PTL DEF Spec
<1> QED BY <1>2 DEF AtMostOnce, Step

===============================================================================
