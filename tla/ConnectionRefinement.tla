------------------------ MODULE ConnectionRefinement ------------------------
(***************************************************************************)
(* Bridge mode implements Gateway: what one call of next does, a gateway   *)
(* that owes each answer once may do.                                      *)
(***************************************************************************)
EXTENDS ConnectionOrder

\* The newest request whose answer may be owed.
Newest == IF pc \in {"rtuPoll", "flush", "write"} THEN Taken - 1 ELSE Taken

\* The real units of s are units of answers to requests up to n.
Sound(s, n) == \A i \in 1..Len(s) : s[i].req # 0 => s[i].req <= n /\ s[i].ix \in 1..RespLen

\* No unit of s belongs to the answer to r.
Lacks(s, r) == \A i \in 1..Len(s) : s[i].req # r

\* Every unit on its way from the device to the client is in one place, and
\* a request the device still holds has no unit there.
UnitsOnce(g, q, w) ==
  /\ Once(g) /\ Once(q) /\ Once(w)
  /\ Apart(g, q) /\ Apart(g, w) /\ Apart(q, w)
HeldOnce(d, g, q, w) ==
  /\ \A i \in 1..Len(d) : Lacks(g, d[i]) /\ Lacks(q, d[i]) /\ Lacks(w, d[i])
  /\ \A i, j \in 1..Len(d) : i # j => d[i] # d[j]

OwedOK ==
  /\ Sound(loc.got, Newest) /\ Sound(rx, Newest) /\ Sound(wire, Newest)
  /\ \A i \in 1..Len(dev) : dev[i] <= Newest
  /\ UnitsOnce(loc.got, rx, wire) /\ HeldOnce(dev, loc.got, rx, wire)

ReadOK ==
  /\ pc = "reply" => loc.got = Frame(loc.resp)
  /\ pc \notin {"receive", "reply"} => loc.got = <<>>

-----------------------------------------------------------------------------
(* Taking, adding and joining units. *)

\* A unit moves from the UART into the answer, or off the line into the UART.
LEMMA MoveSound ==
  ASSUME NEW n, NEW g \in Seq(Unit), NEW q \in Seq(Unit), q # <<>>,
         Sound(g, n), Sound(q, n)
  PROVE  Sound(Append(g, Head(q)), n) /\ Sound(Tail(q), n)
  <1> DEFINE h == Append(g, Head(q))
             t == Tail(q)
             m == Len(g) + 1
  <1>1. /\ Head(q) = q[1] /\ 1 \in 1..Len(q)
        /\ \A i \in 1..Len(t) : i + 1 \in 1..Len(q) /\ t[i] = q[i + 1]
    BY HeadTail
  <1>2. /\ Len(h) = m /\ h[m] = q[1] /\ Len(g) \in Nat
        /\ \A i \in 1..Len(h) : i # m => i \in 1..Len(g) /\ h[i] = g[i]
    BY <1>1, HeadTail, AppendLast
  <1> HIDE DEF h, t, m
  <1> QED  BY <1>1, <1>2 DEF Sound, h, t

LEMMA MoveLacks ==
  ASSUME NEW r, NEW g \in Seq(Unit), NEW q \in Seq(Unit), q # <<>>,
         Lacks(g, r), Lacks(q, r)
  PROVE  Lacks(Append(g, Head(q)), r) /\ Lacks(Tail(q), r)
  <1> DEFINE h == Append(g, Head(q))
             t == Tail(q)
             m == Len(g) + 1
  <1>1. /\ Head(q) = q[1] /\ 1 \in 1..Len(q)
        /\ \A i \in 1..Len(t) : i + 1 \in 1..Len(q) /\ t[i] = q[i + 1]
    BY HeadTail
  <1>2. /\ Len(h) = m /\ h[m] = q[1] /\ Len(g) \in Nat
        /\ \A i \in 1..Len(h) : i # m => i \in 1..Len(g) /\ h[i] = g[i]
    BY <1>1, HeadTail, AppendLast
  <1> HIDE DEF h, t, m
  <1> QED  BY <1>1, <1>2 DEF Lacks, h, t

LEMMA TailUnits ==
  ASSUME NEW n, NEW q \in Seq(Unit), q # <<>>
  PROVE  /\ Sound(q, n) => Sound(Tail(q), n)
         /\ \A r : Lacks(q, r) => Lacks(Tail(q), r)
         /\ Once(q) => Once(Tail(q))
         /\ \A s : Apart(s, q) => Apart(s, Tail(q))
  <1> DEFINE t == Tail(q)
  <1>1. \A i \in 1..Len(t) : i + 1 \in 1..Len(q) /\ t[i] = q[i + 1]
    BY HeadTail
  <1> HIDE DEF t
  <1>2. Sound(q, n) => Sound(t, n)
    BY <1>1 DEF Sound
  <1>3. \A r : Lacks(q, r) => Lacks(t, r)
    BY <1>1 DEF Lacks
  <1>4. Once(q) => Once(t)
    <2> SUFFICES ASSUME Once(q), NEW i \in 1..Len(t), NEW j \in 1..Len(t), i # j, t[i].req # 0
                 PROVE  t[i] # t[j]
      BY DEF Once
    <2>1. /\ i + 1 \in 1..Len(q) /\ j + 1 \in 1..Len(q) /\ i + 1 # j + 1
          /\ t[i] = q[i + 1] /\ t[j] = q[j + 1]
      BY <1>1
    <2>2. \A k, l \in 1..Len(q) : k # l /\ q[k].req # 0 => q[k] # q[l]
      BY DEF Once
    <2> QED  BY <2>1, <2>2, Zenon
  <1>5. \A s : Apart(s, q) => Apart(s, t)
    BY <1>1 DEF Apart
  <1> QED  BY <1>2, <1>3, <1>4, <1>5 DEF t

LEMMA NoiseUnit ==
  ASSUME NEW n, NEW q \in Seq(Unit)
  PROVE  /\ Noise \in Unit
         /\ Sound(q, n) => Sound(Append(q, Noise), n)
         /\ \A r : r # 0 /\ Lacks(q, r) => Lacks(Append(q, Noise), r)
  <1>1. Noise \in Unit /\ Noise.req = 0
    BY FrameAssumption, BoundAssumption DEF Noise, Unit
  <1> DEFINE h == Append(q, Noise)
             m == Len(q) + 1
  <1>2. /\ Len(h) = m /\ h[m].req = 0 /\ Len(q) \in Nat
        /\ \A i \in 1..Len(h) : i # m => i \in 1..Len(q) /\ h[i] = q[i]
    BY <1>1, AppendLast
  <1> HIDE DEF h, m
  <1> QED  BY <1>1, <1>2 DEF Sound, Lacks, h

\* The device begins an answer of which no unit is under way.
LEMMA SendAnswer ==
  ASSUME NEW n, NEW r \in 1..MaxReq, r <= n, NEW w \in Seq(Unit), Lacks(w, r)
  PROVE  LET u == w \o Frame(r) IN
         /\ u \in Seq(Unit)
         /\ Sound(w, n) => Sound(u, n)
         /\ \A q : q # r /\ Lacks(w, q) => Lacks(u, q)
         /\ Once(w) => Once(u)
         /\ \A s : Apart(s, w) /\ Lacks(s, r) => Apart(s, u)
  <1> DEFINE f == Frame(r)
             u == w \o f
  <1>1. /\ f \in Seq(Unit) /\ Len(f) = RespLen /\ RespLen \in Nat
        /\ \A i \in 1..RespLen : f[i].req = r /\ f[i].ix = i
    BY FrameUnits
  <1> HIDE DEF f
  <1>2. /\ u \in Seq(Unit) /\ Len(w) \in Nat /\ Len(u) = Len(w) + RespLen
        /\ \A i \in 1..Len(u) : u[i] = IF i <= Len(w) THEN w[i] ELSE f[i - Len(w)]
    BY <1>1, Joined
  <1> HIDE DEF u
  <1>3. \A i \in 1..Len(u) :
          \/ i \in 1..Len(w) /\ u[i] = w[i]
          \/ i > Len(w) /\ i - Len(w) \in 1..RespLen /\ u[i].req = r /\ u[i].ix = i - Len(w)
    <2> TAKE i \in 1..Len(u)
    <2>1. CASE i <= Len(w)
      BY <1>2, <2>1
    <2>2. CASE ~(i <= Len(w))
      <3>1. u[i] = f[i - Len(w)] /\ i > Len(w) /\ i - Len(w) \in 1..RespLen
        BY <1>1, <1>2, <2>2
      <3> QED  BY <1>1, <3>1
    <2> QED  BY <2>1, <2>2
  <1>4. Sound(w, n) => Sound(u, n)
    BY <1>3 DEF Sound
  <1>5. \A q : q # r /\ Lacks(w, q) => Lacks(u, q)
    BY <1>3 DEF Lacks
  <1>6. Once(w) => Once(u)
    <2> SUFFICES ASSUME Once(w), NEW i \in 1..Len(u), NEW j \in 1..Len(u), i # j, u[i].req # 0,
                        u[i] = u[j]
                 PROVE  FALSE
      BY DEF Once
    <2>1. CASE i \in 1..Len(w) /\ u[i] = w[i] /\ j \in 1..Len(w) /\ u[j] = w[j]
      BY <2>1 DEF Once
    <2>2. CASE i \in 1..Len(w) /\ u[i] = w[i] /\ u[j].req = r
      BY <2>2 DEF Lacks
    <2>3. CASE j \in 1..Len(w) /\ u[j] = w[j] /\ u[i].req = r
      BY <2>3 DEF Lacks
    <2>4. CASE u[i].ix = i - Len(w) /\ u[j].ix = j - Len(w)
      BY <1>2, <2>4
    <2> QED  BY <1>3, <2>1, <2>2, <2>3, <2>4
  <1>7. \A s : Apart(s, w) /\ Lacks(s, r) => Apart(s, u)
    <2> SUFFICES ASSUME NEW s, Apart(s, w), Lacks(s, r),
                        NEW i \in 1..Len(s), NEW j \in 1..Len(u), s[i].req # 0, s[i] = u[j]
                 PROVE  FALSE
      BY DEF Apart
    <2>1. CASE j \in 1..Len(w) /\ u[j] = w[j]
      BY <2>1 DEF Apart
    <2>2. CASE u[j].req = r
      BY <2>2 DEF Lacks
    <2> QED  BY <1>3, <2>1, <2>2
  <1> QED  BY <1>2, <1>4, <1>5, <1>6, <1>7 DEF u, f

-----------------------------------------------------------------------------
(* What is owed, step by step. *)

LEMMA LineTypes ==
  ASSUME TypedControl
  PROVE  /\ loc \in Locals /\ loc.got \in Seq(Unit) /\ rx \in Seq(Unit)
         /\ wire \in Seq(Unit) /\ dev \in Seq(1..MaxReq)
  BY DEF TypedControl, TypeOK, Locals

LEMMA SoundGrows ==
  ASSUME NEW s \in Seq(Unit), NEW n \in Int, NEW m \in Int, n <= m, Sound(s, n)
  PROVE  Sound(s, m)
  <1> SUFFICES ASSUME NEW i \in 1..Len(s), s[i].req # 0
               PROVE  s[i].req <= m /\ s[i].ix \in 1..RespLen
    BY DEF Sound
  <1>1. s[i] \in Unit
    BY ElementOfSeq
  <1>2. s[i].req \in Int /\ s[i].req <= n /\ s[i].ix \in 1..RespLen
    BY <1>1, BoundAssumption DEF Unit, Sound
  <1> QED  BY <1>2

\* The steps that neither read a unit, nor hand the request over, nor are
\* the line's own leave the serial side alone; locals may be dropped.
LEMMA SerialUntouched ==
  ASSUME TypedControl, [Next]_vars, ~ReadUnit, ~Line
  PROVE  /\ UNCHANGED <<wire, rx>> /\ (loc'.got = loc.got \/ loc'.got = <<>>)
         /\ \/ dev' = dev
            \/ SendWrite /\ pc = "write" /\ pc' = "drain" /\ dev' = Append(dev, loc.req)
  <1> USE LineTypes DEF lineVars, Fresh
  <1>1. CASE UNCHANGED vars
    BY <1>1 DEF vars
  <1>2. CASE Accept \/ IntoStream \/ SendFlush \/ SendDrain \/ ReplySend \/ Client
    BY <1>2 DEF Accept, IntoStream, SendFlush, SendDrain, ReplySend, Client, ClientBegin,
                ClientSend, ClientClose
  <1>3. CASE CallNext
    <2> HIDE DEF Owed
    <2>1. loc' = [Fresh EXCEPT !.dirty = Owed] /\ UNCHANGED lineVars
      BY <1>3 DEF CallNext
    <2> QED  BY <2>1
  <1>4. CASE TcpListenReject \/ TcpListenEof \/ TcpListenError \/ SendError \/ ReadEof
             \/ ReadGiveUp \/ ReplyError \/ AsyncDeadlines \/ PollExpire \/ PollError
    BY <1>4 DEF TcpListenReject, TcpListenEof, TcpListenError, SendError, ReadEof,
                ReadGiveUp, ReplyError, AsyncDeadlines, TcpDeadline, RtuDeadline,
                PollExpire, PollError, Fail
  <1>5. CASE TcpListenOk \/ PollReady \/ PollSleep \/ ReadRetry
    BY <1>5 DEF TcpListenOk, PollReady, ReadReady, PollSleep, ReadRetry, Locals
  <1>6. CASE SendWrite
    BY <1>6 DEF SendWrite, Locals
  <1> QED  BY <1>1, <1>2, <1>3, <1>4, <1>5, <1>6
           DEF Next, Cycle, Listen, ListenFrame, Send, SendFrame, Receive, Reply,
               SyncPolls, Polling

LEMMA NewestGrows ==
  ASSUME TypedControl, QueueOK, [Next]_vars
  PROVE  Newest \in Int /\ Newest' \in Int /\ Newest <= Newest'
  <1>0. Newest \in {Taken, Taken - 1} /\ Newest' \in {Taken', Taken' - 1} /\ Taken \in Int
    BY Counts DEF Newest
  <1>1. CASE Accept
    <2>1. tcpIn' = <<>> /\ reqs' = reqs /\ pc' = "ready"
      BY <1>1 DEF Accept
    <2> QED  BY <1>0, <2>1, Counts DEF Taken, Newest
  <1>2. CASE TcpListenOk \/ TcpListenReject
    BY <1>0, <1>2, TakeStep DEF Newest
  <1>3. CASE ClientSend
    BY <1>0, <1>3, SendStep DEF Newest
  <1>4. CASE Next /\ ~Accept /\ ~TcpListenOk /\ ~TcpListenReject /\ ~ClientSend
    <2>1. Taken' = Taken
      BY <1>4, OtherSteps DEF Taken
    <2>2. pc' \in {"rtuPoll", "flush", "write"} => pc \in {"rtuPoll", "flush", "write"}
      BY <1>4
         DEF Next, CallNext, IntoStream, Cycle, Listen, ListenFrame,
             TcpListenEof, TcpListenError, Send, SendFrame, SendFlush,
             SendWrite, SendDrain, SendError, Receive, ReadUnit, ReadHeader, ReadBody,
             ReadLast, ReadEof, ReadRetry, ReadGiveUp, Reply, ReplySend, ReplyError,
             AsyncDeadlines, TcpDeadline, RtuDeadline, SyncPolls, Polling, PollReady, ReadReady,
             PollSleep, PollExpire, PollError, Client, ClientBegin, ClientClose, Line,
             DeviceAnswer, DeviceIgnore, Arrive, Babble, Fail
    <2> QED  BY <1>0, <2>1, <2>2 DEF Newest
  <1>5. CASE UNCHANGED vars
    BY <1>0, <1>5 DEF vars, tcpVars, Newest, Taken
  <1> QED  BY <1>1, <1>2, <1>3, <1>4, <1>5

LEMMA OwedInit == Init => OwedOK /\ ReadOK
  <1> SUFFICES ASSUME Init  PROVE OwedOK /\ ReadOK
    OBVIOUS
  <1>1. loc.got = <<>> /\ rx = <<>> /\ wire = <<>> /\ dev = <<>> /\ pc = "idle"
    BY DEF Init, Fresh
  <1>2. 1..Len(loc.got) = {} /\ 1..Len(rx) = {} /\ 1..Len(wire) = {} /\ 1..Len(dev) = {}
    BY <1>1
  <1> QED  BY <1>1, <1>2 DEF OwedOK, ReadOK, Sound, UnitsOnce, HeldOnce, Once, Apart, Lacks

\* A step that leaves the line alone, or drops what the call has read.
LEMMA OwedStays ==
  ASSUME TypedControl, OwedOK, Newest \in Int, Newest' \in Int, Newest <= Newest',
         UNCHANGED <<dev, wire, rx>>, loc'.got = loc.got \/ loc'.got = <<>>
  PROVE  OwedOK'
  <1>1. /\ Sound(loc.got, Newest') /\ Sound(rx, Newest') /\ Sound(wire, Newest')
    BY LineTypes, SoundGrows DEF OwedOK
  <1>2. \A i \in 1..Len(dev) : dev[i] <= Newest'
    <2> TAKE i \in 1..Len(dev)
    <2>1. dev[i] \in 1..MaxReq
      BY LineTypes, ElementOfSeq
    <2>2. dev[i] \in Int /\ dev[i] <= Newest
      BY <2>1, BoundAssumption DEF OwedOK
    <2> QED  BY <2>2
  <1>3. CASE loc'.got = loc.got
    BY <1>1, <1>2, <1>3 DEF OwedOK
  <1>4. CASE loc'.got = <<>>
    <2>1. 1..Len(loc'.got) = {}
      BY <1>4
    <2>2. /\ Sound(loc'.got, Newest') /\ Once(loc'.got)
          /\ \A s : Apart(loc'.got, s)
          /\ \A r : Lacks(loc'.got, r)
      BY <2>1 DEF Sound, Once, Apart, Lacks
    <2> QED  BY <1>1, <1>2, <2>2 DEF OwedOK, UnitsOnce, HeldOnce
  <1> QED  BY <1>3, <1>4

\* The request goes out: nothing of its answer can be under way yet.
LEMMA OwedHandOver ==
  ASSUME TypedControl, QueueOK, OwedOK, SendWrite, pc = "write", pc' = "drain",
         dev' = Append(dev, loc.req)
  PROVE  OwedOK'
  <1>1. /\ loc'.got = loc.got /\ UNCHANGED <<reqs, tcpIn, wire, rx>>
    BY LineTypes DEF SendWrite, Locals, tcpVars
  <1>2. /\ loc.req = Taken /\ Newest = Taken - 1 /\ Newest' = Taken /\ Taken \in Int
        /\ loc.req \in 1..MaxReq
    <2>1. loc.req = Taken /\ loc.req \in 1..Len(reqs)
      BY DEF QueueOK, Exchange, TypedControl, ControlOK
    <2>2. loc.req \in 1..MaxReq
      BY <2>1, RequestNumbers DEF TypedControl
    <2> QED  BY <1>1, <2>1, <2>2, Counts DEF Newest, Taken
  <1>3. \A s \in Seq(Unit) : Sound(s, Newest) => Sound(s, Newest') /\ Lacks(s, loc.req)
    <2> TAKE s \in Seq(Unit)
    <2> HAVE Sound(s, Newest)
    <2>1. Sound(s, Newest')
      BY <1>2, SoundGrows
    <2>2. ASSUME NEW i \in 1..Len(s), s[i].req = loc.req  PROVE FALSE
      <3>1. loc.req # 0
        BY <1>2
      <3>2. loc.req <= Taken - 1
        BY <1>2, <2>2, <3>1 DEF Sound
      <3> QED  BY <1>2, <3>2
    <2> QED  BY <2>1, <2>2 DEF Lacks
  <1> DEFINE n == Len(dev) + 1
  <1>4. /\ Len(dev') = n /\ dev'[n] = loc.req /\ Len(dev) \in Nat
        /\ \A i \in 1..Len(dev') : i # n => i \in 1..Len(dev) /\ dev'[i] = dev[i]
    BY <1>2, LineTypes, AppendLast
  <1>5. \A i \in 1..Len(dev) : dev[i] <= Taken - 1 /\ dev[i] \in Int
    <2> TAKE i \in 1..Len(dev)
    <2>1. dev[i] \in 1..MaxReq
      BY LineTypes, ElementOfSeq
    <2> QED  BY <1>2, <2>1, BoundAssumption DEF OwedOK
  <1> HIDE DEF n
  <1>6. \A i \in 1..Len(dev') : dev'[i] <= Newest'
    BY <1>2, <1>4, <1>5
  <1>7. HeldOnce(dev', loc.got, rx, wire)
    <2>1. Lacks(loc.got, loc.req) /\ Lacks(rx, loc.req) /\ Lacks(wire, loc.req)
      BY <1>3, LineTypes DEF OwedOK
    <2>2. \A i \in 1..Len(dev') : Lacks(loc.got, dev'[i]) /\ Lacks(rx, dev'[i]) /\ Lacks(wire, dev'[i])
      BY <1>4, <2>1 DEF OwedOK, HeldOnce
    <2>3. \A i \in 1..Len(dev) : dev[i] # loc.req
      BY <1>2, <1>5
    <2>4. ASSUME NEW i \in 1..Len(dev'), NEW j \in 1..Len(dev'), i # j  PROVE dev'[i] # dev'[j]
      BY <1>4, <2>3, <2>4 DEF OwedOK, HeldOnce
    <2> QED  BY <2>2, <2>4 DEF HeldOnce
  <1> QED  BY <1>1, <1>3, <1>6, <1>7, LineTypes DEF OwedOK

\* A unit is read, and kept or dropped with the call.
LEMMA OwedRead ==
  ASSUME TypedControl, OwedOK, rx # <<>>, rx' = Tail(rx), UNCHANGED <<dev, wire>>,
         Newest' = Newest, loc'.got = Got \/ loc'.got = <<>>
  PROVE  OwedOK'
  <1> USE LineTypes
  <1>1. /\ Once(Got) /\ Once(rx') /\ Apart(Got, rx') /\ Apart(Got, wire) /\ Apart(rx', wire)
    BY MoveUnit DEF OwedOK, UnitsOnce, Got
  <1>2. Sound(Got, Newest) /\ Sound(rx', Newest)
    BY MoveSound DEF OwedOK, Got
  <1>3. \A i \in 1..Len(dev) : Lacks(Got, dev[i]) /\ Lacks(rx', dev[i])
    BY MoveLacks DEF OwedOK, HeldOnce, Got
  <1>4. CASE loc'.got = Got
    <2> HIDE DEF Got
    <2> QED  BY <1>1, <1>2, <1>3, <1>4 DEF OwedOK, UnitsOnce, HeldOnce
  <1>5. CASE loc'.got = <<>>
    <2>1. 1..Len(loc'.got) = {}
      BY <1>5
    <2>2. /\ Sound(loc'.got, Newest') /\ Once(loc'.got)
          /\ \A s : Apart(loc'.got, s)
          /\ \A r : Lacks(loc'.got, r)
      BY <2>1 DEF Sound, Once, Apart, Lacks
    <2> QED  BY <1>1, <1>2, <1>3, <2>2 DEF OwedOK, UnitsOnce, HeldOnce
  <1> QED  BY <1>4, <1>5

\* What the device, the line and the noise on it do.
LEMMA OwedLine ==
  ASSUME TypedControl, OwedOK, Line
  PROVE  OwedOK'
  <1> USE LineTypes
  <1>1. UNCHANGED <<loc, Newest>>
    BY DEF Line, DeviceAnswer, DeviceIgnore, Arrive, Babble, tcpVars, Newest, Taken
  <1>2. \A i \in 1..Len(dev) : dev[i] # 0
    <2> TAKE i \in 1..Len(dev)
    <2>1. dev[i] \in 1..MaxReq
      BY ElementOfSeq
    <2> QED  BY <2>1, BoundAssumption
  <1>3. CASE dev # <<>> /\ dev' = Tail(dev) /\ rx' = rx
             /\ (wire' = wire \/ wire' = wire \o Frame(Head(dev)))
    <2> DEFINE r == Head(dev)
    <2>1. /\ r = dev[1] /\ 1 \in 1..Len(dev) /\ r \in 1..MaxReq
          /\ \A i \in 1..Len(dev') : /\ i + 1 \in 1..Len(dev) /\ dev'[i] = dev[i + 1]
                                     /\ i + 1 # 1
      <3>1. dev \in Seq(1..MaxReq) /\ dev # <<>>
        BY <1>3
      <3>2. /\ Head(dev) \in 1..MaxReq /\ Head(dev) = dev[1]
            /\ Len(dev) \in Nat /\ Len(dev) > 0
            /\ \A i \in 1..Len(Tail(dev)) : i + 1 \in 1..Len(dev) /\ Tail(dev)[i] = dev[i + 1]
        BY ONLY <3>1, HeadTail
      <3> QED  BY <1>3, <3>2
    <2>2. r <= Newest /\ Lacks(loc.got, r) /\ Lacks(rx, r) /\ Lacks(wire, r)
      BY <2>1 DEF OwedOK, HeldOnce
    <2> HIDE DEF r
    <2>3. /\ \A i \in 1..Len(dev') : dev'[i] <= Newest /\ dev'[i] # r
          /\ HeldOnce(dev', loc.got, rx, wire)
      <3>1. \A i \in 1..Len(dev') : /\ dev'[i] <= Newest /\ dev'[i] # r
                                    /\ Lacks(loc.got, dev'[i]) /\ Lacks(rx, dev'[i])
                                    /\ Lacks(wire, dev'[i])
        BY <2>1 DEF OwedOK, HeldOnce
      <3>2. ASSUME NEW i \in 1..Len(dev'), NEW j \in 1..Len(dev'), i # j
            PROVE  dev'[i] # dev'[j]
        <4>1. i + 1 # j + 1
          BY <3>2
        <4>2. /\ i + 1 \in 1..Len(dev) /\ dev'[i] = dev[i + 1]
              /\ j + 1 \in 1..Len(dev) /\ dev'[j] = dev[j + 1]
          BY <2>1
        <4> QED  BY <4>1, <4>2, Zenon DEF OwedOK, HeldOnce
      <3> QED  BY <3>1, <3>2 DEF HeldOnce
    <2>4. CASE wire' = wire
      BY <1>1, <1>3, <2>3, <2>4 DEF OwedOK
    <2>5. CASE wire' = wire \o Frame(Head(dev))
      <3>1. wire' = wire \o Frame(r)
        BY <2>5 DEF r
      <3>2. /\ Sound(wire, Newest) => Sound(wire', Newest)
            /\ \A q : q # r /\ Lacks(wire, q) => Lacks(wire', q)
            /\ Once(wire) => Once(wire')
            /\ \A s : Apart(s, wire) /\ Lacks(s, r) => Apart(s, wire')
        BY <2>1, <2>2, <3>1, SendAnswer
      <3>3. HeldOnce(dev', loc.got, rx, wire')
        BY <2>3, <3>2 DEF HeldOnce
      <3>4. UnitsOnce(loc.got, rx, wire')
        BY <2>2, <3>2 DEF OwedOK, UnitsOnce
      <3> QED  BY <1>1, <1>3, <2>3, <3>2, <3>3, <3>4 DEF OwedOK
    <2> QED  BY <1>3, <2>4, <2>5
  <1>4. Noise \in Unit
    BY NoiseUnit
  <1>5. ASSUME NEW w \in Seq(Unit), Sound(w, Newest), UnitsOnce(loc.got, rx, w),
               HeldOnce(dev, loc.got, rx, w)
        PROVE  LET h == Append(rx, Noise) IN
               Sound(h, Newest) /\ UnitsOnce(loc.got, h, w) /\ HeldOnce(dev, loc.got, h, w)
    <2> DEFINE h == Append(rx, Noise)
    <2>1. Sound(h, Newest) /\ \A r : r # 0 /\ Lacks(rx, r) => Lacks(h, r)
      BY NoiseUnit DEF OwedOK
    <2>2. Apart(w, rx)
      BY <1>5, ApartSymmetric DEF UnitsOnce
    <2>3. Once(h) /\ Apart(loc.got, h) /\ Apart(w, h)
      BY <1>4, <1>5, <2>2, AddNoiseUnit DEF UnitsOnce
    <2>4. Apart(h, w)
      BY <2>3, ApartSymmetric
    <2> HIDE DEF h
    <2> QED  BY <1>2, <1>5, <2>1, <2>3, <2>4 DEF UnitsOnce, HeldOnce, h
  <1>6. CASE Babble
    <2>1. rx' = Append(rx, Noise) /\ UNCHANGED <<dev, wire>>
      BY <1>6 DEF Babble
    <2> QED  BY <1>1, <1>5, <2>1 DEF OwedOK
  <1>7. CASE Arrive
    <2>1. /\ wire # <<>> /\ wire' = Tail(wire) /\ dev' = dev /\ wire' \in Seq(Unit)
          /\ rx' \in {rx, Append(rx, Head(wire)), Append(rx, Noise)}
      BY <1>7, HeadTail DEF Arrive
    <2>2. /\ Sound(wire', Newest) /\ Once(wire')
          /\ Apart(loc.got, wire') /\ Apart(rx, wire')
          /\ \A i \in 1..Len(dev) : Lacks(wire', dev[i])
      BY <2>1, TailUnits DEF OwedOK, UnitsOnce, HeldOnce
    <2>3. UnitsOnce(loc.got, rx, wire') /\ HeldOnce(dev, loc.got, rx, wire')
      BY <2>2 DEF OwedOK, UnitsOnce, HeldOnce
    <2>4. CASE rx' = rx
      BY <1>1, <2>1, <2>2, <2>3, <2>4 DEF OwedOK
    <2>5. CASE rx' = Append(rx, Noise)
      BY <1>1, <1>5, <2>1, <2>2, <2>3, <2>5 DEF OwedOK
    <2>6. CASE rx' = Append(rx, Head(wire))
      <3>1. Apart(wire, loc.got) /\ Apart(rx, loc.got)
        BY ApartSymmetric DEF OwedOK, UnitsOnce
      <3>2. /\ Once(rx') /\ Apart(rx', wire') /\ Apart(rx', loc.got)
        BY <2>1, <2>6, <3>1, MoveUnit DEF OwedOK, UnitsOnce
      <3>3. Apart(loc.got, rx')
        BY <3>2, ApartSymmetric
      <3>4. Sound(rx', Newest)
        BY <2>1, <2>6, MoveSound DEF OwedOK
      <3>5. \A i \in 1..Len(dev) : Lacks(rx', dev[i])
        BY <2>1, <2>6, MoveLacks DEF OwedOK, HeldOnce
      <3>6. UnitsOnce(loc.got, rx', wire') /\ HeldOnce(dev, loc.got, rx', wire')
        BY <2>2, <2>3, <3>2, <3>3, <3>5 DEF UnitsOnce, HeldOnce
      <3> QED  BY <1>1, <2>1, <2>2, <3>4, <3>6 DEF OwedOK
    <2> QED  BY <2>1, <2>4, <2>5, <2>6
  <1>8. CASE DeviceAnswer \/ DeviceIgnore
    BY <1>3, <1>8 DEF DeviceAnswer, DeviceIgnore
  <1> QED  BY <1>6, <1>7, <1>8 DEF Line

LEMMA ReadStep ==
  ASSUME TypedControl, ReadUnit
  PROVE  /\ pc = "receive" /\ rx # <<>> /\ rx' = Tail(rx)
         /\ UNCHANGED <<txEn, dev, wire, reqs, tcpIn, part, eof>>
         /\ \/ pc' = "receive" /\ loc'.got = Got /\ loc'.req = loc.req /\ delivered' = delivered
            \/ /\ pc' = "reply" /\ loc'.got = Got /\ loc'.req = loc.req /\ delivered' = delivered
               /\ loc'.resp \in Intact(Got)
            \/ Fail(RtuErr.Crc)
  <1> USE LineTypes DEF tcpVars
  <1>1. CASE ReadHeader \/ ReadBody
    <2>1. \/ loc' = [loc EXCEPT !.got = Got]
          \/ \E n : loc' = [loc EXCEPT !.got = Got, !.need = n, !.attempt = 1]
      BY <1>1 DEF ReadHeader, ReadBody
    <2>2. /\ pc = "receive" /\ pc' = "receive" /\ rx # <<>> /\ rx' = Tail(rx)
          /\ UNCHANGED <<txEn, dev, wire, reqs, tcpIn, part, eof, delivered>>
      BY <1>1 DEF ReadHeader, ReadBody
    <2> HIDE DEF Got
    <2>3. loc'.got = Got /\ loc'.req = loc.req
      BY <2>1 DEF Locals
    <2> QED  BY <2>2, <2>3
  <1>2. CASE ReadLast
    <2>1. /\ pc = "receive" /\ rx # <<>> /\ rx' = Tail(rx)
          /\ UNCHANGED <<txEn, dev, wire, reqs, tcpIn, part, eof>>
      BY <1>2 DEF ReadLast
    <2>2. ASSUME NEW r \in Intact(Got), pc' = "reply", UNCHANGED delivered,
                 loc' = [loc EXCEPT !.got = Got, !.need = 0, !.attempt = 1, !.resp = r]
          PROVE  loc'.got = Got /\ loc'.req = loc.req /\ loc'.resp \in Intact(Got)
      <3> HIDE DEF Got
      <3> QED  BY <2>2 DEF Locals
    <2> QED  BY <1>2, <2>1, <2>2 DEF ReadLast
  <1> QED  BY <1>1, <1>2 DEF ReadUnit

LEMMA OwedNext ==
  ASSUME TypedControl, QueueOK, OwedOK, [Next]_vars  PROVE OwedOK'
  <1>1. CASE Line
    BY <1>1, OwedLine
  <1>2. CASE ReadUnit
    <2>1. /\ rx # <<>> /\ rx' = Tail(rx) /\ UNCHANGED <<dev, wire, reqs, tcpIn>>
          /\ pc = "receive" /\ pc' \in {"receive", "reply", "failed"}
          /\ loc'.got = Got \/ loc'.got = <<>>
      BY <1>2, ReadStep DEF Fail, Fresh
    <2>2. Newest' = Newest
      BY <2>1 DEF Newest, Taken
    <2> QED  BY <2>1, <2>2, OwedRead
  <1>3. CASE ~Line /\ ~ReadUnit
    BY <1>3, SerialUntouched, NewestGrows, OwedStays, OwedHandOver
  <1> QED  BY <1>1, <1>2, <1>3

LEMMA ReadNext ==
  ASSUME TypedControl, ReadOK, [Next]_vars  PROVE ReadOK'
  <1>1. CASE ReadUnit
    <2>1. \A r \in Intact(Got) : Got = Frame(r)
      BY DEF Intact
    <2> QED  BY <1>1, <2>1, ReadStep DEF ReadOK, Fail, Fresh
  <1>2. CASE UNCHANGED <<pc, loc>>
    BY <1>2 DEF ReadOK
  <1>3. CASE pc' \notin {"receive", "reply"} /\ loc' = Fresh
    BY <1>3 DEF ReadOK, Fresh
  <1>4. CASE pc' = "receive"
    BY <1>4 DEF ReadOK
  <1>5. CASE pc \notin {"receive", "reply"} /\ pc' # "reply" /\ ~ReadUnit /\ ~Line
    BY <1>5, SerialUntouched DEF ReadOK
  <1>6. CASE UNCHANGED vars
    BY <1>2, <1>6 DEF vars
  <1>7. CASE Next /\ ~ReadUnit
    <2>1. \/ UNCHANGED <<pc, loc>>
          \/ pc' \notin {"receive", "reply"} /\ loc' = Fresh
          \/ pc' = "receive"
          \/ pc \notin {"receive", "reply"} /\ pc' # "reply" /\ ~Line
      <3>1. CASE Line
        BY <3>1 DEF Line, DeviceAnswer, DeviceIgnore, Arrive, Babble
      <3>2. CASE ~Line
        BY <1>7, <3>2
           DEF Next, Accept, CallNext, IntoStream, Cycle, Listen, ListenFrame, TcpListenOk,
               TcpListenReject, TcpListenEof, TcpListenError, Send, SendFrame, SendFlush,
               SendWrite, SendDrain, SendError, Receive, ReadEof, ReadRetry, ReadGiveUp,
               Reply, ReplySend, ReplyError, AsyncDeadlines, TcpDeadline, RtuDeadline,
               SyncPolls, Polling, PollReady, ReadReady, PollSleep, PollExpire, PollError,
               NothingReady, Client, ClientBegin, ClientSend, ClientClose, Fail
      <3> QED  BY <3>1, <3>2
    <2> QED  BY <1>2, <1>3, <1>4, <1>5, <1>7, <2>1
  <1> QED  BY <1>1, <1>6, <1>7

-----------------------------------------------------------------------------
(* The steps of a call as steps of a gateway. *)

RefInv == TypedControl /\ QueueOK /\ OwedOK /\ ReadOK

Held(d, r) == \E i \in 1..Len(d) : d[i] = r

\* A request is owed while the device holds it or a unit of its answer is
\* under way.
LEMMA UnitsMean ==
  ASSUME NEW r, NEW d \in Seq(1..MaxReq), NEW w, NEW q, NEW g
  PROVE  r \in {d[i] : i \in DOMAIN d} \cup ReqsOf(w) \cup ReqsOf(q) \cup ReqsOf(g) <=>
           Held(d, r) \/ (r # 0 /\ ~(Lacks(w, r) /\ Lacks(q, r) /\ Lacks(g, r)))
  <1>1. \A s : r \in ReqsOf(s) <=> r # 0 /\ ~Lacks(s, r)
    BY DEF ReqsOf, Real, Lacks
  <1>2. DOMAIN d = 1..Len(d)
    BY LenProperties
  <1> QED  BY <1>1, <1>2 DEF Held

LEMMA OwedMeans ==
  ASSUME TypedControl, NEW r
  PROVE  r \in OwedReqs <=>
           \/ Held(dev, r)
           \/ r # 0 /\ ~(Lacks(wire, r) /\ Lacks(rx, r) /\ Lacks(loc.got, r))
  BY UnitsMean, LineTypes DEF OwedReqs

LEMMA OwedMeansAfter ==
  ASSUME TypedControl', NEW r
  PROVE  r \in OwedReqs' <=>
           \/ Held(dev', r)
           \/ r # 0 /\ ~(Lacks(wire', r) /\ Lacks(rx', r) /\ Lacks(loc'.got, r))
  <1>1. dev' \in Seq(1..MaxReq)
    BY DEF TypedControl, TypeOK
  <1>2. \A w, q, g :
          r \in {dev'[i] : i \in DOMAIN dev'} \cup ReqsOf(w) \cup ReqsOf(q) \cup ReqsOf(g) <=>
            Held(dev', r) \/ (r # 0 /\ ~(Lacks(w, r) /\ Lacks(q, r) /\ Lacks(g, r)))
    BY <1>1, UnitsMean
  <1>3. OwedReqs' = {dev'[i] : i \in DOMAIN dev'} \cup ReqsOf(wire') \cup ReqsOf(rx')
                      \cup ReqsOf(loc'.got)
    BY DEF OwedReqs, ReqsOf, Real
  <1> QED  BY ONLY <1>2, <1>3, Zenon

LEMMA WaitingMeans ==
  ASSUME TypedControl, NEW r
  PROVE  r \in Waiting <=> \E i \in 1..Len(tcpIn) : tcpIn[i] = r
  <1>1. DOMAIN tcpIn = 1..Len(tcpIn)
    BY Counts, LenProperties
  <1> QED  BY <1>1 DEF Waiting

\* The line only moves and loses what is owed.
LEMMA OwedOnLine ==
  ASSUME TypedControl, TypedControl', OwedOK, Line
  PROVE  OwedReqs' \subseteq OwedReqs
  <1> SUFFICES ASSUME NEW r \in OwedReqs'  PROVE r \in OwedReqs
    OBVIOUS
  <1> USE LineTypes
  <1>1. loc' = loc
    BY DEF Line, DeviceAnswer, DeviceIgnore, Arrive, Babble
  <1>2. \/ Held(dev', r)
        \/ r # 0 /\ ~(Lacks(wire', r) /\ Lacks(rx', r) /\ Lacks(loc'.got, r))
    BY OwedMeansAfter
  <1>3. CASE dev # <<>> /\ dev' = Tail(dev) /\ rx' = rx
             /\ (wire' = wire \/ wire' = wire \o Frame(Head(dev)))
    <2> DEFINE h == Head(dev)
    <2>1. /\ h = dev[1] /\ 1 \in 1..Len(dev) /\ h \in 1..MaxReq
          /\ \A i \in 1..Len(Tail(dev)) : i + 1 \in 1..Len(dev) /\ Tail(dev)[i] = dev[i + 1]
      <3>1. dev \in Seq(1..MaxReq) /\ dev # <<>>
        BY <1>3
      <3>2. /\ Head(dev) \in 1..MaxReq /\ Head(dev) = dev[1]
            /\ Len(dev) \in Nat /\ Len(dev) > 0
            /\ \A i \in 1..Len(Tail(dev)) : i + 1 \in 1..Len(dev) /\ Tail(dev)[i] = dev[i + 1]
        BY ONLY <3>1, HeadTail
      <3> QED  BY <3>2
    <2> HIDE DEF h
    <2>2. Held(dev', r) => Held(dev, r)
      BY <1>3, <2>1 DEF Held
    <2>3. h <= Newest /\ Lacks(wire, h)
      BY <2>1 DEF OwedOK, HeldOnce
    <2>4. r # h /\ Lacks(wire, r) => Lacks(wire', r)
      <3>1. CASE wire' = wire \o Frame(h)
        BY <2>1, <2>3, <3>1, SendAnswer
      <3> QED  BY <1>3, <3>1 DEF h
    <2>5. Held(dev, h)
      BY <2>1 DEF Held
    <2> QED  BY <1>1, <1>2, <1>3, <2>2, <2>4, <2>5, OwedMeans
  <1>4. CASE Babble
    <2>1. rx' = Append(rx, Noise) /\ UNCHANGED <<dev, wire>>
      BY <1>4 DEF Babble
    <2> QED  BY <1>1, <1>2, <2>1, NoiseUnit, OwedMeans
  <1>5. CASE Arrive
    <2>1. /\ wire # <<>> /\ wire' = Tail(wire) /\ dev' = dev
          /\ rx' \in {rx, Append(rx, Head(wire)), Append(rx, Noise)}
      BY <1>5 DEF Arrive
    <2>2. Lacks(wire, r) => Lacks(wire', r)
      BY <2>1, TailUnits
    <2>3. r # 0 /\ Lacks(wire, r) /\ Lacks(rx, r) => Lacks(rx', r)
      <3>1. CASE rx' = Append(rx, Head(wire))
        BY <2>1, <3>1, MoveLacks
      <3> QED  BY <2>1, <3>1, NoiseUnit
    <2> QED  BY <1>1, <1>2, <2>1, <2>2, <2>3, OwedMeans
  <1>6. CASE DeviceAnswer \/ DeviceIgnore
    BY <1>3, <1>6 DEF DeviceAnswer, DeviceIgnore
  <1> QED  BY <1>4, <1>5, <1>6 DEF Line

\* So does a call that reads, fails or gives up, and every other step but
\* the last write of a request.
LEMMA OwedShrinks ==
  ASSUME TypedControl, TypedControl', OwedOK, [Next]_vars, ~(SendWrite /\ pc' = "drain")
  PROVE  OwedReqs' \subseteq OwedReqs
  <1> USE LineTypes
  <1>1. CASE Line
    BY <1>1, OwedOnLine
  <1>2. CASE ~Line
    <2> SUFFICES ASSUME NEW r \in OwedReqs'  PROVE r \in OwedReqs
      OBVIOUS
    <2>1. \/ Held(dev', r)
          \/ r # 0 /\ ~(Lacks(wire', r) /\ Lacks(rx', r) /\ Lacks(loc'.got, r))
      BY OwedMeansAfter
    <2>2. Lacks(<<>>, r)
      BY DEF Lacks
    <2>3. CASE ReadUnit
      <3>1. /\ rx # <<>> /\ rx' = Tail(rx) /\ UNCHANGED <<dev, wire>>
            /\ loc'.got = Got \/ loc'.got = <<>>
        BY <2>3, ReadStep DEF Fail, Fresh
      <3>2. Lacks(rx, r) => Lacks(rx', r)
        BY <3>1, TailUnits
      <3>3. Lacks(loc.got, r) /\ Lacks(rx, r) => Lacks(loc'.got, r)
        <4>1. Lacks(loc.got, r) /\ Lacks(rx, r) => Lacks(Got, r)
          BY <3>1, MoveLacks DEF Got
        <4> HIDE DEF Got
        <4> QED  BY <2>2, <3>1, <4>1
      <3> QED  BY <2>1, <3>1, <3>2, <3>3, OwedMeans
    <2>4. CASE ~ReadUnit
      <3>1. UNCHANGED <<dev, wire, rx>> /\ (loc'.got = loc.got \/ loc'.got = <<>>)
        BY <1>2, <2>4, SerialUntouched
      <3> QED  BY <2>1, <2>2, <3>1, OwedMeans
    <2> QED  BY <2>3, <2>4
  <1> QED  BY <1>1, <1>2

\* The stage of an exchange, step by step.
LEMMA StageStep ==
  ASSUME TypedControl, [Next]_vars, ~TcpListenOk, ~ReplySend, ~(SendWrite /\ pc' = "drain")
  PROVE  \/ Stage' = Stage /\ Cur' = Cur
         \/ Stage # "free" /\ Stage' = "free" /\ Cur' = 0
  <1> DEFINE before == pc \in {"rtuPoll", "flush", "write"}
             after == pc \in {"drain", "receive", "reply"}
  <1>1. /\ before => Stage = "taken" /\ ~after
        /\ after => Stage = "forwarded"
        /\ ~before /\ ~after => Stage = "free"
        /\ (before \/ after) <=> pc \in Exchange
    BY DEF Stage, Exchange
  <1>2. /\ before' => Stage' = "taken" /\ ~after'
        /\ after' => Stage' = "forwarded"
        /\ ~before' /\ ~after' => Stage' = "free"
        /\ (before' \/ after') <=> pc' \in Exchange
    BY DEF Stage, Exchange
  <1>3. CASE pc' \notin Exchange
    BY <1>1, <1>2, <1>3 DEF Cur
  <1>4. CASE pc' \in Exchange
    <2>1. CASE UNCHANGED vars
      BY <2>1 DEF vars, Stage, Cur
    <2>2. CASE Next
      <3>1. ~Accept /\ ~TcpListenReject
        BY <1>4 DEF Accept, TcpListenReject, Fail, Exchange
      <3>2. CASE ClientSend
        BY <3>2 DEF ClientSend, Stage, Cur
      <3>3. CASE ~ClientSend
        <4>1. pc \in Exchange /\ loc'.req = loc.req
          BY <1>4, <2>2, <3>1, <3>3, OtherSteps
        <4>2. before' <=> before
          BY <1>4, <2>2, <4>1
             DEF Exchange, Next, Accept, CallNext, IntoStream, Cycle, Listen, ListenFrame,
                 TcpListenReject, TcpListenEof, TcpListenError, Send, SendFrame, SendFlush,
                 SendWrite, SendDrain, SendError, Receive, ReadUnit, ReadHeader, ReadBody,
                 ReadLast, ReadEof, ReadRetry, ReadGiveUp, Reply, ReplyError, AsyncDeadlines,
                 TcpDeadline, RtuDeadline, SyncPolls, Polling, PollReady, ReadReady, PollSleep,
                 PollExpire, PollError, NothingReady, Client, ClientBegin, ClientSend,
                 ClientClose, Line, DeviceAnswer, DeviceIgnore, Arrive, Babble, Fail
        <4> QED  BY <1>1, <1>2, <1>4, <4>1, <4>2 DEF Cur
      <3> QED  BY <3>2, <3>3
    <2> QED  BY <2>1, <2>2
  <1> QED  BY <1>3, <1>4

\* What waits in the stream can only be dropped, but for the oldest, which a
\* call takes, and for what a client adds.
LEMMA WaitingShrinks ==
  ASSUME TypedControl, TypedControl', [Next]_vars, ~ClientSend
  PROVE  Waiting' \subseteq Waiting /\ reqs' = reqs
  <1>1. CASE reqs' = reqs /\ tcpIn' = tcpIn
    BY <1>1 DEF Waiting
  <1>2. CASE reqs' = reqs /\ tcpIn # <<>> /\ tcpIn' = Tail(tcpIn)
    <2>1. \A i \in 1..Len(tcpIn') : i + 1 \in 1..Len(tcpIn) /\ tcpIn'[i] = tcpIn[i + 1]
      BY <1>2, Counts, HeadTail
    <2>2. DOMAIN tcpIn' = 1..Len(tcpIn')
      <3>1. tcpIn' \in Seq(1..MaxReq)
        BY DEF TypedControl, TypeOK
      <3> QED  BY <3>1, LenProperties
    <2> QED  BY <1>2, <2>1, <2>2, WaitingMeans DEF Waiting
  <1>3. CASE reqs' = reqs /\ tcpIn' = <<>>
    <2>1. DOMAIN tcpIn' = {}
      BY <1>3
    <2> QED  BY <1>3, <2>1 DEF Waiting
  <1>4. CASE UNCHANGED vars
    BY <1>1, <1>4 DEF vars, tcpVars
  <1>5. CASE Accept \/ TcpListenOk \/ TcpListenReject
    BY <1>2, <1>3, <1>5 DEF Accept, TcpListenOk, TcpListenReject
  <1>6. CASE Next /\ ~Accept /\ ~TcpListenOk /\ ~TcpListenReject
    BY <1>1, <1>6, OtherSteps
  <1> QED  BY <1>4, <1>5, <1>6

LEMMA ServedKept ==
  ASSUME TypedControl, [Next]_vars, ~ReplySend
  PROVE  Served' = Served
  <1>1. delivered' = delivered
    <2>1. CASE UNCHANGED vars
      BY <2>1 DEF vars
    <2>2. CASE Accept \/ TcpListenOk \/ TcpListenReject \/ ClientSend
      BY <2>2 DEF Accept, TcpListenOk, TcpListenReject, ClientSend, Fail
    <2>3. CASE Next /\ ~Accept /\ ~TcpListenOk /\ ~TcpListenReject /\ ~ClientSend
      BY <2>3, OtherSteps
    <2> QED  BY <2>1, <2>2, <2>3
  <1> QED  BY <1>1 DEF Served

\* Most steps of the bridge lose, drop or do nothing.
LEMMA StepLoses ==
  ASSUME RefInv, TypedControl', [Next]_vars,
         ~TcpListenOk, ~ReplySend, ~ClientSend, ~(SendWrite /\ pc' = "drain")
  PROVE  G!Lose \/ G!Fail
  <1> USE DEF RefInv
  <1>1. Waiting' \subseteq Waiting /\ reqs' = reqs /\ OwedReqs' \subseteq OwedReqs /\ Served' = Served
    BY WaitingShrinks, OwedShrinks, ServedKept
  <1>2. \/ Stage' = Stage /\ Cur' = Cur
        \/ Stage # "free" /\ Stage' = "free" /\ Cur' = 0
    BY StageStep
  <1> QED  BY <1>1, <1>2 DEF G!Lose, G!Fail

\* A client sends a request.
LEMMA StepAsks ==
  ASSUME RefInv, TypedControl', [Next]_vars, ClientSend
  PROVE  G!Ask
  <1> USE DEF RefInv
  <1>1. /\ UNCHANGED <<pc, loc, delivered, lineVars>> /\ Len(reqs') = Len(reqs) + 1
        /\ Len(tcpIn') = Len(tcpIn) + 1
        /\ tcpIn'[Len(tcpIn) + 1] = Len(reqs')
        /\ \A i \in 1..Len(tcpIn) : tcpIn'[i] = tcpIn[i]
    BY SendStep DEF ClientSend
  <1>2. Stage' = Stage /\ Cur' = Cur /\ OwedReqs' = OwedReqs /\ Served' = Served
    BY <1>1 DEF Stage, Cur, OwedReqs, ReqsOf, Real, Served, lineVars
  <1>3. tcpIn' \in Seq(1..MaxReq) /\ Len(tcpIn) \in Nat
    BY Counts DEF TypedControl, TypeOK
  <1>4. DOMAIN tcpIn' = 1..(Len(tcpIn) + 1) /\ DOMAIN tcpIn = 1..Len(tcpIn)
    BY <1>1, <1>3, Counts, LenProperties
  <1> DEFINE n == Len(tcpIn) + 1
  <1>5. \A i : i \in 1..n <=> i \in 1..Len(tcpIn) \/ i = n
    BY <1>3
  <1> HIDE DEF n
  <1>6. Waiting' = Waiting \cup {Len(reqs')}
    BY <1>1, <1>4, <1>5 DEF Waiting, n
  <1> QED  BY <1>1, <1>2, <1>6 DEF G!Ask

\* A call takes the oldest request that waits.
LEMMA StepTakes ==
  ASSUME RefInv, TypedControl', [Next]_vars, TcpListenOk
  PROVE  G!Take
  <1> USE DEF RefInv
  <1>1. /\ pc = "tcpListen" /\ pc' \in {"rtuPoll", "flush"} /\ UNCHANGED <<reqs, delivered>>
        /\ loc'.req = Taken + 1 /\ tcpIn # <<>> /\ tcpIn' = Tail(tcpIn)
    BY TakeStep, TakeUp DEF TcpListenOk
  <1>2. Stage = "free" /\ Stage' = "taken" /\ Cur' = Taken + 1 /\ Served' = Served
    BY <1>1 DEF Stage, Cur, Served
  <1>3. OwedReqs' = OwedReqs
    <2>1. loc'.got = loc.got
      BY LineTypes DEF TcpListenOk, Locals
    <2>2. UNCHANGED <<dev, wire, rx>>
      BY DEF TcpListenOk, lineVars
    <2> QED  BY <2>1, <2>2 DEF OwedReqs, ReqsOf, Real
  <1>4. /\ tcpIn \in Seq(1..MaxReq) /\ Len(tcpIn) \in Nat /\ Len(tcpIn) > 0
        /\ Len(tcpIn') = Len(tcpIn) - 1 /\ Taken \in Int
        /\ DOMAIN tcpIn = 1..Len(tcpIn) /\ DOMAIN tcpIn' = 1..Len(tcpIn')
    <2>1. tcpIn' \in Seq(1..MaxReq)
      BY DEF TypedControl, TypeOK
    <2> QED  BY <1>1, <2>1, Counts, HeadTail, LenProperties
  <1>5. /\ \A i \in 1..Len(tcpIn) : tcpIn[i] = Taken + i
        /\ \A i \in 1..Len(tcpIn') : tcpIn'[i] = Taken + 1 + i
    BY <1>4, TakeStep DEF QueueOK
  <1>6. \A r : r \in Waiting <=> \E i \in 1..Len(tcpIn) : r = Taken + i
    BY <1>4, <1>5 DEF Waiting
  <1>7. \A r : r \in Waiting' <=> \E i \in 1..Len(tcpIn') : r = Taken + 1 + i
    BY <1>4, <1>5 DEF Waiting
  <1>8. Cur' \in Waiting /\ \A r \in Waiting : Cur' <= r
    BY <1>2, <1>4, <1>6
  <1>9. Waiting' = Waiting \ {Cur'}
    <2>1. ASSUME NEW r, r \in Waiting'  PROVE r \in Waiting \ {Cur'}
      <3>1. PICK i \in 1..Len(tcpIn') : r = Taken + 1 + i
        BY <1>7, <2>1
      <3>2. r = Taken + (i + 1) /\ i + 1 \in 1..Len(tcpIn) /\ r # Taken + 1
        BY <1>4, <3>1
      <3> QED  BY <1>2, <1>6, <3>2
    <2>2. ASSUME NEW r \in Waiting, r # Cur'  PROVE r \in Waiting'
      <3>1. PICK i \in 1..Len(tcpIn) : r = Taken + i
        BY <1>6
      <3>2. i # 1 /\ r = Taken + 1 + (i - 1) /\ i - 1 \in 1..Len(tcpIn')
        BY <1>2, <1>4, <2>2, <3>1
      <3> QED  BY <1>7, <3>2
    <2> QED  BY <2>1, <2>2
  <1> QED  BY <1>1, <1>2, <1>3, <1>8, <1>9 DEF G!Take

\* The last write of a request hands it to the device.
LEMMA StepForwards ==
  ASSUME RefInv, TypedControl', [Next]_vars, SendWrite, pc' = "drain"
  PROVE  G!Forward
  <1> USE DEF RefInv
  <1>1. /\ pc = "write" /\ dev' = Append(dev, loc.req) /\ UNCHANGED <<wire, rx>>
        /\ UNCHANGED <<reqs, tcpIn, delivered>> /\ loc'.got = loc.got /\ loc'.req = loc.req
    BY LineTypes DEF SendWrite, Locals, tcpVars
  <1>2. Stage = "taken" /\ Stage' = "forwarded" /\ Cur = loc.req /\ Cur' = Cur
        /\ Waiting' = Waiting /\ Served' = Served
    BY <1>1 DEF Stage, Cur, Waiting, Served
  <1>3. loc.req \in 1..MaxReq
    <2>1. loc.req \in 1..Len(reqs)
      BY <1>1 DEF TypedControl, ControlOK, Exchange
    <2> QED  BY <2>1, RequestNumbers DEF TypedControl
  <1>4. \A r : Held(dev', r) <=> Held(dev, r) \/ r = loc.req
    <2> DEFINE n == Len(dev) + 1
    <2>1. /\ Len(dev') = n /\ dev'[n] = loc.req /\ Len(dev) \in Nat
          /\ \A i \in 1..Len(dev) : dev'[i] = dev[i]
      BY <1>1, <1>3, LineTypes, AppendLast
    <2>2. \A i : i \in 1..Len(dev') <=> i \in 1..Len(dev) \/ i = n
      BY <2>1
    <2> HIDE DEF n
    <2> QED  BY <2>1, <2>2 DEF Held
  <1>5. \A r : r \in OwedReqs' <=> r \in OwedReqs \/ r = loc.req
    BY <1>1, <1>4, OwedMeans, OwedMeansAfter
  <1>6. OwedReqs' = OwedReqs \cup {Cur}
    BY <1>2, <1>5
  <1> QED  BY <1>1, <1>2, <1>6 DEF G!Forward

\* The answer given to the client is owed no more, and is given once.
LEMMA StepAnswers ==
  ASSUME RefInv, TypedControl', [Next]_vars, ReplySend
  PROVE  G!Answer
  <1> USE DEF RefInv
  <1>1. /\ pc = "reply" /\ pc' = "ready" /\ UNCHANGED <<reqs, tcpIn, dev, wire, rx>>
        /\ loc' = Fresh /\ loc'.got = <<>>
        /\ Len(delivered') = Len(delivered) + 1
        /\ \A j \in 1..Len(delivered) : delivered'[j] = delivered[j]
        /\ delivered'[Len(delivered) + 1].req = loc.req
        /\ delivered'[Len(delivered) + 1].resp = loc.resp
    BY ReplyStep DEF ReplySend, tcpVars, lineVars, Fresh
  <1>2. /\ Stage = "forwarded" /\ Stage' = "free" /\ Cur = loc.req /\ Cur' = 0
        /\ Waiting' = Waiting
    BY <1>1 DEF Stage, Cur, Waiting
  <1> DEFINE a == loc.resp
             f == Frame(a)
  <1>3. loc.got = f /\ a \in 1..MaxReq
    <2>1. a \in 1..Len(reqs)
      BY <1>1 DEF TypedControl, ControlOK
    <2> QED  BY <1>1, <2>1, RequestNumbers DEF ReadOK, TypedControl
  <1>4. /\ a # 0 /\ Len(f) = RespLen /\ 1 \in 1..RespLen
        /\ \A k \in 1..RespLen : f[k] = [req |-> a, ix |-> k] /\ f[k].req = a
    BY <1>3, FrameUnits, FrameAssumption
  <1> HIDE DEF a, f
  <1>5. \A s \in Seq(Unit) : Apart(f, s) /\ Sound(s, Newest) => Lacks(s, a)
    <2> SUFFICES ASSUME NEW s \in Seq(Unit), Apart(f, s), Sound(s, Newest),
                        NEW i \in 1..Len(s), s[i].req = a
                 PROVE  FALSE
      BY DEF Lacks
    <2>1. s[i].ix \in 1..RespLen
      BY <1>4 DEF Sound
    <2>2. s[i] \in Unit
      BY ElementOfSeq
    <2>3. s[i] = [req |-> a, ix |-> s[i].ix]
      BY <2>2 DEF Unit
    <2>4. f[s[i].ix] = s[i] /\ s[i].ix \in 1..Len(f) /\ f[s[i].ix].req # 0
      BY <1>4, <2>1, <2>3
    <2> QED  BY <2>4 DEF Apart
  <1>6. Lacks(rx, a) /\ Lacks(wire, a)
    BY <1>3, <1>5, LineTypes DEF OwedOK, UnitsOnce
  <1>7. ~Held(dev, a)
    BY <1>3, <1>4 DEF OwedOK, HeldOnce, Lacks, Held
  <1>8. ~Lacks(loc.got, a) /\ \A r : r # a => Lacks(loc.got, r)
    BY <1>3, <1>4 DEF Lacks
  <1>9. Lacks(<<>>, a) /\ \A r : Lacks(<<>>, r)
    BY DEF Lacks
  <1>10. \A r : r \in OwedReqs' <=> r \in OwedReqs /\ r # a
    BY <1>1, <1>6, <1>7, <1>8, <1>9, OwedMeans, OwedMeansAfter
  <1>11. a \in OwedReqs /\ OwedReqs' = OwedReqs \ {a}
    <2>1. a \in OwedReqs
      BY <1>4, <1>8, OwedMeans
    <2> QED  BY <1>10, <2>1
  <1>12. Served' = Append(Served, [req |-> Cur, resp |-> a])
    <2> DEFINE n == Len(delivered)
               S == [req : 1..MaxReq, resp : 1..MaxReq]
               e == [req |-> Cur, resp |-> a]
    <2>1. delivered \in Seq(Delivery) /\ delivered' \in Seq(Delivery) /\ n \in Nat
      BY Counts DEF TypedControl, TypeOK
    <2>2. /\ DOMAIN delivered = 1..n /\ DOMAIN delivered' = 1..(n + 1)
          /\ \A i \in 1..n : delivered[i] \in Delivery
      BY <1>1, <2>1, LenProperties, ElementOfSeq
    <2>3. /\ \A d \in Delivery : [req |-> d.req, resp |-> d.resp] \in S
      BY DEF Delivery
    <2>4. e \in S
      <3>1. Cur \in 1..MaxReq
        <4>1. loc.req \in 1..Len(reqs)
          BY <1>1 DEF TypedControl, ControlOK, Exchange
        <4> QED  BY <1>2, <4>1, RequestNumbers DEF TypedControl
      <3> QED  BY <1>3, <3>1
    <2> HIDE DEF n, S, e
    <2>5. /\ Served \in [1..n -> S]
          /\ \A i \in 1..n : Served[i] = [req |-> delivered[i].req, resp |-> delivered[i].resp]
      BY <2>2, <2>3 DEF Served
    <2>6. Served \in Seq(S) /\ Len(Served) = n
      BY <2>1, <2>5
    <2>7. /\ Append(Served, e) \in Seq(S) /\ Len(Append(Served, e)) = n + 1
          /\ Append(Served, e)[n + 1] = e
          /\ \A i \in 1..n : Append(Served, e)[i] = Served[i]
      BY <2>4, <2>6, AppendLast
    <2>8. /\ DOMAIN Served' = 1..(n + 1)
          /\ \A i \in 1..(n + 1) : Served'[i] = [req |-> delivered'[i].req, resp |-> delivered'[i].resp]
          /\ Served' = [i \in 1..(n + 1) |-> Served'[i]]
      BY <2>2 DEF Served
    <2>9. \A i \in 1..(n + 1) : Served'[i] = Append(Served, e)[i]
      <3> TAKE i \in 1..(n + 1)
      <3>1. CASE i = n + 1
        <4>1. delivered'[n + 1].req = Cur /\ delivered'[n + 1].resp = a
          BY <1>1, <1>2 DEF n, a
        <4> QED  BY <2>7, <2>8, <3>1, <4>1 DEF e
      <3>2. CASE i # n + 1
        <4>1. i \in 1..n
          BY <2>1, <3>2
        <4>2. delivered'[i] = delivered[i]
          BY <1>1, <4>1 DEF n
        <4> QED  BY <2>5, <2>7, <2>8, <4>1, <4>2
      <3> QED  BY <3>1, <3>2
    <2>10. Append(Served, e) = [i \in 1..(n + 1) |-> Append(Served, e)[i]]
      BY <2>7, LenProperties
    <2>11. Served' = Append(Served, e)
      BY <2>8, <2>9, <2>10
    <2> QED  BY <2>11 DEF e
  <1> QED  BY <1>1, <1>2, <1>11, <1>12 DEF G!Answer

LEMMA RefInit == Init => RefInv
  <1> SUFFICES ASSUME Init  PROVE RefInv
    OBVIOUS
  <1>1. QueueOK
    BY OrderInit DEF OrderInv
  <1> QED  BY <1>1, TypesInit, OwedInit DEF RefInv

LEMMA RefNext == RefInv /\ [Next]_vars => RefInv'
  <1> SUFFICES ASSUME RefInv, [Next]_vars  PROVE RefInv'
    OBVIOUS
  <1>1. TypedControl /\ QueueOK /\ OwedOK /\ ReadOK
    BY DEF RefInv
  <1> QED  BY <1>1, TypesNext, QueueNext, OwedNext, ReadNext DEF RefInv

LEMMA StepImplements == RefInv /\ [Next]_vars => [G!Next]_(G!vars)
  <1> SUFFICES ASSUME RefInv, [Next]_vars  PROVE G!Next
    OBVIOUS
  <1>1. TypedControl'
    BY TypesNext DEF RefInv
  <1>2. CASE TcpListenOk
    BY <1>1, <1>2, StepTakes DEF G!Next
  <1>3. CASE SendWrite /\ pc' = "drain"
    BY <1>1, <1>3, StepForwards DEF G!Next
  <1>4. CASE ReplySend
    BY <1>1, <1>4, StepAnswers DEF G!Next
  <1>5. CASE ClientSend
    BY <1>1, <1>5, StepAsks DEF G!Next
  <1>6. CASE ~TcpListenOk /\ ~ReplySend /\ ~ClientSend /\ ~(SendWrite /\ pc' = "drain")
    BY <1>1, <1>6, StepLoses DEF G!Next
  <1> QED  BY <1>2, <1>3, <1>4, <1>5, <1>6

LEMMA InitImplements == Init => G!Init
  <1> SUFFICES ASSUME Init  PROVE G!Init
    OBVIOUS
  <1>1. /\ pc = "idle" /\ loc.got = <<>> /\ reqs = <<>> /\ tcpIn = <<>> /\ delivered = <<>>
        /\ dev = <<>> /\ wire = <<>> /\ rx = <<>>
    BY DEF Init, Fresh
  <1>2. Len(reqs) = 0 /\ DOMAIN tcpIn = {} /\ DOMAIN dev = {} /\ 1..Len(wire) = {}
        /\ 1..Len(rx) = {} /\ 1..Len(loc.got) = {}
    BY <1>1
  <1>3. Stage = "free" /\ Cur = 0 /\ Waiting = {}
    BY <1>1, <1>2 DEF Stage, Cur, Waiting
  <1>4. OwedReqs = {}
    BY <1>2 DEF OwedReqs, ReqsOf, Real
  <1>5. Served = <<>>
    <2>1. Served = [i \in {} |-> [req |-> delivered[i].req, resp |-> delivered[i].resp]]
      BY <1>1 DEF Served
    <2> QED  BY <2>1
  <1> QED  BY <1>2, <1>3, <1>4, <1>5 DEF G!Init

(***************************************************************************)
(* Bridge mode implements Gateway, whichever body of next runs and         *)
(* whatever goes wrong: a request is forwarded and answered at most once,  *)
(* in the order the requests came, and an answer given to a client was     *)
(* owed until then and is never given again.                               *)
(***************************************************************************)
THEOREM Implements == Spec => GatewaySpec
  <1>1. Spec => []RefInv
    BY RefInit, RefNext, PTL DEF Spec
  <1> QED  BY <1>1, InitImplements, StepImplements, PTL DEF Spec, GatewaySpec, G!Spec

-----------------------------------------------------------------------------
(* So that what is proved of every gateway is true of bridge mode. *)

P == INSTANCE GatewayProofs WITH asked <- Len(reqs), waiting <- Waiting, stage <- Stage,
                                 cur <- Cur, owed <- OwedReqs, served <- Served

\* An answer handed to a client is the one its request asked for or one to
\* an earlier request, and it is handed to one client only.
AnswersOnce ==
  \A i, j \in 1..Len(delivered) :
    /\ delivered[i].resp <= delivered[i].req
    /\ i # j => delivered[i].resp # delivered[j].resp

(***************************************************************************)
(* Late answers are handed on late, but none ahead of its request, and an  *)
(* RTU frame answers one request at most, however often it is retried.     *)
(***************************************************************************)
THEOREM NoAnswerTwice == Spec => []AnswersOnce
  <1>1. GatewaySpec => P!Spec
    BY DEF GatewaySpec, G!Spec, P!Spec, G!Init, P!Init, G!Next, P!Next, G!vars, P!vars,
           G!Ask, P!Ask, G!Lose, P!Lose, G!Take, P!Take, G!Forward, P!Forward,
           G!Answer, P!Answer, G!Fail, P!Fail
  <1>2. Spec => [](P!InOrder /\ P!NoAnswerTwice /\ P!NeverAhead)
    BY <1>1, Implements, P!GatewayPromises, PTL
  <1>3. TypeOK /\ P!NoAnswerTwice /\ P!NeverAhead => AnswersOnce
    <2> SUFFICES ASSUME TypeOK, P!NoAnswerTwice, P!NeverAhead  PROVE AnswersOnce
      OBVIOUS
    <2> DEFINE n == Len(delivered)
    <2>1. DOMAIN delivered = 1..n /\ n \in Nat
      BY LenProperties DEF TypeOK
    <2> HIDE DEF n
    <2>2. /\ DOMAIN Served = 1..n /\ Len(Served) = n
          /\ \A i \in 1..n : Served[i] = [req |-> delivered[i].req, resp |-> delivered[i].resp]
      BY <2>1 DEF Served
    <2>3. \A i \in 1..n : /\ Served[i].req = delivered[i].req
                          /\ Served[i].resp = delivered[i].resp
      BY <2>2
    <2> QED  BY <2>2, <2>3 DEF P!NoAnswerTwice, P!NeverAhead, AnswersOnce, n
  <1> QED  BY <1>2, <1>3, TypeCorrect, PTL
=============================================================================
