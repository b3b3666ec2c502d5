--------------------------- MODULE EventLoopProofs ---------------------------
(***************************************************************************)
(* The worker's loop, for any number of descriptors, connections, failing  *)
(* calls and any length of a batch: it leaks no descriptor, it never       *)
(* follows an event to a context that is gone, and where a request of port *)
(* 80 came in one piece, it is this request that is parsed.                *)
(***************************************************************************)
EXTENDS EventLoop, SequenceTheorems, WellFoundedInduction, TLAPS

\* What is needed of the types.
CtxType == ctx \in [Fd -> {"none", "80", "443"}] /\ open \subseteq Fd

\* The inductive invariant for the life of descriptors.
IInv == CtxType /\ Watched

\* The worker starts without connections.
LEMMA InitIInv == Init => IInv
  BY DEF Init, IInv, CtxType, Watched

\* A descriptor from accept4 is a new one, and gets its context with it.
LEMMA AcceptStep ==
  ASSUME IInv, NEW l \in Listener,
         Accept(l) \/ AcceptFull(l) \/ AcceptFails(l) \/ AddFails(l) \/ AllocFails(l)
  PROVE  IInv'
<1>1. CASE Accept(l)
  <2>1. PICK fd \in Lowest : /\ open' = open \cup {fd}
                             /\ registered' = registered \cup {fd}
                             /\ ctx' = [ctx EXCEPT ![fd] = Kind(l)]
    BY <1>1 DEF Accept
  <2>2. fd \in Fd /\ Kind(l) \in {"80", "443"}
    BY DEF Lowest, Kind
  <2> QED
    BY <2>1, <2>2 DEF IInv, CtxType, Watched
<1>2. CASE AcceptFull(l) \/ AcceptFails(l) \/ AddFails(l) \/ AllocFails(l)
  <2>1. UNCHANGED <<ctx, open, registered>>
    BY <1>2 DEF AcceptFull, AcceptFails, AddFails, AllocFails, Abandon, kernel
  <2> QED
    BY <2>1 DEF IInv, CtxType, Watched
<1> QED
  BY <1>1, <1>2

\* A context, its descriptor and epoll's interest in it end together.
LEMMA ReleaseStep ==
  ASSUME IInv, NEW fd, Release(fd)
  PROVE  IInv'
  BY DEF Release, IInv, CtxType, Watched

\* Handlers of connections release theirs or leave it as it is.
LEMMA HandlerStep ==
  ASSUME IInv,
         \/ \E fd \in Fd : Handle443(fd) \/ Redir80(fd)
         \/ RecvPart \/ RecvEnd \/ RecvNothing
  PROVE  IInv'
<1>1. (\E fd : Release(fd)) \/ UNCHANGED <<ctx, open, registered>>
  BY DEF Handle443, Redir80, RecvPart, RecvEnd, RecvNothing, Finish, kernel
<1> QED
  BY <1>1, ReleaseStep DEF IInv, CtxType, Watched

\* Every step keeps contexts, descriptors and epoll's interest together.
LEMMA NextIInv ==
  ASSUME IInv, [Next]_vars
  PROVE  IInv'
<1>1. CASE \E l \in Listener :
             Accept(l) \/ AcceptFull(l) \/ AcceptFails(l) \/ AddFails(l) \/ AllocFails(l)
  BY <1>1, AcceptStep
<1>2. CASE \/ \E fd \in Fd : Handle443(fd) \/ Redir80(fd)
           \/ RecvPart \/ RecvEnd \/ RecvNothing
  BY <1>2, HandlerStep
<1>3. CASE \/ EpollDrop \/ EpollWait \/ TimerRead \/ Expire
           \/ \E l \in Listener : Connect(l)
           \/ \E fd \in Fd, s \in Segment : Send(fd, s)
           \/ \E fd \in Fd : Drain(fd)
           \/ UNCHANGED vars
  <2>1. UNCHANGED <<ctx, open, registered>>
    BY <1>3 DEF EpollDrop, EpollWait, TimerRead, Expire, Connect, Send, Drain, vars, kernel
  <2> QED
    BY <2>1 DEF IInv, CtxType, Watched
<1> QED
  BY <1>1, <1>2, <1>3 DEF Next, Worker

\* Whatever fails in fws_child_run and wherever a batch is broken off, every open
\* descriptor of a connection has a context and is watched by epoll, and no other is.
THEOREM WatchedHolds == Spec => []Watched
<1>1. IInv /\ [Next]_vars => IInv'
  BY NextIInv
<1>2. IInv => Watched
  BY DEF IInv
<1> QED
  BY InitIInv, <1>1, <1>2, PTL DEF Spec

------------------------------------------------------------------------------
\* The batch: events of different items, one of them at least while it is worked
\* on, and the redirect's descriptor at its head.
Entry == [item : Item, gen : Nat]
Distinct(s) == \A i, j \in 1 .. Len(s) : s[i] = s[j] => i = j

Batch ==
  /\ pc \in {"wait", "batch", "redir", "exit"}
  /\ batch \in Seq(Entry)
  /\ pc \in {"batch", "redir"} <=> batch # <<>>
  /\ \A i, j \in 1 .. Len(batch) : batch[i].item = batch[j].item => i = j
  /\ pc = "redir" => Cur \in Fd /\ ctx[Cur] = "80"

\* epoll's list.
List == ready \in Seq(Item) /\ Distinct(ready)

\* A listener's event still means a waiting connection when it is handled.
Waiting ==
  \A i \in 1 .. Len(batch) : batch[i].item \in Listener => backlog[batch[i].item] > 0

\* Both backlogs together hold no more connections than were made.
Backlog ==
  /\ backlog \in [Listener -> Nat]
  /\ n_conn \in Nat
  /\ backlog[server_http_fd] + backlog[server_https_fd] <= n_conn
  /\ n_conn <= MaxConn

\* What an event of the batch points to is there, and is what it was registered for.
Live == \A i \in 1 .. Len(batch) :
          batch[i].item \in Fd => /\ ctx[batch[i].item] # "none"
                                  /\ gen[batch[i].item] = batch[i].gen

\* The invariant of the loop.  NoStale is Live at the head of the batch; that the rest
\* of the batch stays live when a descriptor is released and used again needs Batch
\* (no descriptor twice) and, for the listeners' events, Waiting.
LInv == Batch /\ List /\ Waiting /\ Backlog /\ Live /\ gen \in [Fd -> Nat] /\ tick \in BOOLEAN

\* The fixed descriptors and those of connections are different.
LEMMA Items ==
  /\ Item = Listener \cup {timer_fd} \cup Fd
  /\ timer_fd \notin Listener
  /\ \A fd \in Fd : fd \notin Listener /\ fd # timer_fd
  BY ConstantsType DEF Item, Listener, Fd, server_http_fd, server_https_fd, timer_fd

\* Taking an element out of a sequence without repetition, and the rest of it.
LEMMA RemoveAtKeeps ==
  ASSUME NEW S, NEW s \in Seq(S), Distinct(s), NEW i \in 1 .. Len(s)
  PROVE  RemoveAt(s, i) \in Seq(S) /\ Distinct(RemoveAt(s, i))
<1> DEFINE a == SubSeq(s, 1, i - 1)
           b == SubSeq(s, i + 1, Len(s))
           r == a \o b
<1>1. Len(s) \in Nat /\ i \in Nat /\ i >= 1 /\ i <= Len(s)
  OBVIOUS
<1>2. /\ a \in Seq(S) /\ Len(a) = i - 1
      /\ \A j \in 1 .. i - 1 : a[j] = s[j]
  <2>1. /\ 1 \in 1 .. Len(s) + 1 /\ i - 1 \in 1 - 1 .. Len(s)
        /\ i - 1 - 1 + 1 = i - 1 /\ \A j \in 1 .. i - 1 : 1 + j - 1 = j
    BY <1>1
  <2> QED
    BY <2>1, <1>1, SubSeqProperties
<1>3. /\ b \in Seq(S) /\ Len(b) = Len(s) - i
      /\ \A j \in 1 .. Len(s) - i : b[j] = s[i + j]
  <2> DEFINE m == i + 1
  <2>1. /\ m \in 1 .. Len(s) + 1 /\ Len(s) \in m - 1 .. Len(s)
        /\ Len(s) - m + 1 = Len(s) - i
        /\ \A j \in 1 .. Len(s) - i : m + j - 1 = i + j
    BY <1>1
  <2> HIDE DEF m
  <2>2. /\ SubSeq(s, m, Len(s)) \in Seq(S)
        /\ Len(SubSeq(s, m, Len(s))) = Len(s) - m + 1
        /\ \A j \in 1 .. Len(s) - m + 1 : SubSeq(s, m, Len(s))[j] = s[m + j - 1]
    BY <2>1, SubSeqProperties
  <2> QED
    BY <2>1, <2>2 DEF m
<1> HIDE DEF a, b
<1>4. /\ r \in Seq(S) /\ Len(r) = Len(a) + Len(b)
      /\ \A j \in 1 .. Len(a) + Len(b) : r[j] = IF j <= Len(a) THEN a[j] ELSE b[j - Len(a)]
  BY <1>2, <1>3, ConcatProperties
<1> HIDE DEF r
<1>5. Len(r) = Len(s) - 1
  BY <1>1, <1>2, <1>3, <1>4
<1>6. ASSUME NEW j \in 1 .. Len(s) - 1
      PROVE  r[j] = s[IF j < i THEN j ELSE j + 1]
  <2>1. CASE j < i
    <3>1. j \in 1 .. i - 1 /\ j \in 1 .. Len(a) + Len(b) /\ j <= Len(a)
      BY <1>1, <1>2, <1>3, <2>1
    <3>2. r[j] = a[j]
      BY <1>4, <3>1
    <3>3. a[j] = s[j]
      BY <1>2, <3>1
    <3> QED
      BY <2>1, <3>2, <3>3
  <2>2. CASE ~(j < i)
    <3>1. j - (i - 1) \in 1 .. Len(s) - i /\ i + (j - (i - 1)) = j + 1
          /\ j \in 1 .. Len(a) + Len(b) /\ ~(j <= Len(a))
      BY <1>1, <1>2, <1>3, <2>2
    <3>2. r[j] = b[j - (i - 1)]
      BY <1>2, <1>4, <3>1
    <3> QED
      BY <1>3, <2>2, <3>1, <3>2
  <2> QED
    BY <2>1, <2>2
<1>7. Distinct(r)
  <2> SUFFICES ASSUME NEW j \in 1 .. Len(s) - 1, NEW k \in 1 .. Len(s) - 1, r[j] = r[k]
               PROVE  j = k
    BY <1>5 DEF Distinct
  <2> DEFINE at(m) == IF m < i THEN m ELSE m + 1
  <2>1. at(j) \in 1 .. Len(s) /\ at(k) \in 1 .. Len(s)
    BY <1>1
  <2>2. s[at(j)] = s[at(k)]
    BY <1>6
  <2>3. at(j) = at(k)
    BY <2>1, <2>2 DEF Distinct
  <2> QED
    BY <1>1, <2>3
<1> QED
  BY <1>4, <1>7 DEF RemoveAt, r, a, b

\* The element that RemoveFirst takes out.
LEMMA LeastIndex ==
  ASSUME NEW S \in SUBSET Nat, S # {}
  PROVE  Min(S) \in S
<1>1. PICK x \in S : \A y \in S : ~(<<y, x>> \in OpToRel(<, Nat))
  BY NatLessThanWellFounded, WFMin
<1>2. ASSUME NEW m \in Nat, NEW n \in Nat, m < n
      PROVE  <<m, n>> \in OpToRel(<, Nat)
  BY <1>2 DEF OpToRel
<1>3. \A y \in S : x <= y
  <2> TAKE y \in S
  <2>1. x \in Nat /\ y \in Nat
    OBVIOUS
  <2>2. ~(y < x)
    BY <2>1, <1>1, <1>2
  <2> QED
    BY <2>1, <2>2
<1> QED
  BY <1>3 DEF Min

\* Taking one item off epoll's list.
LEMMA RemoveFirstKeeps ==
  ASSUME NEW S, NEW s \in Seq(S), Distinct(s), NEW e
  PROVE  RemoveFirst(s, e) \in Seq(S) /\ Distinct(RemoveFirst(s, e))
<1> DEFINE I == {i \in 1 .. Len(s) : s[i] = e}
<1>1. CASE I = {}
  <2>1. RemoveFirst(s, e) = s
    BY <1>1 DEF RemoveFirst
  <2> QED
    BY <2>1
<1>2. CASE I # {}
  <2>1. RemoveFirst(s, e) = RemoveAt(s, Min(I))
    BY <1>2 DEF RemoveFirst, SelectInSeq
  <2>2. I \in SUBSET Nat
    OBVIOUS
  <2> HIDE DEF I
  <2>3. Min(I) \in 1 .. Len(s)
    BY <1>2, <2>2, LeastIndex DEF I
  <2> QED
    BY <2>1, <2>3, RemoveAtKeeps
<1> QED
  BY <1>1, <1>2

\* A new event puts its item on epoll's list, unless it is there.
LEMMA NotifiedKeeps ==
  ASSUME List, NEW item \in Item, ready' = Notified(item)
  PROVE  List'
<1>1. CASE Contains(ready, item)
  BY <1>1 DEF Notified, List, Distinct
<1>2. CASE ~Contains(ready, item)
  <2>1. ready' = Append(ready, item) /\ ready \in Seq(Item)
    BY <1>2 DEF Notified, List
  <2>2. /\ ready' \in Seq(Item) /\ Len(ready') = Len(ready) + 1
        /\ \A i \in 1 .. Len(ready) : ready'[i] = ready[i]
        /\ ready'[Len(ready) + 1] = item
    BY <2>1, AppendProperties
  <2>3. \A i \in 1 .. Len(ready) : ready[i] # item
    BY <1>2 DEF Contains
  <2> QED
    BY <2>1, <2>2, <2>3 DEF List, Distinct
<1> QED
  BY <1>1, <1>2

------------------------------------------------------------------------------
\* Going on to the next event: what is behind it in the batch belongs to other
\* descriptors, so it stays as good as it was if only this one is touched, or one
\* without a context.
LEMMA NextEventKeeps ==
  ASSUME LInv, batch # <<>>, NextEvent,
         \A fd \in Fd : fd # batch[1].item /\ ctx[fd] # "none" =>
                          ctx'[fd] = ctx[fd] /\ gen'[fd] = gen[fd],
         \A l \in Listener : l # batch[1].item => backlog'[l] = backlog[l]
  PROVE  Batch' /\ Waiting' /\ Live'
<1>1. /\ batch \in Seq(Entry)
      /\ \A i, j \in 1 .. Len(batch) : batch[i].item = batch[j].item => i = j
  BY DEF LInv, Batch
<1>2. /\ batch' \in Seq(Entry) /\ Len(batch') = Len(batch) - 1
      /\ Len(batch) \in Nat \ {0}
      /\ \A i \in 1 .. Len(batch) - 1 : batch'[i] = batch[i + 1]
  <2>1. batch' = Tail(batch)
    BY DEF NextEvent
  <2> QED
    BY <1>1, <2>1, HeadTailProperties, EmptySeq
<1>3. ASSUME NEW i \in 1 .. Len(batch')
      PROVE  /\ i + 1 \in 1 .. Len(batch) /\ batch'[i] = batch[i + 1]
             /\ batch[i + 1].item # batch[1].item
  <2>1. /\ i + 1 \in 1 .. Len(batch) /\ batch'[i] = batch[i + 1]
        /\ 1 \in 1 .. Len(batch) /\ i + 1 # 1
    BY <1>2
  <2> QED
    BY <1>1, <2>1
<1>4. Batch'
  <2>1. pc' \in {"wait", "batch"} /\ (pc' = "wait" <=> Len(batch) = 1)
    BY DEF NextEvent
  <2>2. batch' = <<>> <=> Len(batch) = 1
    BY <1>2
  <2>3. ASSUME NEW i \in 1 .. Len(batch'), NEW j \in 1 .. Len(batch'),
               batch'[i].item = batch'[j].item
        PROVE  i = j
    <3>1. i + 1 = j + 1
      BY <1>1, <1>3, <2>3
    <3> QED
      BY <1>2, <3>1
  <2> QED
    BY <1>2, <2>1, <2>2, <2>3 DEF Batch
<1>5. Waiting'
  BY <1>3 DEF LInv, Waiting
<1>6. Live'
  BY <1>3 DEF LInv, Live
<1> QED
  BY <1>4, <1>5, <1>6

\* Nothing is left of a batch that is broken off.
LEMMA DropBatchKeeps ==
  ASSUME batch' = <<>>, pc' \in {"wait", "exit"}
  PROVE  Batch' /\ Waiting' /\ Live'
<1>1. batch' \in Seq(Entry) /\ Len(batch') = 0
  BY EmptySeq
<1> QED
  BY <1>1 DEF Batch, Waiting, Live

\* What clients do leaves the batch alone.
LEMMA SameBatchKeeps ==
  ASSUME LInv, UNCHANGED <<pc, batch, ctx, gen>>,
         \A l \in Listener : backlog[l] > 0 => backlog'[l] > 0
  PROVE  Batch' /\ Waiting' /\ Live'
<1>1. Batch'
  BY DEF LInv, Batch, Cur
<1>2. Waiting' /\ Live'
  BY DEF LInv, Waiting, Live
<1> QED
  BY <1>1, <1>2

\* A connection is taken from the backlog of a listener that has one.
LEMMA BacklogTaken ==
  ASSUME LInv, NEW l \in Listener, At(l), NEW gone \in 0 .. 1,
         backlog' = [backlog EXCEPT ![l] = @ - gone], n_conn' = n_conn
  PROVE  /\ Backlog' /\ batch # <<>>
         /\ \A k \in Listener : k # batch[1].item => backlog'[k] = backlog[k]
<1>1. batch \in Seq(Entry) /\ batch # <<>> /\ batch[1].item = l
  BY DEF LInv, Batch, At
<1>2. 1 \in 1 .. Len(batch)
  BY <1>1
<1>3. backlog[l] > 0 /\ backlog \in [Listener -> Nat]
  BY <1>1, <1>2 DEF LInv, Waiting, Backlog
<1>4. backlog' \in [Listener -> Nat] /\ \A k \in Listener : backlog'[k] <= backlog[k]
  BY <1>3
<1>5. server_http_fd \in Listener /\ server_https_fd \in Listener
  BY DEF Listener
<1>6. Backlog'
  BY <1>3, <1>4, <1>5 DEF LInv, Backlog
<1> QED
  BY <1>1, <1>3, <1>6

\* accept4 and what can fail after it keep the invariant of the loop.
LEMMA ListenerStep ==
  ASSUME IInv, LInv, NEW l \in Listener,
         Accept(l) \/ AcceptFull(l) \/ AcceptFails(l) \/ AddFails(l) \/ AllocFails(l)
  PROVE  LInv'
<1>0. List /\ Backlog /\ gen \in [Fd -> Nat] /\ tick \in BOOLEAN
  BY DEF LInv
<1>1. CASE Accept(l)
  <2>1. PICK fd \in Lowest : /\ ctx' = [ctx EXCEPT ![fd] = Kind(l)]
                             /\ gen' = [gen EXCEPT ![fd] = @ + 1]
    BY <1>1 DEF Accept
  <2>2. /\ At(l) /\ NextEvent /\ backlog' = [backlog EXCEPT ![l] = @ - 1]
        /\ ready' = ready /\ tick' = tick /\ n_conn' = n_conn
    BY <1>1 DEF Accept, bounds
  <2>3. /\ Backlog' /\ batch # <<>>
        /\ \A k \in Listener : k # batch[1].item => backlog'[k] = backlog[k]
    <3>1. \E gone \in 0 .. 1 : backlog' = [backlog EXCEPT ![l] = @ - gone]
      BY <2>2
    <3> QED
      BY <2>2, <3>1, BacklogTaken
  <2>4. fd \in Fd /\ ctx[fd] = "none"
    BY DEF Lowest, IInv, Watched
  <2>5. Batch' /\ Waiting' /\ Live'
    BY <2>1, <2>2, <2>3, <2>4, <1>0, NextEventKeeps DEF IInv, CtxType
  <2>6. gen' \in [Fd -> Nat]
    BY <1>0, <2>1, <2>4
  <2>7. List' /\ tick' \in BOOLEAN
    BY <1>0, <2>2 DEF List
  <2> QED
    BY <2>3, <2>5, <2>6, <2>7 DEF LInv
<1>2. CASE AcceptFull(l) \/ AcceptFails(l) \/ AddFails(l) \/ AllocFails(l)
  <2>1. /\ At(l) /\ batch' = <<>> /\ pc' \in {"wait", "exit"}
        /\ UNCHANGED <<ready, gen, tick, n_conn>>
    BY <1>2 DEF AcceptFull, AcceptFails, AddFails, AllocFails, DropBatch, kernel,
       history, bounds
  <2>2. \E gone \in 0 .. 1 : backlog' = [backlog EXCEPT ![l] = @ - gone]
    <3>1. CASE AcceptFails(l)
      BY <3>1 DEF AcceptFails
    <3>2. CASE AddFails(l)
      BY <3>2 DEF AddFails
    <3>3. CASE AcceptFull(l) \/ AllocFails(l)
      <4>1. backlog' = backlog
        BY <3>3 DEF AcceptFull, AllocFails, kernel
      <4>2. backlog = [backlog EXCEPT ![l] = @ - 0]
        BY <1>0 DEF Backlog
      <4> QED
        BY <4>1, <4>2
    <3> QED
      BY <1>2, <3>1, <3>2, <3>3
  <2>3. Backlog'
    BY <2>1, <2>2, BacklogTaken
  <2>4. Batch' /\ Waiting' /\ Live'
    BY <2>1, DropBatchKeeps
  <2>5. List' /\ gen' \in [Fd -> Nat] /\ tick' \in BOOLEAN
    BY <1>0, <2>1 DEF List
  <2> QED
    BY <2>3, <2>4, <2>5 DEF LInv
<1> QED
  BY <1>1, <1>2

\* Every event of a new batch is about something ready at this moment, and epoll's
\* list turns round by as many.
LEMMA EpollStep ==
  ASSUME IInv, LInv, EpollDrop \/ EpollWait
  PROVE  LInv'
<1>0. /\ List /\ Backlog /\ gen \in [Fd -> Nat] /\ tick \in BOOLEAN
      /\ ready \in Seq(Item)
      /\ Distinct(ready)
  BY DEF LInv, List
<1>1. CASE EpollDrop
  <2>1. PICK i \in 1 .. n_event : ready' = RemoveAt(ready, i)
    BY <1>1 DEF EpollDrop
  <2>2. i \in 1 .. Len(ready)
    BY <1>0, ConstantsType DEF n_event
  <2>3. List'
    BY <1>0, <2>1, <2>2, RemoveAtKeeps DEF List
  <2>4. UNCHANGED <<pc, batch, ctx, gen, backlog, tick, n_conn>>
    BY <1>1 DEF EpollDrop, history, bounds
  <2>5. Batch' /\ Waiting' /\ Live'
    BY <2>4, SameBatchKeeps
  <2> QED
    BY <1>0, <2>3, <2>4, <2>5 DEF LInv, Backlog
<1>2. CASE EpollWait
  <2> DEFINE n == n_event
             L == Len(ready)
             got == SubSeq(ready, 1, n)
             rest == SubSeq(ready, n + 1, L)
             e(i) == [item |-> got[i], gen |-> IF got[i] \in Fd THEN gen[got[i]] ELSE 0]
  <2>1. /\ ready # <<>> /\ \A i \in 1 .. n : Ready(ready[i])
        /\ batch' = [i \in 1 .. n |-> e(i)]
        /\ ready' = rest \o got /\ pc' = "batch"
        /\ UNCHANGED <<ctx, gen, backlog, tick, n_conn>>
    BY <1>2 DEF EpollWait, LevelTriggered, history, bounds
  <2>2. L \in Nat /\ n \in Nat /\ 1 <= n /\ n <= L
    BY <1>0, <2>1, ConstantsType DEF n_event
  <2>3. \A i \in 1 .. L : ready[i] \in Item
    BY <1>0
  <2> HIDE DEF n
  <2>4. got \in Seq(Item) /\ Len(got) = n /\ \A i \in 1 .. n : got[i] = ready[i]
    BY <2>2, <2>3, SubSeqProperties
  <2>5. rest \in Seq(Item) /\ Len(rest) = L - n /\ \A i \in 1 .. L - n : rest[i] = ready[n + i]
    <3> DEFINE m == n + 1
    <3>1. m \in Int /\ L \in Int /\ \A i \in m .. L : ready[i] \in Item
      BY <2>2, <2>3
    <3>2. /\ L - m + 1 = L - n /\ \A i \in 1 .. L - n : m + i - 1 = n + i
          /\ (IF m <= L THEN L - m + 1 ELSE 0) = L - n
      <4> HIDE DEF L
      <4>1. L - (n + 1) + 1 = L - n /\ (n + 1 <= L <=> ~(L - n = 0))
        BY <2>2
      <4>2. \A i \in 1 .. L - n : n + 1 + i - 1 = n + i
        BY <2>2
      <4> QED
        BY <4>1, <4>2 DEF m
    <3> HIDE DEF m
    <3>3. /\ SubSeq(ready, m, L) \in Seq(Item)
          /\ Len(SubSeq(ready, m, L)) = IF m <= L THEN L - m + 1 ELSE 0
          /\ \A i \in 1 .. L - m + 1 : SubSeq(ready, m, L)[i] = ready[m + i - 1]
      BY <3>1, SubSeqProperties
    <3> QED
      BY <3>2, <3>3 DEF m
  <2> HIDE DEF got, rest
  <2>6. List'
    <3>1. /\ ready' \in Seq(Item) /\ Len(ready') = L
          /\ \A i \in 1 .. L : ready'[i] = IF i <= L - n THEN rest[i] ELSE got[i - (L - n)]
      <4>1. /\ rest \o got \in Seq(Item) /\ Len(rest \o got) = Len(rest) + Len(got)
            /\ \A i \in 1 .. Len(rest) + Len(got) :
                 (rest \o got)[i] = IF i <= Len(rest) THEN rest[i] ELSE got[i - Len(rest)]
        BY <2>4, <2>5, ConcatProperties
      <4>2. Len(rest) + Len(got) = L
        BY <2>2, <2>4, <2>5
      <4> QED
        BY <2>1, <2>5, <4>1, <4>2
    <3> DEFINE at(i) == IF i <= L - n THEN n + i ELSE i - (L - n)
    <3>2. ASSUME NEW i \in 1 .. L
          PROVE  ready'[i] = ready[at(i)] /\ at(i) \in 1 .. L
      <4>1. CASE i <= L - n
        BY <2>2, <2>5, <3>1, <4>1
      <4>2. CASE ~(i <= L - n)
        <5>1. i - (L - n) \in 1 .. n /\ i - (L - n) \in 1 .. L
          BY <2>2, <4>2
        <5> QED
          BY <2>4, <3>1, <4>2, <5>1
      <4> QED
        BY <4>1, <4>2
    <3>3. ASSUME NEW i \in 1 .. L, NEW j \in 1 .. L, ready'[i] = ready'[j]
          PROVE  i = j
      <4>1. at(i) = at(j)
        <5> HIDE DEF at
        <5> QED
          BY <1>0, <3>2, <3>3 DEF Distinct
      <4> QED
        BY <2>2, <4>1
    <3> QED
      BY <3>1, <3>3 DEF List, Distinct
  <2>7. ASSUME NEW i \in 1 .. n
        PROVE  e(i) \in Entry /\ e(i).item = ready[i] /\ i \in 1 .. L
               /\ (ready[i] \in Fd => e(i).gen = gen[ready[i]])
    BY <1>0, <2>2, <2>3, <2>4 DEF Entry
  <2>8. batch' \in Seq(Entry) /\ Len(batch') = n /\ \A i \in 1 .. n : batch'[i] = e(i)
    <3> HIDE DEF e
    <3> QED
      BY <2>1, <2>2, <2>7
  <2>9. Batch'
    <3>1. batch' # <<>>
      BY <2>2, <2>8
    <3>2. \A i, j \in 1 .. n : batch'[i].item = batch'[j].item => i = j
      <4> HIDE DEF e
      <4> QED
        BY <1>0, <2>7, <2>8 DEF Distinct
    <3> QED
      BY <2>1, <2>8, <3>1, <3>2 DEF Batch
  <2>10. ASSUME NEW i \in 1 .. Len(batch')
         PROVE  batch'[i].item = ready[i] /\ Ready(ready[i])
                /\ (ready[i] \in Fd => batch'[i].gen = gen[ready[i]])
    <3> HIDE DEF e
    <3> QED
      BY <2>1, <2>7, <2>8
  <2>11. Waiting'
    <3>1. ASSUME NEW l \in Listener, Ready(l) PROVE backlog[l] > 0
      BY <3>1, Items DEF Ready
    <3> QED
      BY <2>1, <2>10, <3>1 DEF Waiting
  <2>12. Live'
    <3>1. ASSUME NEW fd \in Fd, Ready(fd) PROVE ctx[fd] # "none"
      BY <3>1, Items DEF Ready, IInv, Watched
    <3> QED
      BY <2>1, <2>10, <3>1 DEF Live
  <2> QED
    BY <1>0, <2>1, <2>6, <2>9, <2>11, <2>12 DEF LInv, Backlog
<1> QED
  BY <1>1, <1>2

\* Closing a connection: its event is the one being handled.
LEMMA ReleaseKeeps ==
  ASSUME IInv, LInv, batch # <<>>, batch[1].item \in Fd, Release(batch[1].item), NextEvent,
         UNCHANGED <<backlog, tick, gen, n_conn>>
  PROVE  LInv'
<1>1. Batch' /\ Waiting' /\ Live'
  BY NextEventKeeps DEF Release, IInv, CtxType
<1>2. List'
  BY RemoveFirstKeeps DEF Release, LInv, List
<1> QED
  BY <1>1, <1>2 DEF LInv, Backlog

\* The handlers of connections keep it: they touch no context but their own.
LEMMA HandlerKeeps ==
  ASSUME IInv, LInv,
         \/ TimerRead
         \/ \E fd \in Fd : Handle443(fd) \/ Redir80(fd)
         \/ RecvPart \/ RecvEnd \/ RecvNothing
  PROVE  LInv'
<1>0. /\ Batch /\ List /\ Backlog /\ gen \in [Fd -> Nat] /\ tick \in BOOLEAN
  BY DEF LInv
<1>1. CASE TimerRead
  <2>1. /\ batch # <<>> /\ NextEvent
        /\ tick' = FALSE /\ UNCHANGED <<ready, backlog, gen, n_conn, ctx>>
    BY <1>0, <1>1 DEF TimerRead, At, Batch, history, bounds
  <2>2. Batch' /\ Waiting' /\ Live'
    BY <2>1, NextEventKeeps
  <2>3. tick' \in BOOLEAN
    BY <2>1, Zenon
  <2> QED
    BY <1>0, <2>1, <2>2, <2>3 DEF LInv, List, Backlog
<1>2. ASSUME NEW fd \in Fd, Handle443(fd)
      PROVE  LInv'
  <2>1. /\ batch # <<>> /\ batch[1].item = fd /\ NextEvent
        /\ UNCHANGED <<backlog, tick, gen, n_conn>>
    BY <1>0, <1>2 DEF Handle443, At, Batch
  <2>2. CASE Release(fd)
    BY <2>1, <2>2, ReleaseKeeps
  <2>3. CASE UNCHANGED <<ctx, ready>>
    <3>1. Batch' /\ Waiting' /\ Live'
      BY <2>1, <2>3, NextEventKeeps
    <3> QED
      BY <1>0, <2>1, <2>3, <3>1 DEF LInv, List, Backlog
  <2> QED
    BY <1>2, <2>2, <2>3 DEF Handle443
<1>3. ASSUME NEW fd \in Fd, Redir80(fd)
      PROVE  LInv'
  <2>1. /\ pc = "batch" /\ batch[1].item = fd /\ ctx[fd] = "80" /\ pc' = "redir"
        /\ UNCHANGED <<batch, ctx, ready, backlog, tick, gen, n_conn>>
    BY <1>3 DEF Redir80, At, kernel, history, bounds
  <2>2. Batch'
    BY <1>0, <2>1 DEF Batch, Cur
  <2>3. Waiting' /\ Live'
    BY <2>1 DEF LInv, Waiting, Live
  <2> QED
    BY <1>0, <2>1, <2>2, <2>3 DEF LInv, List, Backlog
<1>4. CASE RecvPart
  <2>1. UNCHANGED <<pc, batch, ctx, ready, backlog, tick, gen, n_conn>>
    BY <1>4 DEF RecvPart, history, bounds
  <2>2. Batch' /\ Waiting' /\ Live'
    BY <2>1, SameBatchKeeps
  <2> QED
    BY <1>0, <2>1, <2>2 DEF LInv, List, Backlog
<1>5. CASE RecvEnd \/ RecvNothing
  <2>1. /\ pc = "redir" /\ Release(Cur) /\ NextEvent
        /\ UNCHANGED <<backlog, tick, gen, n_conn>>
    BY <1>5 DEF RecvEnd, RecvNothing, Finish
  <2>2. batch # <<>> /\ Cur = batch[1].item /\ Cur \in Fd
    BY <1>0, <2>1 DEF Batch, Cur
  <2> QED
    BY <2>1, <2>2, ReleaseKeeps
<1> QED
  BY <1>1, <1>2, <1>3, <1>4, <1>5

\* What clients and the clock do keeps it.
LEMMA ClientStep ==
  ASSUME LInv,
         \/ \E l \in Listener : Connect(l)
         \/ \E fd \in Fd, s \in Segment : Send(fd, s)
         \/ \E fd \in Fd : Drain(fd)
         \/ Expire
  PROVE  LInv'
<1>0. /\ List /\ Backlog /\ gen \in [Fd -> Nat] /\ tick \in BOOLEAN
  BY DEF LInv
<1>1. ASSUME NEW l \in Listener, Connect(l)
      PROVE  LInv'
  <2>1. /\ n_conn < MaxConn /\ n_conn' = n_conn + 1
        /\ backlog' = [backlog EXCEPT ![l] = @ + 1] /\ ready' = Notified(l)
        /\ UNCHANGED <<pc, batch, ctx, tick, gen>>
    BY <1>1 DEF Connect, history
  <2>2. List'
    BY <1>0, <2>1, NotifiedKeeps, Items
  <2>3. backlog \in [Listener -> Nat] /\ n_conn \in Nat
    BY <1>0 DEF Backlog
  <2>4. Batch' /\ Waiting' /\ Live'
    BY <2>1, <2>3, SameBatchKeeps
  <2>5. Backlog'
    <3>1. /\ Listener = {server_http_fd, server_https_fd}
          /\ server_http_fd # server_https_fd
      BY DEF Listener, server_http_fd, server_https_fd
    <3>2. /\ backlog' \in [Listener -> Nat]
          /\ backlog'[server_http_fd] + backlog'[server_https_fd]
               = backlog[server_http_fd] + backlog[server_https_fd] + 1
      BY <2>1, <2>3, <3>1
    <3> QED
      BY <1>0, <2>1, <2>3, <3>1, <3>2, ConstantsType DEF Backlog
  <2> QED
    BY <1>0, <2>1, <2>2, <2>4, <2>5 DEF LInv
<1>2. ASSUME NEW fd \in Fd, NEW s \in Segment, Send(fd, s)
      PROVE  LInv'
  <2>1. /\ ready' = Notified(fd)
        /\ UNCHANGED <<pc, batch, ctx, backlog, tick, gen, n_conn>>
    BY <1>2 DEF Send
  <2>2. List'
    BY <1>0, <2>1, NotifiedKeeps, Items
  <2>3. Batch' /\ Waiting' /\ Live'
    BY <2>1, SameBatchKeeps
  <2> QED
    BY <1>0, <2>1, <2>2, <2>3 DEF LInv, Backlog
<1>3. ASSUME NEW fd \in Fd, Drain(fd)
      PROVE  LInv'
  <2>1. /\ ready' = Notified(fd)
        /\ UNCHANGED <<pc, batch, ctx, backlog, tick, gen, n_conn>>
    BY <1>3 DEF Drain, history
  <2>2. List'
    BY <1>0, <2>1, NotifiedKeeps, Items
  <2>3. Batch' /\ Waiting' /\ Live'
    BY <2>1, SameBatchKeeps
  <2> QED
    BY <1>0, <2>1, <2>2, <2>3 DEF LInv, Backlog
<1>4. CASE Expire
  <2>1. /\ ready' = Notified(timer_fd) /\ tick' = TRUE
        /\ UNCHANGED <<pc, batch, ctx, backlog, gen, n_conn>>
    BY <1>4 DEF Expire, history, bounds
  <2>2. List'
    BY <1>0, <2>1, NotifiedKeeps, Items
  <2>3. Batch' /\ Waiting' /\ Live'
    BY <2>1, SameBatchKeeps
  <2>4. tick' \in BOOLEAN
    BY <2>1, Zenon
  <2> QED
    BY <1>0, <2>1, <2>2, <2>3, <2>4 DEF LInv, Backlog
<1> QED
  BY <1>1, <1>2, <1>3, <1>4

------------------------------------------------------------------------------
\* Port 80: the end of a stream comes last, and where a whole request came first
\* nothing but whole requests follows; what the redirect has kept of earlier
\* receives was the part of a request.
Streams ==
  /\ inq \in [Fd -> Seq(Segment)]
  /\ out \in [Fd -> {"no", "full", "room"}]
  /\ first \in [Fd -> Segment \cup {"none"}]
  /\ \A fd \in Fd :
       /\ first[fd] = "none" => inq[fd] = <<>>
       /\ \A i \in 1 .. Len(inq[fd]) - 1 : inq[fd][i] # "fin"
       /\ first[fd] = "whole" => \A i \in 1 .. Len(inq[fd]) : inq[fd][i] \in {"whole", "fin"}

\* A descriptor without a connection has no past; a whole request that came first on
\* port 80 stays at the head until its connection is closed.
Heads ==
  \A fd \in Fd :
    /\ ctx[fd] = "none" => first[fd] = "none"
    /\ ctx[fd] = "80" /\ first[fd] = "whole" => Len(inq[fd]) >= 1 /\ inq[fd][1] = "whole"

\* What the redirect has kept of earlier receives.
Received ==
  /\ recv_buf \in {"none", "whole", "part", "rest", "mixed"}
  /\ pc = "redir" /\ recv_buf # "none" => first[Cur] \notin {"none", "whole"}
  /\ misread = {}

RInv == Streams /\ Heads /\ Received

\* What a recv() returns was sent on this connection, or joins a part and its rest.
LEMMA TakenIs ==
  ASSUME Streams, NEW fd \in Fd, Taken(inq[fd]) # "none"
  PROVE  /\ Taken(inq[fd]) \in {"whole", "part", "rest"}
         /\ first[fd] # "none"
         /\ Taken(inq[fd]) # "whole" => first[fd] # "whole"
<1> DEFINE q == inq[fd]
           data == IF Contains(q, "fin") THEN Front(q) ELSE q
<1>1. /\ q \in Seq(Segment) /\ Len(q) \in Nat
      /\ \A i \in 1 .. Len(q) - 1 : q[i] # "fin"
      /\ first[fd] = "none" => q = <<>>
      /\ first[fd] = "whole" => \A i \in 1 .. Len(q) : q[i] \in {"whole", "fin"}
  BY DEF Streams
<1>2. Taken(q) = IF data = <<>> THEN "none"
                 ELSE IF Len(data) > 1 /\ data[1] # "whole" THEN "whole" ELSE data[1]
  BY DEF Taken
<1> HIDE DEF q
<1>3. data # <<>>
  BY <1>2 DEF q
<1>4. /\ data \in Seq(Segment) /\ Len(data) <= Len(q)
      /\ \A i \in 1 .. Len(data) : data[i] = q[i] /\ q[i] # "fin"
  <2>1. CASE ~Contains(q, "fin")
    BY <1>1, <2>1 DEF Contains
  <2>2. CASE Contains(q, "fin")
    <3>1. Len(q) >= 1 /\ \A i \in 1 .. Len(q) - 1 : q[i] \in Segment
      BY <1>1, <2>2 DEF Contains
    <3>2. /\ SubSeq(q, 1, Len(q) - 1) \in Seq(Segment)
          /\ Len(SubSeq(q, 1, Len(q) - 1)) = Len(q) - 1
          /\ \A i \in 1 .. Len(q) - 1 : SubSeq(q, 1, Len(q) - 1)[i] = q[i]
      <4> DEFINE m == Len(q) - 1
      <4>0. m \in Nat /\ \A i \in 1 .. m : q[i] \in Segment
        BY <1>1, <3>1
      <4> HIDE DEF m
      <4>1. /\ \A i \in 1 .. m : 1 + i - 1 = i
            /\ m - 1 + 1 = m /\ (IF 1 <= m THEN m - 1 + 1 ELSE 0) = m
        BY <4>0
      <4>2. /\ SubSeq(q, 1, m) \in Seq(Segment) /\ Len(SubSeq(q, 1, m)) = m
            /\ \A i \in 1 .. m : SubSeq(q, 1, m)[i] = q[i]
        BY <4>0, <4>1, SubSeqProperties
      <4> QED
        BY <4>2 DEF m
    <3> QED
      BY <1>1, <2>2, <3>1, <3>2 DEF Front
  <2> QED
    BY <2>1, <2>2
<1> HIDE DEF data
<1>5. 1 \in 1 .. Len(data) /\ 1 \in 1 .. Len(q) /\ q # <<>>
  BY <1>1, <1>3, <1>4
<1>6. data[1] \in Segment \ {"fin"} /\ data[1] = q[1]
  BY <1>4, <1>5
<1> QED
  BY <1>1, <1>2, <1>3, <1>5, <1>6 DEF q, Segment

\* A whole request at the head is what a recv() returns.
LEMMA WholeTaken ==
  ASSUME Streams, Heads, NEW fd \in Fd, ctx[fd] = "80", first[fd] = "whole"
  PROVE  Taken(inq[fd]) = "whole"
<1> DEFINE q == inq[fd]
           data == IF Contains(q, "fin") THEN Front(q) ELSE q
<1>1. /\ q \in Seq(Segment) /\ Len(q) \in Nat
      /\ Len(q) >= 1 /\ q[1] = "whole"
  BY DEF Streams, Heads
<1>2. Taken(q) = IF data = <<>> THEN "none"
                 ELSE IF Len(data) > 1 /\ data[1] # "whole" THEN "whole" ELSE data[1]
  BY DEF Taken
<1> HIDE DEF q
<1>3. data # <<>> /\ data[1] = "whole"
  <2>1. CASE ~Contains(q, "fin")
    BY <1>1, <2>1
  <2>2. CASE Contains(q, "fin")
    <3>1. Len(q) - 1 >= 1
      BY <1>1, <2>2 DEF Contains
    <3> DEFINE m == Len(q) - 1
    <3>2. m \in Nat /\ 1 <= m /\ \A i \in 1 .. m : q[i] \in Segment
      BY <1>1, <3>1
    <3>3. data = SubSeq(q, 1, m)
      BY <2>2 DEF Front
    <3> HIDE DEF m, data
    <3>4. /\ 1 \in 1 .. m - 1 + 1 /\ 1 + 1 - 1 = 1
          /\ (IF 1 <= m THEN m - 1 + 1 ELSE 0) = m
      BY <3>2
    <3>5. /\ SubSeq(q, 1, m) \in Seq(Segment) /\ Len(SubSeq(q, 1, m)) = m
          /\ SubSeq(q, 1, m)[1] = q[1]
      BY <3>2, <3>4, SubSeqProperties
    <3> QED
      BY <1>1, <3>2, <3>3, <3>5
  <2> QED
    BY <2>1, <2>2
<1> HIDE DEF data
<1> QED
  BY <1>2, <1>3 DEF q

\* The end of a redirect.
LEMMA FinishKeeps ==
  ASSUME LInv, RInv, pc = "redir", NEW buf, Finish(buf),
         first[Cur] = "whole" => buf = "whole", CtxType
  PROVE  RInv'
<1>1. Cur \in Fd
  BY DEF LInv, Batch
<1>2. /\ inq' = [inq EXCEPT ![Cur] = <<>>]
      /\ out' = [out EXCEPT ![Cur] = "no"]
      /\ ctx' = [ctx EXCEPT ![Cur] = "none"]
      /\ first' = [first EXCEPT ![Cur] = "none"]
      /\ recv_buf' = "none"
  BY DEF Finish, Release
<1>3. Streams'
  <2>1. inq' \in [Fd -> Seq(Segment)] /\ first' \in [Fd -> Segment \cup {"none"}]
    BY <1>1, <1>2 DEF RInv, Streams
  <2>2. out' \in [Fd -> {"no", "full", "room"}]
    BY <1>1, <1>2 DEF RInv, Streams
  <2>3. ASSUME NEW fd \in Fd
        PROVE  \/ inq'[fd] = inq[fd] /\ first'[fd] = first[fd]
               \/ inq'[fd] = <<>> /\ first'[fd] = "none"
    BY <1>1, <1>2 DEF RInv, Streams
  <2> QED
    BY <2>1, <2>2, <2>3 DEF RInv, Streams
<1>4. Heads'
  BY <1>1, <1>2 DEF RInv, Streams, Heads, CtxType
<1>5. misread' = {}
  BY DEF Finish, RInv, Received
<1> QED
  BY <1>2, <1>3, <1>4, <1>5 DEF RInv, Received

\* One recv() of the redirect and what it does with the result.
LEMMA RecvKeeps ==
  ASSUME IInv, LInv, RInv, RecvPart \/ RecvEnd \/ RecvNothing
  PROVE  RInv'
<1> DEFINE taken == Taken(inq[Cur])
<1>1. pc = "redir" /\ Cur \in Fd /\ ctx[Cur] = "80"
  BY DEF RecvPart, RecvEnd, RecvNothing, LInv, Batch
<1>2. first[Cur] \in Segment \cup {"none"} /\ inq[Cur] \in Seq(Segment)
  BY <1>1 DEF RInv, Streams
<1>3. taken # "none" => /\ taken \in {"whole", "part", "rest"}
                        /\ first[Cur] # "none"
                        /\ taken # "whole" => first[Cur] # "whole"
  BY <1>1, TakenIs DEF RInv
<1>4. recv_buf # "none" => first[Cur] \in Segment \ {"whole"}
  BY <1>1, <1>2 DEF RInv, Received
<1>5. first[Cur] = "whole" => taken = "whole"
  BY <1>1, WholeTaken DEF RInv
<1> HIDE DEF taken
<1>6. CASE RecvPart
  <2> DEFINE left == IF Contains(inq[Cur], "fin") THEN <<"fin">> ELSE <<>>
  <2>1. /\ taken # "none" /\ ~Complete(taken) /\ recv_buf' = Stored(taken)
        /\ inq' = [inq EXCEPT ![Cur] = left]
        /\ UNCHANGED <<pc, batch, ctx, out, first, misread>>
    BY <1>6 DEF RecvPart, taken, history
  <2>2. taken = "part" /\ first[Cur] \notin {"none", "whole"}
    BY <1>3, <2>1 DEF Complete
  <2>3. /\ left \in Seq(Segment) /\ Len(left) \in {0, 1}
        /\ \A i \in 1 .. Len(left) : left[i] \in {"whole", "fin"}
    <3>1. left = <<>> \/ left = <<"fin">>
      OBVIOUS
    <3> HIDE DEF left
    <3>2. CASE left = <<>>
      BY <3>2
    <3>3. CASE left = <<"fin">>
      <4>1. "fin" \in Segment
        BY DEF Segment
      <4> QED
        BY <3>3, <4>1
    <3> QED
      BY <3>1, <3>2, <3>3
  <2> HIDE DEF left
  <2>4. Streams'
    <3>1. /\ inq' \in [Fd -> Seq(Segment)] /\ first' \in [Fd -> Segment \cup {"none"}]
          /\ out' \in [Fd -> {"no", "full", "room"}]
      BY <1>1, <2>1, <2>3 DEF RInv, Streams
    <3>2. ASSUME NEW fd \in Fd
          PROVE  /\ fd # Cur => inq'[fd] = inq[fd]
                 /\ fd = Cur => inq'[fd] = left /\ first'[fd] # "none"
      BY <1>1, <2>1, <2>2 DEF RInv, Streams
    <3>3. ASSUME NEW fd \in Fd
          PROVE  /\ first'[fd] = "none" => inq'[fd] = <<>>
                 /\ \A i \in 1 .. Len(inq'[fd]) - 1 : inq'[fd][i] # "fin"
                 /\ first'[fd] = "whole" =>
                      \A i \in 1 .. Len(inq'[fd]) : inq'[fd][i] \in {"whole", "fin"}
      <4>1. CASE fd = Cur
        BY <2>3, <3>2, <4>1
      <4>2. CASE fd # Cur
        BY <2>1, <3>2, <4>2 DEF RInv, Streams
      <4> QED
        BY <4>1, <4>2
    <3> QED
      BY <3>1, <3>3 DEF Streams
  <2>5. Received'
    <3>1. recv_buf' \in {"part", "mixed"} /\ Cur' = Cur
      BY <2>1, <2>2 DEF Stored, Cur
    <3> QED
      BY <2>1, <2>2, <3>1 DEF RInv, Received
  <2>6. Heads'
    <3>1. \A fd \in Fd : fd # Cur => inq'[fd] = inq[fd]
      BY <1>1, <2>1 DEF RInv, Streams
    <3> QED
      BY <1>1, <2>1, <2>2, <3>1 DEF RInv, Heads
  <2> QED
    BY <2>4, <2>5, <2>6 DEF RInv
<1>7. CASE RecvEnd
  <2>1. taken # "none" /\ Finish(Stored(taken))
    BY <1>7 DEF RecvEnd, taken
  <2>2. first[Cur] = "whole" => Stored(taken) = "whole"
    BY <1>4, <1>5 DEF Stored
  <2> QED
    BY <1>1, <2>1, <2>2, FinishKeeps DEF IInv
<1>8. CASE RecvNothing
  <2>1. Finish(recv_buf) /\ taken = "none"
    BY <1>8 DEF RecvNothing, taken
  <2> QED
    BY <1>1, <1>5, <2>1, FinishKeeps DEF IInv
<1> QED
  BY <1>6, <1>7, <1>8

\* A client goes on with what it began.
LEMMA SendKeeps ==
  ASSUME RInv, NEW fd \in Fd, NEW s \in Segment, Send(fd, s)
  PROVE  RInv'
<1>1. /\ MaySend(fd, s) /\ inq' = [inq EXCEPT ![fd] = Append(@, s)]
      /\ first' = [first EXCEPT ![fd] = IF @ = "none" THEN s ELSE @]
      /\ ctx[fd] # "none"
      /\ UNCHANGED <<pc, batch, recv_buf, ctx, out, misread>>
  BY DEF Send
<1> DEFINE q == inq[fd]
           f == IF first[fd] = "none" THEN s ELSE first[fd]
<1>2. /\ q \in Seq(Segment) /\ Len(q) \in Nat /\ first[fd] \in Segment \cup {"none"}
      /\ first[fd] = "none" => q = <<>>
      /\ first[fd] = "whole" => \A i \in 1 .. Len(q) : q[i] \in {"whole", "fin"}
  BY DEF RInv, Streams
<1>3. \A i \in 1 .. Len(q) : q[i] # "fin"
  BY <1>1 DEF MaySend, Contains
<1>4. f # "none" /\ f \in Segment /\ (f = "whole" => s \in {"whole", "fin"})
  BY <1>1, <1>2 DEF MaySend, Segment
<1>5. /\ Append(q, s) \in Seq(Segment) /\ Len(Append(q, s)) = Len(q) + 1
      /\ \A i \in 1 .. Len(q) : Append(q, s)[i] = q[i]
      /\ Append(q, s)[Len(q) + 1] = s
  BY <1>2, AppendProperties
<1>6. /\ inq'[fd] = Append(q, s) /\ first'[fd] = f
      /\ inq' \in [Fd -> Seq(Segment)] /\ first' \in [Fd -> Segment \cup {"none"}]
      /\ \A g \in Fd : g # fd => inq'[g] = inq[g] /\ first'[g] = first[g]
  BY <1>1, <1>4, <1>5 DEF RInv, Streams
<1> HIDE DEF q
<1>7. /\ first'[fd] # "none"
      /\ \A i \in 1 .. Len(inq'[fd]) - 1 : inq'[fd][i] # "fin"
      /\ first'[fd] = "whole" => \A i \in 1 .. Len(inq'[fd]) : inq'[fd][i] \in {"whole", "fin"}
  <2>1. \A i \in 1 .. Len(q) + 1 : i \in 1 .. Len(q) \/ i = Len(q) + 1
    BY <1>2
  <2>2. (Len(q) + 1) - 1 = Len(q)
    BY <1>2
  <2>3. first'[fd] = "whole" => \A i \in 1 .. Len(q) : q[i] \in {"whole", "fin"}
    BY <1>2, <1>6
  <2> HIDE DEF f
  <2> QED
    BY <1>3, <1>4, <1>5, <1>6, <2>1, <2>2, <2>3
<1>8. Streams'
  <2> HIDE DEF f
  <2>1. ASSUME NEW g \in Fd
        PROVE  /\ first'[g] = "none" => inq'[g] = <<>>
               /\ \A i \in 1 .. Len(inq'[g]) - 1 : inq'[g][i] # "fin"
               /\ first'[g] = "whole" =>
                    \A i \in 1 .. Len(inq'[g]) : inq'[g][i] \in {"whole", "fin"}
    <3>1. CASE g = fd
      BY <1>7, <3>1
    <3>2. CASE g # fd
      BY <1>6, <3>2 DEF RInv, Streams
    <3> QED
      BY <3>1, <3>2
  <2> QED
    BY <1>1, <1>6, <2>1 DEF RInv, Streams
<1>9. Heads'
  <2> HIDE DEF f
  <2>1. ASSUME f = "whole", ctx[fd] = "80"
        PROVE  Len(Append(q, s)) >= 1 /\ Append(q, s)[1] = "whole"
    <3>1. CASE first[fd] = "none"
      <4>1. Len(q) = 0 /\ s = "whole"
        BY <1>2, <2>1, <3>1 DEF f
      <4> QED
        BY <1>5, <4>1
    <3>2. CASE first[fd] # "none"
      <4>1. Len(q) >= 1 /\ q[1] = "whole"
        BY <2>1, <3>2 DEF f, q, RInv, Heads
      <4> QED
        BY <1>2, <1>5, <4>1
    <3> QED
      BY <3>1, <3>2
  <2> QED
    BY <1>1, <1>6, <2>1 DEF RInv, Heads
<1>10. Received'
  <2>1. Cur' = Cur
    BY <1>1 DEF Cur
  <2>2. first[Cur] \notin {"none", "whole"} => first'[Cur] \notin {"none", "whole"}
    BY <1>1 DEF RInv, Streams
  <2> QED
    BY <1>1, <2>1, <2>2 DEF RInv, Received
<1> QED
  BY <1>8, <1>9, <1>10 DEF RInv

\* What is left of a queue when some of it was read.
LEMMA SuffixIs ==
  ASSUME NEW S, NEW q \in Seq(S), NEW rest \in Suffixes(q)
  PROVE  /\ rest \in Seq(S) /\ Len(rest) <= Len(q)
         /\ \A i \in 1 .. Len(rest) : rest[i] = q[Len(q) - Len(rest) + i]
<1>1. CASE rest = <<>>
  BY <1>1
<1>2. CASE rest # <<>>
  <2> DEFINE L == Len(q)
  <2>1. PICK l \in 1 .. L : rest = SubSeq(q, l, L)
    BY <1>2 DEF Suffixes
  <2>2. L \in Nat /\ \A i \in l .. L : q[i] \in S
    BY <2>1
  <2> HIDE DEF L
  <2>3. (IF l <= L THEN L - l + 1 ELSE 0) = L - l + 1
    BY <2>1, <2>2
  <2>4. /\ rest \in Seq(S) /\ Len(rest) = L - l + 1
        /\ \A i \in 1 .. L - l + 1 : rest[i] = q[l + i - 1]
    BY <2>1, <2>2, <2>3, SubSeqProperties
  <2>5. \A i \in 1 .. L - l + 1 : L - (L - l + 1) + i = l + i - 1
    BY <2>1, <2>2
  <2> QED
    BY <2>1, <2>2, <2>4, <2>5 DEF L
<1> QED
  BY <1>1, <1>2

\* The rest of the loop forgets what was received on a connection, or leaves it, or
\* reads some of it on port 443.
LEMMA LoopKeeps ==
  ASSUME IInv, LInv, RInv,
         \/ EpollDrop \/ EpollWait \/ TimerRead
         \/ \E l \in Listener :
              Accept(l) \/ AcceptFull(l) \/ AcceptFails(l) \/ AddFails(l) \/ AllocFails(l)
         \/ \E fd \in Fd : Handle443(fd) \/ Redir80(fd)
  PROVE  RInv'
<1>1. CASE \E fd \in Fd : Handle443(fd)
  <2>1. PICK fd \in Fd : Handle443(fd)
    BY <1>1
  <2>2. PICK rest \in Suffixes(inq[fd]), o \in {"no", "full"} :
          /\ inq' = [inq EXCEPT ![fd] = rest]
          /\ out' = [out EXCEPT ![fd] = o]
          /\ \/ UNCHANGED <<first, ctx>>
             \/ /\ first' = [first EXCEPT ![fd] = "none"]
                /\ ctx' = [ctx EXCEPT ![fd] = "none"]
                /\ rest = <<>>
    <3>1. <<>> \in Suffixes(inq[fd])
      BY DEF Suffixes
    <3> QED
      BY <2>1, <3>1 DEF Handle443, Release
  <2>3. /\ ctx[fd] = "443" /\ UNCHANGED <<recv_buf, misread>> /\ pc' # "redir"
    BY <2>1 DEF Handle443, NextEvent
  <2>4. /\ inq \in [Fd -> Seq(Segment)] /\ first \in [Fd -> Segment \cup {"none"}]
        /\ out \in [Fd -> {"no", "full", "room"}] /\ ctx \in [Fd -> {"none", "80", "443"}]
    BY DEF RInv, Streams, IInv, CtxType
  <2> DEFINE q == inq[fd]
  <2>5. q \in Seq(Segment) /\ Len(q) \in Nat
    BY <2>4
  <2>6. /\ rest \in Seq(Segment) /\ Len(rest) \in Nat /\ Len(rest) <= Len(q)
        /\ \A i \in 1 .. Len(rest) : rest[i] = q[Len(q) - Len(rest) + i]
    <3> HIDE DEF q
    <3>1. rest \in Suffixes(q)
      BY DEF q
    <3> QED
      BY <2>5, <3>1, SuffixIs
  <2>7. /\ inq' \in [Fd -> Seq(Segment)] /\ out' \in [Fd -> {"no", "full", "room"}]
        /\ first' \in [Fd -> Segment \cup {"none"}]
    BY <2>2, <2>4, <2>6
  <2>8. /\ inq'[fd] = rest
        /\ \A g \in Fd : g # fd => /\ inq'[g] = inq[g] /\ first'[g] = first[g]
                                   /\ ctx'[g] = ctx[g]
    BY <2>2, <2>4
  <2>9. /\ first'[fd] = "none" => rest = <<>>
        /\ \A i \in 1 .. Len(rest) - 1 : rest[i] # "fin"
        /\ first'[fd] = "whole" => \A i \in 1 .. Len(rest) : rest[i] \in {"whole", "fin"}
    <3>1. /\ first[fd] = "none" => q = <<>>
          /\ \A i \in 1 .. Len(q) - 1 : q[i] # "fin"
          /\ first[fd] = "whole" => \A i \in 1 .. Len(q) : q[i] \in {"whole", "fin"}
      BY DEF RInv, Streams
    <3>2. first'[fd] \in {first[fd], "none"} /\ (first'[fd] # first[fd] => rest = <<>>)
      BY <2>2, <2>4
    <3> HIDE DEF q
    <3>3. \A i \in 1 .. Len(rest) : Len(q) - Len(rest) + i \in 1 .. Len(q)
      BY <2>5, <2>6
    <3>4. \A i \in 1 .. Len(rest) - 1 : /\ Len(q) - Len(rest) + i \in 1 .. Len(q) - 1
                                        /\ i \in 1 .. Len(rest)
      BY <2>5, <2>6
    <3>5. q = <<>> => rest = <<>>
      BY <2>5, <2>6
    <3> QED
      BY <2>6, <3>1, <3>2, <3>3, <3>4, <3>5
  <2>10. Streams'
    <3> HIDE DEF q
    <3>1. ASSUME NEW g \in Fd
          PROVE  /\ first'[g] = "none" => inq'[g] = <<>>
                 /\ \A i \in 1 .. Len(inq'[g]) - 1 : inq'[g][i] # "fin"
                 /\ first'[g] = "whole" =>
                      \A i \in 1 .. Len(inq'[g]) : inq'[g][i] \in {"whole", "fin"}
      <4>1. CASE g = fd
        BY <2>8, <2>9, <4>1
      <4>2. CASE g # fd
        BY <2>8, <4>2 DEF RInv, Streams
      <4> QED
        BY <4>1, <4>2
    <3> QED
      BY <2>7, <3>1 DEF Streams
  <2>11. Heads'
    <3>1. ctx'[fd] # "80" /\ (ctx'[fd] = "none" => first'[fd] = "none")
      BY <2>2, <2>3, <2>4
    <3> HIDE DEF q
    <3> QED
      BY <2>8, <3>1 DEF RInv, Heads
  <2> QED
    BY <2>3, <2>10, <2>11 DEF RInv, Received
<1>2. CASE \/ EpollDrop \/ EpollWait \/ TimerRead
           \/ \E l \in Listener :
                Accept(l) \/ AcceptFull(l) \/ AcceptFails(l) \/ AddFails(l) \/ AllocFails(l)
           \/ \E fd \in Fd : Redir80(fd)
  <2>1. UNCHANGED <<inq, out, first, misread>>
    BY <1>2
       DEF EpollDrop, EpollWait, TimerRead, Accept, AcceptFull, AcceptFails, AddFails,
         AllocFails, Redir80, kernel, history
  <2>2. recv_buf' = "none" \/ (recv_buf' = recv_buf /\ pc' # "redir")
    BY <1>2
       DEF EpollDrop, EpollWait, TimerRead, Accept, AcceptFull, AcceptFails, AddFails,
         AllocFails, Redir80, NextEvent, DropBatch
  <2>3. ASSUME NEW g \in Fd
        PROVE  \/ ctx'[g] = ctx[g]
               \/ first[g] = "none" /\ ctx'[g] # "none"
    <3>1. CASE \E l \in Listener : Accept(l)
      <4>1. PICK l \in Listener, fd \in Lowest : ctx' = [ctx EXCEPT ![fd] = Kind(l)]
        BY <3>1 DEF Accept
      <4>2. fd \in Fd /\ ctx[fd] = "none" /\ Kind(l) # "none"
        BY DEF Lowest, IInv, Watched, Kind
      <4>3. first[fd] = "none"
        BY <4>2 DEF RInv, Heads
      <4> QED
        BY <4>1, <4>2, <4>3 DEF IInv, CtxType
    <3>2. CASE ~\E l \in Listener : Accept(l)
      <4>1. ctx' = ctx
        BY <1>2, <3>2
           DEF EpollDrop, EpollWait, TimerRead, AcceptFull, AcceptFails, AddFails,
             AllocFails, Redir80
      <4> QED
        BY <4>1
    <3> QED
      BY <3>1, <3>2
  <2>4. Heads'
    BY <2>1, <2>3 DEF RInv, Heads
  <2> QED
    BY <2>1, <2>2, <2>4 DEF RInv, Streams, Received
<1> QED
  BY <1>1, <1>2

\* Clients only add to what was sent; the clock and new connections leave it alone.
LEMMA ClientKeeps ==
  ASSUME RInv,
         \/ \E l \in Listener : Connect(l)
         \/ \E fd \in Fd, s \in Segment : Send(fd, s)
         \/ \E fd \in Fd : Drain(fd)
         \/ Expire
         \/ UNCHANGED vars
  PROVE  RInv'
<1>1. CASE \E fd \in Fd, s \in Segment : Send(fd, s)
  BY <1>1, SendKeeps
<1>2. CASE (\E l \in Listener : Connect(l)) \/ Expire \/ UNCHANGED vars
  <2>1. UNCHANGED <<pc, batch, ctx, inq, out, first, misread, recv_buf>>
    BY <1>2 DEF Connect, Expire, vars, kernel, history
  <2> QED
    BY <2>1 DEF RInv, Streams, Heads, Received, Cur
<1>3. ASSUME NEW fd \in Fd, Drain(fd)
      PROVE  RInv'
  <2>1. /\ out' = [out EXCEPT ![fd] = "room"]
        /\ UNCHANGED <<pc, batch, ctx, inq, first, misread, recv_buf>>
    BY <1>3 DEF Drain, history
  <2>2. out' \in [Fd -> {"no", "full", "room"}]
    BY <2>1 DEF RInv, Streams
  <2> QED
    BY <2>1, <2>2 DEF RInv, Streams, Heads, Received, Cur
<1> QED
  BY <1>1, <1>2, <1>3

------------------------------------------------------------------------------
\* The loop starts with nothing under way.
LEMMA InitLoop == Init => LInv /\ RInv
<1> SUFFICES ASSUME Init
             PROVE  LInv /\ RInv
  OBVIOUS
<1>1. /\ <<>> \in Seq(Entry) /\ <<>> \in Seq(Item) /\ <<>> \in Seq(Segment)
      /\ Len(<<>>) = 0
  BY EmptySeq
<1>2. Batch /\ Waiting /\ Live /\ List
  BY <1>1 DEF Init, Batch, Waiting, Live, List, Distinct
<1>3. Backlog
  BY ConstantsType DEF Init, Backlog, Listener
<1>4. gen \in [Fd -> Nat]
  BY DEF Init
<1>5. tick \in BOOLEAN
  BY Zenon DEF Init
<1>6. RInv
  BY <1>1 DEF Init, RInv, Streams, Heads, Received
<1> QED
  BY <1>2, <1>3, <1>4, <1>5, <1>6 DEF LInv

\* Every step keeps the invariant of the loop and of the redirect.
LEMMA NextLoop ==
  ASSUME IInv, LInv, RInv, [Next]_vars
  PROVE  LInv' /\ RInv'
<1>1. CASE Worker
  <2>1. LInv'
    BY <1>1, EpollStep, ListenerStep, HandlerKeeps DEF Worker
  <2>2. RInv'
    BY <1>1, LoopKeeps, RecvKeeps DEF Worker
  <2> QED
    BY <2>1, <2>2
<1>2. CASE \/ \E l \in Listener : Connect(l)
           \/ \E fd \in Fd, s \in Segment : Send(fd, s)
           \/ \E fd \in Fd : Drain(fd)
           \/ Expire
  BY <1>2, ClientStep, ClientKeeps
<1>3. CASE UNCHANGED vars
  <2>1. UNCHANGED <<pc, batch, ctx, gen, backlog, ready, tick, n_conn>>
    BY <1>3 DEF vars, kernel, history, bounds
  <2>2. Batch' /\ Waiting' /\ Live'
    BY <2>1, SameBatchKeeps
  <2>3. LInv'
    BY <2>1, <2>2 DEF LInv, List, Distinct, Backlog
  <2> QED
    BY <1>3, <2>3, ClientKeeps
<1> QED
  BY <1>1, <1>2, <1>3 DEF Next

\* All three parts hold in every reachable state.
LEMMA InvHolds == Spec => [](IInv /\ LInv /\ RInv)
<1>1. IInv /\ LInv /\ RInv /\ [Next]_vars => (IInv /\ LInv /\ RInv)'
  BY NextIInv, NextLoop
<1> QED
  BY InitIInv, InitLoop, <1>1, PTL DEF Spec

\* The event loop's state stays well formed on every path: no batch is worked on
\* that is empty, epoll's list names nothing twice, and no backlog is taken from
\* that has nothing in it.
THEOREM TypeOKHolds == Spec => []TypeOK
<1>1. IInv /\ LInv /\ RInv => TypeOK
  <2> SUFFICES ASSUME IInv, LInv, RInv
               PROVE  TypeOK
    OBVIOUS
  <2>1. /\ pc \in {"wait", "batch", "redir", "exit"}
        /\ pc = "batch" <=> batch # <<>> /\ pc # "redir"
    BY DEF LInv, Batch
  <2>2. \A i \in DOMAIN batch : batch[i].item \in Item
    <3>1. batch \in Seq(Entry)
      BY DEF LInv, Batch
    <3>2. \A i \in DOMAIN batch : batch[i] \in Entry
      BY <3>1
    <3> QED
      BY <3>2 DEF Entry
  <2>3. \A i, j \in DOMAIN ready : ready[i] = ready[j] => i = j
    BY DEF LInv, List, Distinct
  <2>4. backlog \in [Listener -> 0 .. MaxConn]
    <3>1. \A l \in Listener : backlog[l] \in 0 .. MaxConn
      <4>1. Listener = {server_http_fd, server_https_fd}
        BY DEF Listener
      <4>2. /\ backlog \in [Listener -> Nat] /\ n_conn \in Nat
            /\ backlog[server_http_fd] + backlog[server_https_fd] <= n_conn
            /\ n_conn <= MaxConn
        BY DEF LInv, Backlog
      <4> QED
        BY <4>1, <4>2, ConstantsType
    <3> QED
      BY <3>1 DEF LInv, Backlog
  <2>5. /\ {recv_buf} \cup misread \subseteq {"none", "whole", "part", "rest", "mixed"}
        /\ out \in [Fd -> {"no", "full", "room"}]
    BY DEF RInv, Received, Streams
  <2>6. /\ ctx \in [Fd -> {"none", "80", "443"}]
        /\ open \subseteq Fd /\ registered \subseteq Fd
    BY DEF IInv, CtxType, Watched
  <2>7. tick \in BOOLEAN
    BY DEF LInv
  <2> QED
    BY <2>1, <2>2, <2>3, <2>4, <2>5, <2>6, <2>7 DEF TypeOK
<1> QED
  BY InvHolds, <1>1, PTL

\* However a batch mixes closings and new connections on reused descriptors, the
\* event fws_child_run comes to next always points to the live context it was
\* registered with: for any number of descriptors and any batch size.
THEOREM NoStaleHolds == Spec => []NoStale
<1>1. LInv => NoStale
  <2> SUFFICES ASSUME LInv
               PROVE  NoStale
    OBVIOUS
  <2>1. DOMAIN batch = 1 .. Len(batch)
    BY DEF LInv, Batch
  <2> QED
    BY <2>1 DEF LInv, Live, NoStale
<1> QED
  BY InvHolds, <1>1, PTL

\* Where a request of port 80 arrived in one piece, net_80_443_redir parses this
\* request and nothing else, whatever the client sends behind it and whenever that
\* arrives: for any number of clients and segments.
THEOREM WholeRequestHolds == Spec => []WholeRequest
<1>1. RInv => WholeRequest
  BY DEF RInv, Received, WholeRequest
<1> QED
  BY InvHolds, <1>1, PTL
==============================================================================
