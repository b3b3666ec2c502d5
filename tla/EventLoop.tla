------------------------------ MODULE EventLoop ------------------------------
(***************************************************************************)
(* The worker's main loop, fws_child_run: it takes a batch of events from  *)
(* epoll and handles them in order: the two listening sockets, the         *)
(* limiter's timer and the connections.  A connection on port 80 is read,  *)
(* redirected and closed (_fws_80_run, net_80_443_redir); one on port 443  *)
(* is given to _fws_443_run, which keeps or closes it (see Conn443).       *)
(*                                                                         *)
(* epoll (external) is level triggered: it keeps a list of what may be     *)
(* ready, reports from its head, and puts what it reported at its tail.    *)
(* Whatever fails in the loop breaks off the batch, and the events behind  *)
(* it are only seen again if epoll reports them again.                     *)
(***************************************************************************)
EXTENDS Naturals, Sequences, SequencesExt

CONSTANTS
  FdLimit,  \* descriptors left for connections (RLIMIT_NOFILE less the fixed ones)
  maxEvent, \* events in one batch (32)
  MaxConn,  \* bound: connections clients open
  MaxSend,  \* bound: segments a client sends, and buffers it drains, on one connection
  MaxErr    \* bound: calls that fail for reasons of the moment

ASSUME ConstantsType ==
  /\ FdLimit \in Nat
  /\ maxEvent \in Nat \ {0}
  /\ MaxConn \in Nat /\ MaxSend \in Nat /\ MaxErr \in Nat

\* Descriptors: the fixed ones, then those of connections.
server_http_fd == 1
server_https_fd == 2
timer_fd == 3
Listener == {server_http_fd, server_https_fd}
Fd == timer_fd + 1 .. timer_fd + FdLimit
Item == Listener \cup {timer_fd} \cup Fd

VARIABLES
  pc,         \* "wait", "batch", "redir" (inside net_80_443_redir) or "exit"
  batch,      \* fws_event[i ..]: events not handled yet
  recv_buf,   \* what net_80_443_redir has received
  ctx,        \* the fws_data_ctx of each descriptor: "none", "80" or "443"
  \* kernel
  open,       \* descriptors in use
  registered, \* descriptors epoll watches
  ready,      \* epoll's ready list
  backlog,    \* connections waiting for accept
  tick,       \* the timer has expired and was not read
  inq,        \* segments received and not read
  out,        \* "no": epoll watches for input; "full", "room": it waits (EPOLLOUT)
              \* for a full send buffer, which is drained in the second case
  \* history and bounds
  gen,        \* how often each descriptor was given a context
  first,      \* what the first segment on it carried
  misread,    \* port 80: what was parsed in place of a request that came in one piece
  n_conn, n_send, n_err

kernel == <<open, registered, ready, backlog, tick, inq, out>>
history == <<gen, first, misread>>
bounds == <<n_conn, n_send, n_err>>
vars == <<pc, batch, recv_buf, ctx, kernel, history, bounds>>

\* A segment on port 80: a whole request, its first part, the rest of it, the end
\* of the stream.  On port 443 what is unread before the end of the stream is one piece.
Segment == {"whole", "part", "rest", "fin"}

Init ==
  /\ pc = "wait" /\ batch = <<>> /\ recv_buf = "none"
  /\ ctx = [fd \in Fd |-> "none"]
  /\ open = {} /\ registered = {} /\ ready = <<>>
  /\ backlog = [l \in Listener |-> 0] /\ tick = FALSE
  /\ inq = [fd \in Fd |-> <<>>] /\ out = [fd \in Fd |-> "no"]
  /\ gen = [fd \in Fd |-> 0] /\ first = [fd \in Fd |-> "none"] /\ misread = {}
  /\ n_conn = 0 /\ n_send = [fd \in Fd |-> 0] /\ n_err = 0

------------------------------------------------------------------------------
\* epoll.

Eventful(fd) == (out[fd] = "no" /\ inq[fd] # <<>>) \/ out[fd] = "room"

Ready(item) ==
  CASE item \in Listener -> backlog[item] > 0
    [] item = timer_fd -> tick
    [] OTHER -> item \in registered /\ Eventful(item)

\* Something happened on a watched descriptor.
Notified(item) == IF Contains(ready, item) THEN ready ELSE Append(ready, item)

Bug_LevelTriggered == FALSE

\* The events are EPOLLIN or EPOLLOUT, without EPOLLET.
LevelTriggered == TRUE

\* epoll_wait goes through its list from the head: what is not ready any more is
\* taken off it, until the batch is full.
n_event == IF Len(ready) < maxEvent THEN Len(ready) ELSE maxEvent

EpollDrop ==
  /\ pc = "wait"
  /\ \E i \in 1 .. n_event :
       /\ ~Ready(ready[i])
       /\ \A j \in 1 .. n_event : j < i => Ready(ready[j])
       /\ ready' = RemoveAt(ready, i)
  /\ UNCHANGED <<pc, batch, recv_buf, ctx, open, registered, backlog, tick, inq, out, history, bounds>>

EpollWait ==
  LET got == SubSeq(ready, 1, n_event)
  IN /\ pc = "wait"
     /\ ready # <<>>
     /\ \A i \in 1 .. n_event : Ready(ready[i])
     /\ batch' = [i \in 1 .. n_event |->
                    [item |-> got[i], gen |-> IF got[i] \in Fd THEN gen[got[i]] ELSE 0]]
     /\ ready' = SubSeq(ready, n_event + 1, Len(ready)) \o IF LevelTriggered THEN got ELSE <<>>
     /\ pc' = "batch"
     /\ UNCHANGED <<recv_buf, ctx, open, registered, backlog, tick, inq, out, history, bounds>>

------------------------------------------------------------------------------
\* The loop over the batch.

At(item) == pc = "batch" /\ batch[1].item = item

Bug_NextEvent ==
  /\ batch' = Tail(batch)
  /\ pc' = "batch"

\* continue
NextEvent ==
  /\ batch' = Tail(batch)
  /\ pc' = IF Len(batch) = 1 THEN "wait" ELSE "batch"

\* break
DropBatch ==
  /\ batch' = <<>>
  /\ pc' = "wait"

\* The descriptor accept4 gives, if any: the lowest that is free.
Lowest == {fd \in Fd \ open : \A g \in Fd \ open : fd <= g}

Kind(l) == IF l = server_http_fd THEN "80" ELSE "443"

Accept(l) ==
  /\ At(l)
  /\ backlog' = [backlog EXCEPT ![l] = @ - 1]
  /\ \E fd \in Lowest :
       /\ open' = open \cup {fd}
       /\ registered' = registered \cup {fd}
       /\ ctx' = [ctx EXCEPT ![fd] = Kind(l)]
       /\ gen' = [gen EXCEPT ![fd] = @ + 1]
  /\ NextEvent
  /\ UNCHANGED <<recv_buf, ready, tick, inq, out, first, misread, bounds>>

\* No descriptor is left: the connection stays in the backlog.
AcceptFull(l) ==
  /\ At(l)
  /\ open = Fd
  /\ DropBatch
  /\ UNCHANGED <<recv_buf, ctx, kernel, history, bounds>>

\* accept4 fails for this connection, which is gone, or for want of memory.
AcceptFails(l) ==
  /\ At(l)
  /\ n_err < MaxErr
  /\ n_err' = n_err + 1
  /\ \E gone \in 0 .. 1 : backlog' = [backlog EXCEPT ![l] = @ - gone]
  /\ DropBatch
  /\ UNCHANGED <<recv_buf, ctx, open, registered, ready, tick, inq, out, history, n_conn, n_send>>

Bug_Abandon(fd) == open' = open \cup {fd}

\* The accepted socket is closed again.
Abandon(fd) == UNCHANGED open

\* epoll_ctl fails: the new context and the socket are released.
AddFails(l) ==
  /\ At(l)
  /\ n_err < MaxErr
  /\ n_err' = n_err + 1
  /\ backlog' = [backlog EXCEPT ![l] = @ - 1]
  /\ \E fd \in Lowest : Abandon(fd)
  /\ DropBatch
  /\ UNCHANGED <<recv_buf, ctx, registered, ready, tick, inq, out, history, n_conn, n_send>>

\* calloc fails: the worker exits.
AllocFails(l) ==
  /\ At(l)
  /\ open # Fd
  /\ n_err < MaxErr
  /\ n_err' = n_err + 1
  /\ pc' = "exit"
  /\ batch' = <<>>
  /\ UNCHANGED <<recv_buf, ctx, kernel, history, n_conn, n_send>>

\* The timer's count is read and the limiter's table cleared (RateLimit!Timer).
TimerRead ==
  /\ At(timer_fd)
  /\ tick' = FALSE
  /\ NextEvent
  /\ UNCHANGED <<recv_buf, ctx, open, registered, ready, backlog, inq, out, history, bounds>>

Bug_Release(fd) ==
  /\ ctx' = [ctx EXCEPT ![fd] = "none"]
  /\ UNCHANGED <<open, registered, ready, inq, out, first, n_send>>

\* Closing the descriptor also ends epoll's interest in it; the context is freed.
Release(fd) ==
  /\ ctx' = [ctx EXCEPT ![fd] = "none"]
  /\ open' = open \ {fd}
  /\ registered' = registered \ {fd}
  /\ ready' = RemoveFirst(ready, fd)
  /\ inq' = [inq EXCEPT ![fd] = <<>>]
  /\ out' = [out EXCEPT ![fd] = "no"]
  /\ first' = [first EXCEPT ![fd] = "none"]
  /\ n_send' = [n_send EXCEPT ![fd] = 0]

\* _fws_443_run goes on with what it was about.  It closes the connection, by its
\* own decision or because the client did; or keeps it when all there is was read;
\* or a write is blocked, and what is unread by then, part of a piece too, waits.
Handle443(fd) ==
  /\ At(fd)
  /\ ctx[fd] = "443"
  /\ \/ Release(fd)
     \/ \E rest \in Suffixes(inq[fd]), o \in {"no", "full"} :
          /\ rest = <<>> => ~Contains(inq[fd], "fin")
          /\ o = "no" => rest = <<>>
          /\ out[fd] = "no" => inq[fd] # <<"fin">>
          /\ inq' = [inq EXCEPT ![fd] = rest]
          /\ out' = [out EXCEPT ![fd] = o]
          /\ UNCHANGED <<ctx, open, registered, ready, first, n_send>>
  /\ NextEvent
  /\ UNCHANGED <<recv_buf, backlog, tick, gen, misread, n_conn, n_err>>

------------------------------------------------------------------------------
\* _fws_80_run and net_80_443_redir: receive until the empty line, the end of the
\* stream or EAGAIN (the socket does not block, so the receive timeout set before
\* means nothing), answer, close.

Redir80(fd) ==
  /\ At(fd)
  /\ ctx[fd] = "80"
  /\ pc' = "redir"
  /\ recv_buf' = "none"
  /\ UNCHANGED <<batch, ctx, kernel, history, bounds>>

Cur == batch[1].item

\* What one recv() returns: everything that is queued before the end of the stream.
Taken(segs) ==
  LET data == IF Contains(segs, "fin") THEN Front(segs) ELSE segs
  IN IF data = <<>> THEN "none"
     ELSE IF Len(data) > 1 /\ data[1] # "whole" THEN "whole"
     ELSE data[1]

\* A recv() stores at the start of recv_buf, over what is there.
Stored(taken) == IF recv_buf = "none" THEN taken ELSE "mixed"

Bug_Complete(taken) == FALSE

\* The empty line is among what was received.
Complete(taken) == taken \in {"whole", "rest"}

\* Parse recv_buf, send the redirect (where to: see Site) or nothing, close.
Finish(buf) ==
  /\ misread' = IF first[Cur] = "whole" /\ buf # "whole" THEN misread \cup {buf} ELSE misread
  /\ Release(Cur)
  /\ recv_buf' = "none"
  /\ NextEvent

\* recv() returns data without the empty line: once more.
RecvPart ==
  LET taken == Taken(inq[Cur])
  IN /\ pc = "redir"
     /\ taken # "none"
     /\ ~Complete(taken)
     /\ recv_buf' = Stored(taken)
     /\ inq' = [inq EXCEPT ![Cur] = IF Contains(@, "fin") THEN <<"fin">> ELSE <<>>]
     /\ UNCHANGED <<pc, batch, ctx, open, registered, ready, backlog, tick, out, history, bounds>>

\* recv() returns the empty line.
RecvEnd ==
  LET taken == Taken(inq[Cur])
  IN /\ pc = "redir"
     /\ taken # "none"
     /\ Complete(taken)
     /\ Finish(Stored(taken))
     /\ UNCHANGED <<backlog, tick, gen, n_conn, n_err>>

\* recv() returns 0, or nothing is there yet.
RecvNothing ==
  /\ pc = "redir"
  /\ Taken(inq[Cur]) = "none"
  /\ Finish(recv_buf)
  /\ UNCHANGED <<backlog, tick, gen, n_conn, n_err>>

------------------------------------------------------------------------------
\* Clients and the clock.

Connect(l) ==
  /\ pc # "exit"
  /\ n_conn < MaxConn
  /\ n_conn' = n_conn + 1
  /\ backlog' = [backlog EXCEPT ![l] = @ + 1]
  /\ ready' = Notified(l)
  /\ UNCHANGED <<pc, batch, recv_buf, ctx, open, registered, tick, inq, out, history, n_send, n_err>>

\* A cut request is completed by its rest; after a whole one another may follow.
MaySend(fd, s) ==
  /\ ~Contains(inq[fd], "fin")
  /\ CASE s = "rest" -> first[fd] = "part" /\ n_send[fd] = 1
       [] s = "fin" -> TRUE
       [] s = "whole" -> first[fd] \in {"none", "whole"}
       [] OTHER -> first[fd] = "none"

Send(fd, s) ==
  /\ pc # "exit"
  /\ ctx[fd] # "none"
  /\ ctx[fd] = "443" => s = "fin" \/ (s = "whole" /\ inq[fd] = <<>>)
  /\ n_send[fd] < MaxSend
  /\ MaySend(fd, s)
  /\ n_send' = [n_send EXCEPT ![fd] = @ + 1]
  /\ inq' = [inq EXCEPT ![fd] = Append(@, s)]
  /\ first' = [first EXCEPT ![fd] = IF @ = "none" THEN s ELSE @]
  /\ ready' = Notified(fd)
  /\ UNCHANGED <<pc, batch, recv_buf, ctx, open, registered, backlog, tick, out, gen, misread,
                 n_conn, n_err>>

\* The client takes what was sent to it, or resets the connection: what waited
\* for room may go on.
Drain(fd) ==
  /\ pc # "exit"
  /\ out[fd] = "full"
  /\ n_send[fd] < MaxSend
  /\ n_send' = [n_send EXCEPT ![fd] = @ + 1]
  /\ out' = [out EXCEPT ![fd] = "room"]
  /\ ready' = Notified(fd)
  /\ UNCHANGED <<pc, batch, recv_buf, ctx, open, registered, backlog, tick, inq, history,
                 n_conn, n_err>>

Expire ==
  /\ pc # "exit"
  /\ ~tick
  /\ tick' = TRUE
  /\ ready' = Notified(timer_fd)
  /\ UNCHANGED <<pc, batch, recv_buf, ctx, open, registered, backlog, inq, out, history, bounds>>

------------------------------------------------------------------------------
Worker ==
  \/ EpollDrop \/ EpollWait
  \/ \E l \in Listener : Accept(l) \/ AcceptFull(l) \/ AcceptFails(l) \/ AddFails(l) \/ AllocFails(l)
  \/ TimerRead
  \/ \E fd \in Fd : Handle443(fd) \/ Redir80(fd)
  \/ RecvPart \/ RecvEnd \/ RecvNothing

Next ==
  \/ Worker
  \/ \E l \in Listener : Connect(l)
  \/ \E fd \in Fd, s \in Segment : Send(fd, s)
  \/ \E fd \in Fd : Drain(fd)
  \/ Expire

Spec == Init /\ [][Next]_vars

\* The worker keeps running; nothing is asked of the clients or the clock.
FairSpec == Spec /\ WF_vars(Worker)

------------------------------------------------------------------------------
\* Properties.

TypeOK ==
  /\ pc \in {"wait", "batch", "redir", "exit"}
  /\ \A i \in DOMAIN batch : batch[i].item \in Item
  /\ pc = "batch" <=> batch # <<>> /\ pc # "redir"
  /\ {recv_buf} \cup misread \subseteq {"none", "whole", "part", "rest", "mixed"}
  /\ ctx \in [Fd -> {"none", "80", "443"}]
  /\ open \subseteq Fd /\ registered \subseteq Fd
  /\ \A i, j \in DOMAIN ready : ready[i] = ready[j] => i = j
  /\ out \in [Fd -> {"no", "full", "room"}]
  /\ backlog \in [Listener -> 0 .. MaxConn] /\ tick \in BOOLEAN

\* The pointer of every event of the batch that is still to be handled is the
\* live context it was registered with, although the handlers of the events
\* before it free contexts, and accept reuses their descriptors, inside the batch.
NoStale ==
  \A i \in DOMAIN batch :
    LET fd == batch[i].item
    IN fd \in Fd => ctx[fd] # "none" /\ gen[fd] = batch[i].gen

\* No descriptor leaks, on no error path: every open one has a context and is
\* watched by epoll.
Watched == open = registered /\ open = {fd \in Fd : ctx[fd] # "none"}

\* A client of port 80 whose request arrives in one piece has exactly this request
\* parsed: not nothing, and not a mix of what several receives left in recv_buf,
\* whatever it sends behind it and whenever that arrives.  (A request that arrives
\* in two segments is parsed as a part or a mix of them.)
WholeRequest == misread = {}

\* All descriptors are in use and another connection waits.
Exhausted == open = Fd /\ \E l \in Listener : backlog[l] > 0

\* Nobody is forgotten: although a failing call breaks off the batch, every
\* connection with input, or with room for what it could not send, and every waiting
\* client is attended to (the bounds make the clients pause), and so is the timer,
\* unless the worker exits or runs out of descriptors.  Input behind a blocked write
\* is attended to once the client takes what is sent to it.
Pending == (\E fd \in Fd : Eventful(fd)) \/ (\E l \in Listener : backlog[l] > 0)
Excused == pc = "exit" \/ Exhausted
Attended ==
  /\ Pending ~> (~Pending \/ Excused)
  /\ tick ~> (~tick \/ Excused)

\* The limiter's counts are reset: an expired timer is handled, or the worker
\* exits ("Limit count reset time", facows.conf).
TickHandled == tick ~> (~tick \/ pc = "exit")
==============================================================================
