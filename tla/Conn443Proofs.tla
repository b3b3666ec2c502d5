---------------------------- MODULE Conn443Proofs ----------------------------
(***************************************************************************)
(* One HTTPS connection, for send buffers and request buffers of any       *)
(* capacity, and any number of requests and edits: the handler sleeps on   *)
(* the right event; and for files of up to 2 GiB (FilesFit), bodies come   *)
(* out in order and what the client sees is a stream of responses as       *)
(* HttpStream describes it.                                                *)
(***************************************************************************)
EXTENDS Conn443, TLAPS, SequenceTheorems

\* The handler has read a request and sent no head for it yet.
Owing == IF pc \in {"request", "redir", "head", "err1", "dos1"} THEN 1 ELSE 0

\* Every head, and every lost request, stands for a record that was read.
Counted ==
  /\ resp + Owing + Len(inq) <= n_in
  /\ lost + Len(inq) <= n_in
  /\ reqs <= 2 * n_in

\* Before the handshake is done nothing is read or written, and a transfer
\* waits for the socket only between two events.
Phase ==
  /\ pc = "accept" => ssl_status # "ACCEPT"
  /\ ssl_status = "INIT" => pc = "closed"
  /\ pc \notin {"idle", "accept", "closed"} => ssl_status = "ACCEPT"
  /\ ssl_status = "ACCEPT" => hs = HsDone
  /\ ssl_status # "ACCEPT" => want_write = 0 /\ ~reply
  /\ want_write = 1 => pc \in {"idle", "closed"}

\* Where a transfer stands, in the context, in the handler and in OpenSSL, is
\* what the client has got so far.
Position ==
  /\ pc = "file" => file_len = Len(body)
  /\ pc = "chunk" => off = Len(body)
  /\ want_write = 1 => wpend = "file" /\ file_len = Len(body)
  /\ wpend = "file" => wchunk = Len(body)
  /\ wpend = "other" => pc = "closed"
  /\ pc \notin {"chunk", "closed"} /\ wpend = "none" => file_len = 0

\* What was announced is the size of the file, unless that changed.
Announced ==
  /\ clen <= MaxChunks + 1
  /\ ~exists => unlinked
  /\ pc \in {"err2", "dos2"} => body = <<>> /\ clen = 1
  /\ pc = "head" /\ ~resized => file_size = fsize
  /\ pc = "file" /\ ~resized /\ exists => clen = fsize
  /\ (pc = "chunk" \/ want_write = 1) /\ ~resized => clen = fsize

\* Between two responses the last body is complete, or its file was disturbed,
\* or nobody is there to take another response.
Between ==
  \/ pc \in {"accept", "read", "request", "redir", "head", "err1", "dos1"}
  \/ pc = "idle" /\ want_write = 0
Disturbed == unlinked \/ resized \/ isdir
Settled == Between => Len(body) = clen \/ Disturbed \/ client_gone

\* Inside a response there was a head.
Answered == pc \in {"err2", "dos2", "file", "chunk"} \/ want_write = 1 => resp > 0

\* The requests answered, lost and in hand, and those in the records still
\* unread, are requests the client sent: f[i] counts them up to, and without,
\* the i-th record.
Count(f) ==
  /\ f[1] = resp + lost + Owing
  /\ \A i \in 1 .. Len(inq) : f[i + 1] = f[i] + Requests(inq[i])
  /\ \A i \in 1 .. Len(inq) + 1 : f[i] <= reqs
Asked == pc # "closed" => \E f \in [1 .. Len(inq) + 1 -> Nat] : Count(f)

\* Where the handler is, and where the transfer is.
Control == Counted /\ Phase /\ RightInterest /\ Answered
Transfer == FilesFit => Position /\ BodyInOrder /\ Announced /\ Settled
Core == TypeOK /\ Control /\ Transfer

\* The inductive invariant.
IInv == Core /\ Asked

\* What the remainder is, as far as it is needed.
LEMMA ModIs ==
  ASSUME NEW a \in Nat, NEW b \in Nat \ {0}
  PROVE  a % b \in 0 .. b - 1 /\ (a < b => a % b = a) /\ a % b <= a
<1>1. a % b \in 0 .. b - 1
  OBVIOUS
<1>2. a < b => a % b = a
  OBVIOUS
<1>3. a % b <= a
  <2>1. CASE a < b
    BY <1>2, <2>1
  <2>2. CASE ~(a < b)
    BY <1>1, <2>2
  <2> QED
    BY <2>1, <2>2
<1> QED
  BY <1>1, <1>2, <1>3

\* A position that is saved never moves forward, and below 2 GiB it stays.
LEMMA S32Is ==
  ASSUME NEW n \in Nat
  PROVE  /\ S32(n) \in -Int32Chunks .. Int32Chunks - 1
         /\ S32(n) <= n
         /\ n < Int32Chunks => S32(n) = n
<1> DEFINE a == n + Int32Chunks
           b == 2 * Int32Chunks
<1>1. a \in Nat /\ b \in Nat \ {0} /\ Int32Chunks \in Nat
  BY ConstantsType
<1>2. S32(n) = (a % b) - Int32Chunks /\ (n < Int32Chunks => a < b)
  BY ConstantsType DEF S32
<1>3. a = n + Int32Chunks /\ b - Int32Chunks = Int32Chunks
  BY <1>1
<1> HIDE DEF a, b
<1>4. a % b \in 0 .. b - 1 /\ (a < b => a % b = a) /\ a % b <= a
  BY <1>1, ModIs
<1> QED
  BY <1>1, <1>2, <1>3, <1>4

\* Reading takes records from the front, or nothing.
LEMMA UnreadShrinks ==
  ASSUME inq \in Seq(In), inq' = inq \/ (inq # <<>> /\ inq' = Tail(inq))
  PROVE  inq' \in Seq(In) /\ Len(inq') <= Len(inq)
  OBVIOUS

\* Closing takes the request in hand out of the count, or nothing.
LEMMA CloseKeepsCount ==
  ASSUME TypeOK, Counted, Answered, pc' = "closed",
         UNCHANGED <<want_write, inq, n_in, reqs, lost, resp>>
  PROVE  Counted' /\ Answered'
<1>1. Owing' = 0 /\ Owing \in Nat
  BY DEF Owing
<1>2. /\ resp \in Nat /\ n_in \in Nat /\ Len(inq) \in Nat
      /\ resp + Owing + Len(inq) <= n_in
  BY DEF TypeOK, Counted
<1>3. resp + 0 + Len(inq) <= n_in
  BY <1>1, <1>2
<1> QED
  BY <1>1, <1>3 DEF Counted, Answered

\* SSL_accept, up to its return to epoll, keeps the core.
LEMMA AcceptStep ==
  ASSUME Core,
         Wake \/ NewFails \/ AcceptFlight \/ AcceptWant \/ AcceptFails \/ AcceptDone
  PROVE  Core'
<1>1. CASE Wake
  <2>1. TypeOK'
    BY <1>1 DEF Wake, Core, TypeOK, Entry, file, ssl, net, hist
  <2>2. Control'
    BY <1>1, ConstantsType DEF Wake, Core, Control, Counted, Phase, RightInterest,
       Answered, TypeOK, Entry, file, ssl, net, hist, Owing
  <2>3. Transfer'
    BY <1>1 DEF Wake, Core, Control, Transfer, Phase, Position, BodyInOrder, Announced,
       Settled, TypeOK, Entry, file, ssl, net, hist, Between, Disturbed
  <2> QED
    BY <2>1, <2>2, <2>3 DEF Core
<1>2. CASE NewFails
  <2>1. answering' \in BOOLEAN
    BY <1>2, Zenon DEF NewFails, Core, TypeOK, Close
  <2>2. TypeOK'
    BY <1>2, <2>1 DEF NewFails, Core, TypeOK, Close, ctx, ssl, net, file
  <2>3. Control'
    BY <1>2, <2>1 DEF NewFails, Core, Control, Counted, Phase, RightInterest, Answered,
       TypeOK, Close, ctx, ssl, net, file, Owing
  <2>4. Transfer'
    BY <1>2, <2>1 DEF NewFails, Core, Transfer, Position, BodyInOrder, Announced,
       Settled, TypeOK, Close, ctx, ssl, net, file, Between, Disturbed
  <2> QED
    BY <2>2, <2>3, <2>4 DEF Core
<1>3. CASE AcceptFlight
  <2>1. inq' \in Seq(In) /\ Len(inq') <= Len(inq)
    <3>1. inq' = inq \/ (inq # <<>> /\ inq' = Tail(inq))
      BY <1>3, Zenon DEF AcceptFlight
    <3> QED
      BY <3>1, UnreadShrinks DEF Core, TypeOK
  <2>2. TypeOK'
    BY <1>3, ConstantsType, <2>1 DEF AcceptFlight, Core, TypeOK, NeedsFlight,
       OwesFlight, ctx, local, file, hist, HsDone
  <2>3. Control'
    BY <1>3, ConstantsType, <2>1 DEF AcceptFlight, Core, Control, Counted, Phase,
       RightInterest, Answered, TypeOK, NeedsFlight, ctx, local, file, hist, Owing
  <2>4. Transfer'
    BY <1>3, <2>1 DEF AcceptFlight, Core, Transfer, Position, BodyInOrder, Announced,
       Settled, TypeOK, NeedsFlight, ctx, local, file, hist, Between, Disturbed
  <2> QED
    BY <2>2, <2>3, <2>4 DEF Core
<1>4. CASE AcceptWant
  <2>1. TypeOK'
    BY <1>4 DEF AcceptWant, Core, TypeOK, NeedsFlight, OwesFlight, ssl, net, file, hist
  <2>2. Control'
    <3>1. Counted' /\ Answered'
      BY <1>4 DEF AcceptWant, Core, Control, Counted, Answered, TypeOK, NeedsFlight,
         ssl, net, file, hist, Owing
    <3>2. Phase'
      BY <1>4 DEF AcceptWant, Core, Control, Phase, TypeOK, NeedsFlight, OwesFlight,
         ssl, net, file, hist
    <3>3. RightInterest'
      BY <1>4 DEF AcceptWant, Core, Control, Phase, RightInterest, TypeOK, NeedsFlight,
         OwesFlight, ssl, net, file, hist
    <3> QED
      BY <3>1, <3>2, <3>3 DEF Control
  <2>3. Transfer'
    BY <1>4 DEF AcceptWant, Core, Transfer, Position, BodyInOrder, Announced, Settled,
       TypeOK, NeedsFlight, ssl, net, file, hist, Between, Disturbed
  <2> QED
    BY <2>1, <2>2, <2>3 DEF Core
<1>5. CASE AcceptFails
  <2>1. answering' \in BOOLEAN
    BY <1>5, Zenon DEF AcceptFails, Core, TypeOK, Close
  <2>2. TypeOK'
    BY <1>5, <2>1 DEF AcceptFails, Core, TypeOK, NeedsFlight, Close, ssl, net, file
  <2>3. Control'
    BY <1>5, <2>1 DEF AcceptFails, Core, Control, Counted, Phase, RightInterest,
       Answered, TypeOK, NeedsFlight, Close, ssl, net, file, Owing
  <2>4. Transfer'
    BY <1>5, <2>1 DEF AcceptFails, Core, Transfer, Position, BodyInOrder, Announced,
       Settled, TypeOK, NeedsFlight, Close, ssl, net, file, Between, Disturbed
  <2> QED
    BY <2>2, <2>3, <2>4 DEF Core
<1>6. CASE AcceptDone
  <2>1. TypeOK'
    BY <1>6 DEF AcceptDone, Core, TypeOK, ssl, net, file, hist
  <2>2. Control'
    BY <1>6 DEF AcceptDone, Core, Control, Counted, Phase, RightInterest, Answered,
       TypeOK, ssl, net, file, hist, Owing
  <2>3. Transfer'
    BY <1>6 DEF AcceptDone, Core, Transfer, Position, BodyInOrder, Announced, Settled,
       TypeOK, ssl, net, file, hist, Between, Disturbed
  <2> QED
    BY <2>1, <2>2, <2>3 DEF Core
<1> QED
  BY <1>1, <1>2, <1>3, <1>4, <1>5, <1>6

\* SSL_read keeps it, whatever record it finds.
LEMMA ReadStep ==
  ASSUME Core,
         ReadWant \/ ReadReply \/ ReadData \/ ReadFails
  PROVE  Core'
<1>1. CASE ReadWant
  <2>1. TypeOK'
    BY <1>1 DEF ReadWant, Core, TypeOK, ReadInterest, ssl, net, file, hist
  <2>2. Control'
    BY <1>1 DEF ReadWant, Core, Control, Counted, Phase, RightInterest, Answered,
       TypeOK, ReadInterest, ssl, net, file, hist, Owing, HsDone, OwesFlight
  <2>3. Transfer'
    BY <1>1 DEF ReadWant, Core, Transfer, Position, BodyInOrder, Announced, Settled,
       TypeOK, ReadInterest, ssl, net, file, hist, Between, Disturbed
  <2> QED
    BY <2>1, <2>2, <2>3 DEF Core
<1>2. CASE ReadReply
  <2>1. inq' \in Seq(In) /\ Len(inq') <= Len(inq)
    <3>1. inq' = inq \/ (inq # <<>> /\ inq' = Tail(inq))
      BY <1>2, Zenon DEF ReadReply
    <3> QED
      BY <3>1, UnreadShrinks DEF Core, TypeOK
  <2>2. reply' \in BOOLEAN
    BY <1>2, Zenon DEF Core, TypeOK, ReadReply
  <2>3. TypeOK'
    BY <1>2, ConstantsType, <2>1, <2>2
       DEF ReadReply, Core, TypeOK, ctx, local, file, hist
  <2>4. Control'
    BY <1>2, ConstantsType, <2>1, <2>2 DEF ReadReply, Core, Control, Counted, Phase,
       RightInterest, Answered, TypeOK, ctx, local, file, hist, Owing
  <2>5. Transfer'
    BY <1>2, <2>1, <2>2 DEF ReadReply, Core, Transfer, Position, BodyInOrder, Announced,
       Settled, TypeOK, ctx, local, file, hist, Between, Disturbed
  <2> QED
    BY <2>3, <2>4, <2>5 DEF Core
<1>3. CASE ReadData
  <2>1. answering' \in BOOLEAN
    BY <1>3, Zenon DEF ReadData, Core, TypeOK
  <2>2. inq' \in Seq(In) /\ Len(inq') <= Len(inq)
    <3>1. inq' = inq \/ (inq # <<>> /\ inq' = Tail(inq))
      BY <1>3, Zenon DEF ReadData
    <3> QED
      BY <3>1, UnreadShrinks DEF Core, TypeOK
  <2>3. TypeOK'
    BY <1>3, ConstantsType, <2>1, <2>2
       DEF ReadData, Core, Control, TypeOK, Counted, Data, ReqFits, ssl, file
  <2>4. Control'
    BY <1>3, ConstantsType, <2>1, <2>2 DEF ReadData, Core, Control, Counted, Phase,
       RightInterest, Answered, TypeOK, Data, ReqFits, ssl, file, Owing
  <2>5. Transfer'
    BY <1>3, <2>1, <2>2 DEF ReadData, Core, Transfer, Position, BodyInOrder, Announced,
       Settled, TypeOK, Data, ReqFits, ssl, file, Between, Disturbed
  <2> QED
    BY <2>3, <2>4, <2>5 DEF Core
<1>4. CASE ReadFails
  <2>1. answering' \in BOOLEAN
    BY <1>4, Zenon DEF ReadFails, Core, TypeOK, Close
  <2>2. TypeOK'
    BY <1>4, ConstantsType, <2>1
       DEF ReadFails, Core, TypeOK, Data, ReqFits, Close, ssl, net, file
  <2>3. Control'
    BY <1>4, <2>1 DEF ReadFails, Core, Control, Counted, Phase, RightInterest, Answered,
       TypeOK, Data, ReqFits, Close, ssl, net, file, Owing
  <2>4. Transfer'
    BY <1>4, <2>1 DEF ReadFails, Core, Transfer, Position, BodyInOrder, Announced,
       Settled, TypeOK, Data, ReqFits, Close, ssl, net, file, Between, Disturbed
  <2> QED
    BY <2>2, <2>3, <2>4 DEF Core
<1> QED
  BY <1>1, <1>2, <1>3, <1>4

\* The verdict on a request, and the heads and pages sent for it, keep it.
LEMMA ResponseStep ==
  ASSUME Core,
         \/ Request \/ RequestBad \/ Redirect \/ ErrPageFails \/ SendErrHead \/ SendErrPage
         \/ SendFails \/ \E etag \in Etag : SendHead(etag)
  PROVE  Core'
<1>1. CASE Request
  <2>1. TypeOK'
    <3>1. /\ pc' \in {"head", "err1", "dos1", "redir"}
          /\ file_size' \in {fsize, file_size}
          /\ UNCHANGED <<ctx, off, ssl, net, file, hist>>
      BY <1>1 DEF Request
    <3> QED
      BY <3>1 DEF Core, TypeOK, ctx, ssl, net, file, hist
  <2>2. Control'
    BY <1>1 DEF Request, Core, Control, Counted, Phase, RightInterest, Answered, TypeOK,
       ctx, ssl, net, file, hist, Owing
  <2>3. Transfer'
    BY <1>1 DEF Request, Core, Transfer, Position, BodyInOrder, Announced, Settled,
       TypeOK, ctx, ssl, net, file, hist, Between, Disturbed
  <2> QED
    BY <2>1, <2>2, <2>3 DEF Core
<1>2. CASE RequestBad
  <2>1. answering' \in BOOLEAN
    BY <1>2, Zenon DEF RequestBad, Core, TypeOK, Close
  <2>2. TypeOK'
    BY <1>2, <2>1 DEF RequestBad, Core, TypeOK, Close, ctx, ssl, net, file
  <2>3. Control'
    BY <1>2, <2>1 DEF RequestBad, Core, Control, Counted, Phase, RightInterest,
       Answered, TypeOK, Close, ctx, ssl, net, file, Owing
  <2>4. Transfer'
    BY <1>2, <2>1 DEF RequestBad, Core, Transfer, Position, BodyInOrder, Announced,
       Settled, TypeOK, Close, ctx, ssl, net, file, Between, Disturbed
  <2> QED
    BY <2>2, <2>3, <2>4 DEF Core
<1>3. CASE Redirect
  <2>1. answering' \in BOOLEAN
    BY <1>3, Zenon DEF Redirect, Core, TypeOK, Close
  <2>2. TypeOK'
    BY <1>3, ConstantsType, <2>1 DEF Redirect, Core, Control, TypeOK, Counted, WriteOk,
       Accepted, Respond, Close, file, Owing
  <2>3. Control'
    BY <1>3, <2>1 DEF Redirect, Core, Control, Counted, Phase, RightInterest, Answered,
       TypeOK, WriteOk, Accepted, Respond, Close, file, Owing
  <2>4. Transfer'
    BY <1>3, ConstantsType, <2>1 DEF Redirect, Core, Control, Transfer, Phase, Position,
       BodyInOrder, Announced, Settled, TypeOK, WriteOk, Accepted, Respond, Close, file
  <2> QED
    BY <2>2, <2>3, <2>4 DEF Core
<1>4. CASE ErrPageFails
  <2>1. answering' \in BOOLEAN
    BY <1>4, Zenon DEF ErrPageFails, Core, TypeOK, Close
  <2>2. TypeOK'
    BY <1>4, <2>1 DEF ErrPageFails, Core, TypeOK, Close, ctx, ssl, net, file
  <2>3. Control'
    <3>1. Counted' /\ Answered'
      BY <1>4, CloseKeepsCount DEF ErrPageFails, Close, Core, Control, ctx, net
    <3>2. Phase'
      BY <1>4, <2>1
         DEF ErrPageFails, Core, Control, Phase, TypeOK, Close, ctx, ssl, net, file
    <3>3. RightInterest'
      BY <1>4, <2>1 DEF ErrPageFails, Core, Control, Phase, RightInterest, TypeOK,
         Close, ctx, ssl, net, file
    <3> QED
      BY <3>1, <3>2, <3>3 DEF Control
  <2>4. Transfer'
    BY <1>4, <2>1 DEF ErrPageFails, Core, Transfer, Position, BodyInOrder, Announced,
       Settled, TypeOK, Close, ctx, ssl, net, file, Between, Disturbed
  <2> QED
    BY <2>2, <2>3, <2>4 DEF Core
<1>5. CASE SendErrHead
  <2>1. TypeOK'
    BY <1>5, ConstantsType DEF SendErrHead, Core, Control, TypeOK, Counted, WriteOk,
       Accepted, Respond, file, Owing
  <2>2. Control'
    <3>1. Counted' /\ Answered'
      BY <1>5 DEF SendErrHead, Core, Control, Counted, Answered, TypeOK, WriteOk,
         Accepted, Respond, file, Owing
    <3>2. Phase'
      BY <1>5
         DEF SendErrHead, Core, Control, Phase, TypeOK, WriteOk, Accepted, Respond, file
    <3>3. RightInterest'
      BY <1>5 DEF SendErrHead, Core, Control, Phase, RightInterest, TypeOK, WriteOk,
         Accepted, Respond, file
    <3> QED
      BY <3>1, <3>2, <3>3 DEF Control
  <2>3. Transfer'
    BY <1>5, ConstantsType DEF SendErrHead, Core, Transfer, Position, BodyInOrder,
       Announced, Settled, TypeOK, WriteOk, Accepted, Respond, file, Between, Disturbed,
       WriteFails
  <2> QED
    BY <2>1, <2>2, <2>3 DEF Core
<1>6. CASE SendErrPage
  <2>1. answering' \in BOOLEAN
    BY <1>6, Zenon DEF SendErrPage, Core
  <2>2. TypeOK'
    BY <1>6, ConstantsType, <2>1 DEF SendErrPage, Core, TypeOK, WriteOk, Accepted, file
  <2>3. Control'
    BY <1>6, <2>1 DEF SendErrPage, Core, Control, Counted, Phase, RightInterest,
       Answered, TypeOK, WriteOk, Accepted, file, Owing
  <2>4. Transfer'
    <3> SUFFICES ASSUME FilesFit PROVE (Position /\ BodyInOrder /\ Announced /\ Settled)'
      BY DEF Transfer
    <3>1. Position'
      BY <1>6, <2>1 DEF SendErrPage, Core, Transfer, Position, TypeOK, WriteOk,
         Accepted, file, WriteFails
    <3>2. BodyInOrder'
      <4>1. body = <<>> /\ body' = Append(body, 0) /\ clen = 1 /\ clen' = clen
        BY <1>6 DEF SendErrPage, Core, Transfer, Announced
      <4>2. Len(body') = 1 /\ body'[1] = 0
        BY <4>1
      <4> QED
        BY <4>1, <4>2 DEF BodyInOrder
    <3>3. Announced'
      BY <1>6, <2>1 DEF SendErrPage, Core, Transfer, Announced, TypeOK, WriteOk,
         Accepted, file, WriteFails
    <3>4. Settled'
      BY <1>6, <2>1 DEF SendErrPage, Core, Transfer, Announced, Settled, TypeOK,
         WriteOk, Accepted, file, Between, Disturbed, WriteFails
    <3> QED
      BY <3>1, <3>2, <3>3, <3>4
  <2> QED
    BY <2>2, <2>3, <2>4 DEF Core
<1>7. CASE SendFails
  <2>1. answering' \in BOOLEAN
    BY <1>7, Zenon DEF SendFails, Core, TypeOK, GiveUp, Close
  <2>2. TypeOK'
    BY <1>7, <2>1
       DEF SendFails, Core, TypeOK, GiveUp, file, WriteFails, WriteWant, Close, net
  <2>3. Control'
    <3>1. Counted' /\ Answered'
      BY <1>7, CloseKeepsCount DEF SendFails, GiveUp, Close, Core, Control, net
    <3>2. Phase'
      BY <1>7, <2>1 DEF SendFails, Core, Control, Phase, TypeOK, GiveUp, file,
         WriteFails, WriteWant, Close, net
    <3>3. RightInterest'
      BY <1>7, <2>1 DEF SendFails, Core, Control, Phase, RightInterest, TypeOK, GiveUp,
         file, WriteFails, WriteWant, Close, net
    <3> QED
      BY <3>1, <3>2, <3>3 DEF Control
  <2>4. Transfer'
    BY <1>7, <2>1 DEF SendFails, Core, Transfer, Position, BodyInOrder, Announced,
       Settled, TypeOK, GiveUp, file, Between, Disturbed, WriteFails, WriteWant, Close
  <2> QED
    BY <2>2, <2>3, <2>4 DEF Core
<1>8. ASSUME NEW etag \in Etag, SendHead(etag)
      PROVE  Core'
  <2>1. answering' \in BOOLEAN
    BY <1>8, Zenon DEF SendHead, Core, TypeOK, Close
  <2>2. TypeOK'
    BY <1>8, ConstantsType, <2>1 DEF SendHead, Core, Control, TypeOK, Counted, WriteOk,
       Accepted, Respond, EtagsEqual, NotModified, Close, file, Owing
  <2>3. Control'
    BY <1>8, ConstantsType, <2>1 DEF SendHead, Core, Control, Counted, Phase,
       RightInterest, Answered, TypeOK, WriteOk, Accepted, Respond, EtagsEqual,
       NotModified, Close, file, Owing
  <2>4. Transfer'
    BY <1>8, ConstantsType, <2>1 DEF SendHead, Core, Transfer, Position, BodyInOrder,
       Announced, Settled, TypeOK, WriteOk, Accepted, Respond, EtagsEqual, NotModified,
       Close, file, Between, Disturbed, WriteFails
  <2> QED
    BY <2>2, <2>3, <2>4 DEF Core
<1> QED
  BY <1>1, <1>2, <1>3, <1>4, <1>5, <1>6, <1>7, <1>8

\* net_443_file_write keeps it, from the first chunk or from where it was blocked.
LEMMA FileStep ==
  ASSUME Core,
         FileOpen \/ FileMissing \/ SendChunk \/ ChunkBlocks \/ ChunkFails \/ FileDone
  PROVE  Core'
<1>1. CASE FileOpen
  <2>1. TypeOK'
    BY <1>1, ConstantsType DEF FileOpen, Core, TypeOK, file, ctx, ssl, net, hist
  <2>2. Control'
    BY <1>1 DEF FileOpen, Core, Control, Counted, Phase, RightInterest, Answered,
       TypeOK, file, ctx, ssl, net, hist, Owing
  <2>3. Transfer'
    BY <1>1 DEF FileOpen, Core, Transfer, Position, BodyInOrder, Announced, Settled,
       TypeOK, file, ctx, ssl, net, hist, Between, Disturbed
  <2> QED
    BY <2>1, <2>2, <2>3 DEF Core
<1>2. CASE FileMissing
  <2>1. answering' \in BOOLEAN
    BY <1>2, Zenon DEF FileMissing, Core
  <2>2. TypeOK'
    BY <1>2, <2>1 DEF FileMissing, Core, TypeOK, file, ctx, ssl, net
  <2>3. Control'
    BY <1>2, <2>1 DEF FileMissing, Core, Control, Counted, Phase, RightInterest,
       Answered, TypeOK, file, ctx, ssl, net, Owing
  <2>4. Transfer'
    BY <1>2, <2>1 DEF FileMissing, Core, Transfer, Position, BodyInOrder, Announced,
       Settled, TypeOK, file, ctx, ssl, net, Between, Disturbed
  <2> QED
    BY <2>2, <2>3, <2>4 DEF Core
<1>3. CASE SendChunk
  <2>1. TypeOK'
    BY <1>3, ConstantsType DEF SendChunk, Core, TypeOK, AtEnd, WriteOk, file, Accepted
  <2>2. Control'
    BY <1>3 DEF SendChunk, Core, Control, Counted, Phase, RightInterest, Answered,
       TypeOK, AtEnd, WriteOk, file, Accepted, Owing
  <2>3. Transfer'
    BY <1>3, ConstantsType DEF SendChunk, Core, Control, Transfer, Phase, Position,
       BodyInOrder, Announced, Settled, TypeOK, AtEnd, WriteOk, file, Accepted, Between,
       Disturbed
  <2> QED
    BY <2>1, <2>2, <2>3 DEF Core
<1>4. CASE ChunkBlocks
  <2>1. /\ file_len' \in -Int32Chunks .. Int32Chunks - 1 /\ file_len' <= off
        /\ FilesFit => file_len' = off
    <3>1. file_len' = S32(off) /\ off \in Nat /\ off < fsize /\ fsize \in 0 .. MaxChunks
      BY <1>4, ConstantsType DEF ChunkBlocks, ResumeAt, Core, TypeOK, AtEnd
    <3>2. FilesFit => off < Int32Chunks
      BY <3>1, ConstantsType DEF FilesFit
    <3> QED
      BY <3>1, <3>2, S32Is
  <2>2. TypeOK'
    BY <1>4, <2>1, ConstantsType DEF ChunkBlocks, Core, TypeOK, AtEnd, WriteWant, file,
       BlockedInterest, net, hist
  <2>3. Control'
    BY <1>4 DEF ChunkBlocks, Core, Control, Counted, Phase, RightInterest, Answered,
       TypeOK, AtEnd, WriteWant, file, BlockedInterest, net, hist, Owing
  <2>4. Transfer'
    BY <1>4, <2>1 DEF ChunkBlocks, Core, Transfer, Position, BodyInOrder, Announced,
       Settled, TypeOK, AtEnd, WriteWant, file, BlockedInterest, net, hist, Between,
       Disturbed
  <2> QED
    BY <2>2, <2>3, <2>4 DEF Core
<1>5. CASE ChunkFails
  <2>1. answering' \in BOOLEAN
    BY <1>5, Zenon DEF ChunkFails, Core
  <2>2. TypeOK'
    BY <1>5, ConstantsType, <2>1
       DEF ChunkFails, Core, TypeOK, AtEnd, WriteFails, file, ssl, net
  <2>3. Control'
    BY <1>5, <2>1 DEF ChunkFails, Core, Control, Counted, Phase, RightInterest,
       Answered, TypeOK, AtEnd, WriteFails, file, ssl, net, Owing
  <2>4. Transfer'
    BY <1>5, <2>1 DEF ChunkFails, Core, Control, Transfer, Phase, Position, BodyInOrder,
       Announced, Settled, TypeOK, AtEnd, WriteFails, file, ssl, net, Between, Disturbed
  <2> QED
    BY <2>2, <2>3, <2>4 DEF Core
<1>6. CASE FileDone
  <2>1. answering' \in BOOLEAN
    BY <1>6, Zenon DEF FileDone, Core
  <2>2. TypeOK'
    BY <1>6, ConstantsType, <2>1 DEF FileDone, Core, TypeOK, AtEnd, ssl, net, file
  <2>3. Control'
    BY <1>6, <2>1 DEF FileDone, Core, Control, Counted, Phase, RightInterest, Answered,
       TypeOK, AtEnd, ssl, net, file, Owing
  <2>4. Transfer'
    BY <1>6, <2>1 DEF FileDone, Core, Control, Transfer, Phase, Position, BodyInOrder,
       Announced, Settled, TypeOK, AtEnd, ssl, net, file, Between, Disturbed
  <2> QED
    BY <2>2, <2>3, <2>4 DEF Core
<1> QED
  BY <1>1, <1>2, <1>3, <1>4, <1>5, <1>6

\* What the client and the web root do keeps it.
LEMMA OutsideStep ==
  ASSUME Core,
         (\E r \in In : ClientSends(r)) \/ ClientReads \/ ClientGoes \/ EditFile
  PROVE  Core'
<1>1. ASSUME NEW r \in In, ClientSends(r)
      PROVE  Core'
  <2>1. inq' \in Seq(In) /\ Len(inq') = Len(inq) + 1 /\ Requests(r) \in 0 .. 2
    <3>1. inq \in Seq(In) /\ inq' = Append(inq, r)
      BY <1>1 DEF Core, TypeOK, ClientSends
    <3>2. inq' \in Seq(In) /\ Len(inq') = Len(inq) + 1
      BY <3>1
    <3> QED
      BY <3>2 DEF Requests
  <2>2. /\ n_in' \in 0 .. MaxIn /\ n_in' = n_in + 1
        /\ reqs' \in 0 .. 2 * MaxIn /\ reqs' <= 2 * n_in'
    <3>1. /\ n_in \in Nat /\ n_in < MaxIn /\ reqs \in Nat /\ reqs <= 2 * n_in
          /\ n_in' = n_in + 1 /\ reqs' = reqs + Requests(r) /\ MaxIn \in Nat
      BY <1>1, ConstantsType DEF ClientSends, Core, Control, Counted, TypeOK
    <3>2. \A n \in Nat, q \in Nat, d \in 0 .. 2 :
            q <= 2 * n => q + d <= 2 * (n + 1)
      OBVIOUS
    <3>3. reqs + Requests(r) <= 2 * (n_in + 1)
      BY <2>1, <3>1
    <3> QED
      BY <2>1, <3>1
  <2>3. UNCHANGED <<ctx, local, ssl, snd, client_gone, file, lost, resp, clen, body,
                    answering>>
    BY <1>1 DEF ClientSends
  <2>4. TypeOK'
    BY <2>1, <2>2, <2>3 DEF Core, TypeOK, ctx, local, ssl, file
  <2>5. Counted'
    <3>1. resp' = resp /\ lost' = lost /\ Owing' = Owing /\ Owing \in Nat
      BY <2>3 DEF Owing, local
    <3>2. /\ resp \in Nat /\ lost \in Nat /\ n_in \in Nat /\ Len(inq) \in Nat
          /\ resp + Owing + Len(inq) <= n_in /\ lost + Len(inq) <= n_in
      BY DEF Core, Control, Counted, TypeOK
    <3>3. /\ resp + Owing + (Len(inq) + 1) <= n_in + 1
          /\ lost + (Len(inq) + 1) <= n_in + 1
      <4> HIDE DEF Owing
      <4> QED
        BY <3>1, <3>2
    <3> QED
      BY <2>1, <2>2, <3>1, <3>3 DEF Counted
  <2>6. Phase' /\ RightInterest' /\ Answered'
    BY <2>3 DEF Core, Control, Phase, RightInterest, Answered, ctx, local, ssl, HsDone,
       OwesFlight
  <2>7. Transfer'
    BY <2>3 DEF Core, Transfer, Position, BodyInOrder, Announced, Settled, Between,
       Disturbed, ctx, local, ssl, file
  <2> QED
    BY <2>4, <2>5, <2>6, <2>7 DEF Core, Control
<1>2. CASE ClientReads
  <2>1. TypeOK'
    BY <1>2, ConstantsType DEF ClientReads, Core, TypeOK, ctx, local, ssl, file, hist
  <2>2. Control'
    BY <1>2 DEF ClientReads, Core, Control, Counted, Phase, RightInterest, Answered,
       TypeOK, ctx, local, ssl, file, hist, Owing, OwesFlight
  <2>3. Transfer'
    BY <1>2 DEF ClientReads, Core, Transfer, Position, BodyInOrder, Announced, Settled,
       TypeOK, ctx, local, ssl, file, hist, Between, Disturbed
  <2> QED
    BY <2>1, <2>2, <2>3 DEF Core
<1>3. CASE ClientGoes
  <2>1. client_gone' \in BOOLEAN
    BY <1>3, Zenon DEF Core, TypeOK, ClientGoes
  <2>2. TypeOK'
    BY <1>3, <2>1 DEF ClientGoes, Core, TypeOK, ctx, local, ssl, file, hist
  <2>3. Control'
    BY <1>3, <2>1 DEF ClientGoes, Core, Control, Counted, Phase, RightInterest,
       Answered, TypeOK, ctx, local, ssl, file, hist, Owing, OwesFlight
  <2>4. Transfer'
    BY <1>3, <2>1 DEF ClientGoes, Core, Transfer, Position, BodyInOrder, Announced,
       Settled, TypeOK, ctx, local, ssl, file, hist, Between, Disturbed
  <2> QED
    BY <2>2, <2>3, <2>4 DEF Core
<1>4. CASE EditFile
  <2>1. (exists' \in BOOLEAN) /\ (unlinked' \in BOOLEAN) /\ (resized' \in BOOLEAN)
    BY <1>4, Zenon DEF Core, TypeOK, EditFile
  <2>2. TypeOK'
    BY <1>4, ConstantsType, <2>1
       DEF EditFile, Core, TypeOK, ctx, local, ssl, net, hist, file
  <2>3. Control'
    BY <1>4, <2>1 DEF EditFile, Core, Control, Counted, Phase, RightInterest, Answered,
       TypeOK, ctx, local, ssl, net, hist, Owing, OwesFlight, file
  <2>4. /\ UNCHANGED <<ctx, local, ssl, hist, client_gone, isdir>>
        /\ resized' \/ (resized' = resized /\ fsize' = fsize)
        /\ resized' \/ ~exists'
        /\ ~exists' => unlinked'
        /\ Disturbed'
    BY <1>4 DEF EditFile, net, Disturbed
  <2>5. Transfer'
    <3> SUFFICES ASSUME FilesFit PROVE (Position /\ BodyInOrder /\ Announced /\ Settled)'
      BY DEF Transfer
    <3>1. Position' /\ BodyInOrder'
      BY <1>4, <2>4
         DEF EditFile, Core, Transfer, Position, BodyInOrder, ctx, local, ssl, hist
    <3>2. Announced'
      BY <2>4, <2>1 DEF Core, Transfer, Announced, ctx, local, hist
    <3> QED
      BY <2>4, <3>1, <3>2 DEF Settled
  <2> QED
    BY <2>2, <2>3, <2>5 DEF Core
<1> QED
  BY <1>1, <1>2, <1>3, <1>4

\* A step that answers, loses and reads nothing leaves the count as it is.
LEMMA AskedSame ==
  ASSUME Asked, inq' = inq, reqs' = reqs,
         \/ pc' = "closed"
         \/ pc # "closed" /\ resp' + lost' + Owing' = resp + lost + Owing
  PROVE  Asked'
<1>1. CASE pc' = "closed"
  BY <1>1 DEF Asked
<1>2. CASE pc # "closed" /\ resp' + lost' + Owing' = resp + lost + Owing
  <2>1. PICK f \in [1 .. Len(inq) + 1 -> Nat] : Count(f)
    BY <1>2 DEF Asked
  <2>2. Count(f)'
    BY <1>2, <2>1 DEF Count
  <2> QED
    BY <2>2 DEF Asked
<1> QED
  BY <1>1, <1>2

\* A record that is read turns from unread requests into requests in hand or lost.
LEMMA AskedRead ==
  ASSUME TypeOK, Asked, pc # "closed", inq # <<>>, inq' = Tail(inq), reqs' = reqs,
         resp' + lost' + Owing' = resp + lost + Owing + Requests(Head(inq))
  PROVE  Asked'
<1> DEFINE n == Len(inq)
<1>1. PICK f \in [1 .. n + 1 -> Nat] : Count(f)
  BY DEF Asked
<1>2. /\ n \in Nat \ {0} /\ Len(inq') = n - 1 /\ Head(inq) = inq[1]
      /\ \A i \in 1 .. n - 1 : inq'[i] = inq[i + 1]
  BY HeadTailProperties DEF TypeOK
<1>3. /\ f[1] = resp + lost + Owing
      /\ \A i \in 1 .. n : f[i + 1] = f[i] + Requests(inq[i])
      /\ \A i \in 1 .. n + 1 : f[i] <= reqs
  BY <1>1 DEF Count
<1> DEFINE g == [i \in 1 .. n |-> f[i + 1]]
<1>4. (n - 1) + 1 = n /\ 1 \in 1 .. n
  BY <1>2
<1> HIDE DEF n
<1>5. g \in [1 .. n -> Nat]
  BY <1>1, <1>2
<1>6. g[1] = resp' + lost' + Owing'
  <2>1. g[1] = f[2] /\ f[2] = f[1] + Requests(inq[1])
    BY <1>3, <1>4
  <2> QED
    BY <1>2, <1>3
<1>7. \A i \in 1 .. n - 1 : g[i + 1] = g[i] + Requests(inq'[i])
  <2> TAKE i \in 1 .. n - 1
  <2>1. i \in 1 .. n /\ i + 1 \in 1 .. n
    BY <1>2
  <2>2. g[i + 1] = f[(i + 1) + 1] /\ g[i] = f[i + 1]
    BY <2>1
  <2>3. f[(i + 1) + 1] = f[i + 1] + Requests(inq[i + 1])
    BY <1>3, <2>1
  <2> QED
    BY <1>2, <2>2, <2>3
<1>8. \A i \in 1 .. n : g[i] <= reqs'
  <2> TAKE i \in 1 .. n
  <2>1. i + 1 \in 1 .. n + 1 /\ g[i] = f[i + 1]
    BY <1>2
  <2> QED
    BY <1>3, <2>1
<1> HIDE DEF g
<1>9. /\ g \in [1 .. Len(inq') + 1 -> Nat]
      /\ g[1] = resp' + lost' + Owing'
      /\ \A i \in 1 .. Len(inq') : g[i + 1] = g[i] + Requests(inq'[i])
      /\ \A i \in 1 .. Len(inq') + 1 : g[i] <= reqs'
  BY <1>2, <1>4, <1>5, <1>6, <1>7, <1>8
<1> QED
  BY <1>9 DEF Asked, Count

\* A record that is sent is counted behind the others.
LEMMA AskedMore ==
  ASSUME TypeOK, Asked, NEW r \in In, ClientSends(r)
  PROVE  Asked'
<1> DEFINE n == Len(inq)
<1>1. PICK f \in [1 .. n + 1 -> Nat] : Count(f)
  BY DEF Asked, ClientSends
<1>2. /\ n \in Nat /\ Len(inq') = n + 1 /\ inq'[n + 1] = r
      /\ \A i \in 1 .. n : inq'[i] = inq[i]
  <2>1. inq \in Seq(In) /\ inq' = Append(inq, r)
    BY DEF TypeOK, ClientSends
  <2> QED
    BY <2>1
<1>3. /\ f[1] = resp + lost + Owing
      /\ \A i \in 1 .. n : f[i + 1] = f[i] + Requests(inq[i])
      /\ \A i \in 1 .. n + 1 : f[i] <= reqs
  BY <1>1 DEF Count
<1>4. Requests(r) \in Nat /\ reqs' = reqs + Requests(r) /\ reqs \in Nat
  BY DEF ClientSends, Requests, TypeOK
<1>5. resp' + lost' + Owing' = resp + lost + Owing
  BY DEF ClientSends, local, Owing
<1> DEFINE g == [i \in 1 .. n + 2 |-> IF i <= n + 1 THEN f[i] ELSE f[n + 1] + Requests(r)]
<1> HIDE DEF n
<1>6. /\ \A i \in 1 .. n + 1 : g[i] = f[i]
      /\ g[n + 2] = f[n + 1] + Requests(r)
      /\ g \in [1 .. n + 2 -> Nat]
  BY <1>1, <1>2, <1>4
<1> HIDE DEF g
<1>7. g[1] = resp' + lost' + Owing'
  BY <1>2, <1>3, <1>5, <1>6
<1>8. \A i \in 1 .. n + 1 : g[i + 1] = g[i] + Requests(inq'[i])
  <2> TAKE i \in 1 .. n + 1
  <2>1. CASE i \in 1 .. n
    <3>1. i \in 1 .. n + 1 /\ i + 1 \in 1 .. n + 1
      BY <1>2, <2>1
    <3> QED
      BY <1>2, <1>3, <1>6, <2>1, <3>1
  <2>2. CASE i = n + 1
    <3>1. i + 1 = n + 2
      BY <1>2, <2>2
    <3> QED
      BY <1>2, <1>6, <2>2
  <2> QED
    BY <1>2, <2>1, <2>2
<1>9. \A i \in 1 .. n + 2 : g[i] <= reqs'
  <2> TAKE i \in 1 .. n + 2
  <2>1. CASE i \in 1 .. n + 1
    BY <1>1, <1>3, <1>4, <1>6, <2>1
  <2>2. CASE i = n + 2
    <3>1. f[n + 1] <= reqs /\ f[n + 1] \in Nat
      BY <1>1, <1>2, <1>3
    <3> QED
      BY <1>4, <1>6, <2>2, <3>1
  <2> QED
    BY <1>2, <2>1, <2>2
<1>10. (n + 1) + 1 = n + 2
  BY <1>2
<1>11. /\ g \in [1 .. Len(inq') + 1 -> Nat]
       /\ g[1] = resp' + lost' + Owing'
       /\ \A i \in 1 .. Len(inq') : g[i + 1] = g[i] + Requests(inq'[i])
       /\ \A i \in 1 .. Len(inq') + 1 : g[i] <= reqs'
  BY <1>2, <1>6, <1>7, <1>8, <1>9
<1> QED
  BY <1>11 DEF Asked, Count

\* A new connection has sent nothing and got nothing.
LEMMA InitIInv == Init => IInv
<1> SUFFICES ASSUME Init PROVE IInv
  OBVIOUS
<1>1. TypeOK
  <2>1. /\ reply \in BOOLEAN /\ client_gone \in BOOLEAN /\ exists \in BOOLEAN
        /\ isdir \in BOOLEAN
        /\ answering \in BOOLEAN /\ unlinked \in BOOLEAN /\ resized \in BOOLEAN
    BY Zenon DEF Init
  <2> QED
    BY <2>1, ConstantsType DEF Init, TypeOK, HsDone
<1>2. Core
  <2>1. ~reply /\ ~unlinked /\ exists
    BY DEF Init
  <2> QED
    BY <1>1, <2>1, ConstantsType DEF Init, Core, Control, Transfer, Counted, Owing,
       Phase, Position, Announced, Settled, Between, Disturbed, Answered, BodyInOrder,
       RightInterest, OwesFlight
<1> DEFINE z == [i \in 1 .. 1 |-> 0]
<1>3. Len(inq) = 0 /\ resp + lost + Owing = 0 /\ reqs = 0
  BY DEF Init, Owing
<1>4. z \in [1 .. 1 -> Nat] /\ \A i \in 1 .. 1 : z[i] = 0
  OBVIOUS
<1> HIDE DEF z
<1>5. z \in [1 .. Len(inq) + 1 -> Nat] /\ Count(z)
  BY <1>3, <1>4 DEF Count
<1>6. Asked
  BY <1>5 DEF Asked
<1> QED
  BY <1>2, <1>6 DEF IInv

\* Every step keeps the core.
LEMMA NextCore ==
  ASSUME Core, [Next]_vars
  PROVE  Core'
<1>1. CASE UNCHANGED vars
  BY <1>1 DEF vars, ctx, local, ssl, net, file, hist, Core, Control, Transfer, TypeOK,
     Counted, Owing, Phase, Position, Announced, Settled, Between, Disturbed, Answered,
     BodyInOrder, RightInterest, OwesFlight
<1>2. CASE Wake \/ NewFails \/ AcceptFlight \/ AcceptWant \/ AcceptFails \/ AcceptDone
  BY <1>2, AcceptStep
<1>3. CASE ReadWant \/ ReadReply \/ ReadData \/ ReadFails
  BY <1>3, ReadStep
<1>4. CASE \/ Request \/ RequestBad \/ Redirect \/ ErrPageFails \/ SendErrHead \/ SendErrPage
           \/ SendFails \/ \E etag \in Etag : SendHead(etag)
  BY <1>4, ResponseStep
<1>5. CASE FileOpen \/ FileMissing \/ SendChunk \/ ChunkBlocks \/ ChunkFails \/ FileDone
  BY <1>5, FileStep
<1>6. CASE (\E r \in In : ClientSends(r)) \/ ClientReads \/ ClientGoes \/ EditFile
  BY <1>6, OutsideStep
<1> QED
  BY <1>1, <1>2, <1>3, <1>4, <1>5, <1>6 DEF Next, Handler

\* Every step keeps the count of requests.
LEMMA NextAsked ==
  ASSUME Core, Core', Asked, [Next]_vars
  PROVE  Asked'
<1>0. TypeOK /\ TypeOK' /\ resp \in Nat /\ lost \in Nat /\ Owing \in Nat
  BY DEF Core, TypeOK, Owing
<1>1. CASE AcceptFlight \/ ReadReply
  <2>1. CASE inq' = inq
    BY <1>1, <2>1, AskedSame DEF AcceptFlight, ReadReply, local, hist, Owing
  <2>2. CASE inq # <<>> /\ Head(inq) \in {"hs", "rekey"} /\ inq' = Tail(inq)
    <3>1. Requests(Head(inq)) = 0
      BY <2>2 DEF Requests
    <3>2. resp' + lost' + Owing' = resp + lost + Owing
      BY <1>1 DEF AcceptFlight, ReadReply, local, hist, Owing
    <3> QED
      BY <1>0, <1>1, <2>2, <3>1, <3>2, AskedRead DEF AcceptFlight, ReadReply, hist
  <2> QED
    BY <1>1, <2>1, <2>2 DEF AcceptFlight, ReadReply
<1>2. CASE ReadData
  <2>1. /\ Requests("part") = 0 /\ Requests("end") = 1 /\ Requests("two") = 2
        /\ Owing = 0 /\ Owing' = IF Head(inq) = "part" THEN 0 ELSE 1
    BY <1>2 DEF ReadData, Requests, Owing
  <2>2. resp' + lost' + Owing' = resp + lost + Owing + Requests(Head(inq))
    BY <1>0, <1>2, <2>1 DEF ReadData, Data
  <2> QED
    BY <1>0, <1>2, <2>2, AskedRead DEF ReadData
<1>3. CASE \E r \in In : ClientSends(r)
  BY <1>0, <1>3, AskedMore
<1>4. CASE SendErrHead \/ \E etag \in Etag : SendHead(etag)
  <2>1. pc' = "closed" \/ (pc # "closed" /\ resp' + lost' + Owing' = resp + lost + Owing)
    BY <1>0, <1>4 DEF SendErrHead, SendHead, Respond, Close, Owing
  <2> QED
    BY <1>4, <2>1, AskedSame DEF SendErrHead, SendHead, Accepted
<1>5. CASE \/ Wake \/ AcceptWant \/ AcceptDone \/ ReadWant \/ Request \/ SendErrPage
           \/ FileOpen \/ FileMissing \/ SendChunk \/ ChunkBlocks \/ ChunkFails \/ FileDone
           \/ ClientReads \/ ClientGoes \/ EditFile \/ UNCHANGED vars
  <2>1. UNCHANGED <<inq, reqs, resp, lost>>
    BY <1>5 DEF Wake, AcceptWant, AcceptDone, ReadWant, Request, SendErrPage, FileOpen,
       FileMissing, SendChunk, ChunkBlocks, ChunkFails, FileDone, ClientReads,
       ClientGoes, EditFile, Accepted, net, hist, vars
  <2>2. pc' = "closed" \/ (pc # "closed" /\ Owing' = Owing)
    BY <1>5 DEF Wake, Entry, AcceptWant, AcceptDone, ReadWant, Request, SendErrPage,
       FileOpen, FileMissing, SendChunk, ChunkBlocks, ChunkFails, FileDone, ClientReads,
       ClientGoes, EditFile, Owing, local, vars
  <2> QED
    BY <2>1, <2>2, AskedSame
<1>6. CASE \/ NewFails \/ AcceptFails \/ ReadFails \/ RequestBad \/ ErrPageFails \/ Redirect
           \/ SendFails
  BY <1>6 DEF NewFails, AcceptFails, ReadFails, RequestBad, ErrPageFails, Redirect,
     SendFails, GiveUp, Close, Asked
<1> QED
  BY <1>1, <1>2, <1>3, <1>4, <1>5, <1>6 DEF Next, Handler

\* Every step keeps the invariant.
LEMMA NextIInv == IInv /\ [Next]_vars => IInv'
  BY NextCore, NextAsked DEF IInv

\* The invariant holds in every reachable state.
LEMMA InvHolds == Spec => []IInv
  BY InitIInv, NextIInv, PTL DEF Spec

\* Answered and lost requests, and the one in hand, were asked; and so is the next one.
LEMMA OneEach ==
  ASSUME IInv, pc # "closed"
  PROVE  /\ resp + lost + Owing <= reqs
         /\ inq # <<>> => resp + lost + Owing + Requests(inq[1]) <= reqs
<1>1. PICK f \in [1 .. Len(inq) + 1 -> Nat] : Count(f)
  BY DEF IInv, Asked
<1>2. Len(inq) \in Nat
  BY DEF IInv, Core
<1>3. f[1] = resp + lost + Owing /\ f[1] <= reqs
  BY <1>1, <1>2 DEF Count
<1>4. ASSUME inq # <<>>
      PROVE  f[2] = f[1] + Requests(inq[1]) /\ f[2] <= reqs
  <2>1. 1 \in 1 .. Len(inq) /\ 2 \in 1 .. Len(inq) + 1 /\ 1 + 1 = 2
    <3>1. Len(inq) # 0
      BY <1>4, EmptySeq DEF IInv, Core, TypeOK
    <3>2. \A n \in Nat : n # 0 => 1 \in 1 .. n /\ 2 \in 1 .. n + 1 /\ 1 + 1 = 2
      OBVIOUS
    <3> QED
      BY <1>2, <3>1, <3>2
  <2> QED
    BY <1>1, <2>1 DEF Count
<1> QED
  BY <1>3, <1>4

\* A new connection is a new stream.
LEMMA InitStream == Init => Stream!Init
  BY DEF Init, Stream!Init

\* Every step of the handler is a step of the stream, or none.
LEMMA StepStream ==
  ASSUME FilesFit, IInv, IInv', [Next]_vars
  PROVE  [Stream!Next]_Stream!vars
<1>0. /\ reqs \in Nat /\ lost \in Nat /\ resp \in Nat /\ clen \in 0 .. MaxChunks + 1
      /\ clen' \in 0 .. MaxChunks + 1 /\ Len(body) \in Nat
  BY ConstantsType DEF IInv, Core, Transfer, TypeOK, Announced
<1>1. CASE \E r \in In : ClientSends(r)
  <2>1. PICK r \in In : ClientSends(r)
    BY <1>1
  <2>2. Requests(r) \in {0, 1, 2}
    BY DEF Requests
  <2> QED
    BY <2>1, <2>2, <1>0
       DEF ClientSends, local, file, Stream!Next, Stream!Ask, Stream!vars
<1>2. CASE ReadData
  <2>1. CASE Head(inq) = "two"
    <3>1. resp + lost + 2 <= reqs
      BY <1>0, <1>2, <2>1, OneEach DEF ReadData, Owing, Requests
    <3>2. /\ pc' # "closed" /\ lost' = lost + 1
          /\ UNCHANGED <<reqs, resp, clen, body, file>>
      BY <1>2, <2>1 DEF ReadData
    <3> QED
      BY <1>0, <1>2, <3>1, <3>2
         DEF ReadData, file, Stream!Next, Stream!Drop, Stream!Outstanding
  <2>2. CASE Head(inq) # "two"
    BY <1>2, <2>2 DEF ReadData, file, Stream!vars
  <2> QED
    BY <2>1, <2>2
<1>3. CASE SendErrHead \/ Redirect \/ \E etag \in Etag : SendHead(etag)
  <2>1. /\ pc # "closed" /\ resp' = resp + 1 /\ body' = <<>>
        /\ UNCHANGED <<reqs, lost, file>>
        /\ Owing = 1 /\ ~client_gone /\ Between
    BY <1>3
       DEF SendErrHead, Redirect, SendHead, Respond, Owing, WriteOk, WriteFails, Between
  <2>2. Len(body) = clen \/ Disturbed
    BY <2>1 DEF IInv, Core, Transfer, Settled
  <2>3. reqs - lost - resp > 0
    BY <1>0, <2>1, OneEach
  <2>4. Stream!Respond
    BY <1>0, <2>1, <2>2, <2>3 DEF Stream!Respond, Stream!Outstanding, Disturbed, file
  <2> QED
    BY <2>4 DEF Stream!Next
<1>4. CASE SendErrPage \/ SendChunk
  <2>1. /\ pc # "closed" /\ UNCHANGED <<reqs, lost, resp, clen, file>>
        /\ \E c : body' = Append(body, c)
    BY <1>4 DEF SendErrPage, SendChunk
  <2>2. Len(body') = Len(body) + 1
    BY <2>1 DEF IInv, Core
  <2>3. resp > 0
    BY <1>0, <1>4 DEF SendErrPage, SendChunk, IInv, Core, Control, Answered
  <2>4. Len(body) < clen \/ Disturbed
    <3>1. CASE SendErrPage
      <4>1. body = <<>> /\ clen = 1
        BY <3>1 DEF SendErrPage, IInv, Core, Transfer, Announced
      <4> QED
        BY <4>1
    <3>2. CASE SendChunk
      <4>1. off = Len(body) /\ off < fsize /\ (resized \/ clen = fsize)
        BY <3>2 DEF SendChunk, AtEnd, IInv, Core, Transfer, TypeOK, Announced, Position
      <4> QED
        BY <4>1 DEF Disturbed
    <3> QED
      BY <1>4, <3>1, <3>2
  <2>5. Stream!Send
    BY <2>1, <2>2, <2>3, <2>4 DEF Stream!Send, Disturbed, file
  <2> QED
    BY <2>5 DEF Stream!Next
<1>5. CASE EditFile
  <2>1. Stream!Disturb
    BY <1>5 DEF EditFile, hist, local, Stream!Disturb
  <2> QED
    BY <2>1 DEF Stream!Next
<1>6. CASE \/ NewFails \/ AcceptFails \/ ReadFails \/ RequestBad \/ ErrPageFails \/ SendFails
  <2>1. pc' = "closed" /\ UNCHANGED <<reqs, lost, resp, clen, body, file>>
    BY <1>6 DEF NewFails, AcceptFails, ReadFails, RequestBad, ErrPageFails, SendFails,
       GiveUp, Close
  <2>2. Stream!Close
    BY <2>1 DEF file, Stream!Close
  <2> QED
    BY <2>2 DEF Stream!Next
<1>7. CASE \/ Wake \/ AcceptFlight \/ AcceptWant \/ AcceptDone \/ ReadWant \/ ReadReply
           \/ Request \/ FileOpen \/ FileMissing \/ ChunkBlocks \/ ChunkFails \/ FileDone
           \/ ClientReads \/ ClientGoes \/ UNCHANGED vars
  <2>1. UNCHANGED <<reqs, lost, resp, clen, body, file>>
    BY <1>7 DEF Wake, AcceptFlight, AcceptWant, AcceptDone, ReadWant, ReadReply,
       Request, FileOpen, FileMissing, ChunkBlocks, ChunkFails, FileDone, ClientReads,
       ClientGoes, hist, vars
  <2>2. (pc' # "closed") = (pc # "closed")
    BY <1>7 DEF Wake, Entry, AcceptFlight, AcceptWant, AcceptDone, ReadWant, ReadReply,
       Request, FileOpen, FileMissing, ChunkBlocks, ChunkFails, FileDone, ClientReads,
       ClientGoes, local, vars
  <2> QED
    BY <2>1, <2>2 DEF file, Stream!vars
<1> QED
  BY <1>1, <1>2, <1>3, <1>4, <1>5, <1>6, <1>7 DEF Next, Handler

\* If no file is larger than 2 GiB, what a client of port 443 sees is a stream of HttpStream:
\* every head _fws_443_run sends answers a request of its own, and none comes before the body
\* announced last is complete, unless the file was removed, changed size or is a directory.
THEOREM StreamImplemented ==
  ASSUME FilesFit
  PROVE  Spec => AnswersInTurn
<1>1. IInv /\ IInv' /\ [Next]_vars => [Stream!Next]_Stream!vars
  BY StepStream
<1> QED
  BY InitStream, InvHolds, <1>1, PTL DEF Spec, AnswersInTurn, Stream!Spec

\* Offsets and lengths of a transfer stay within the file, and counts within what was
\* sent, on every path of the handler.
THEOREM TypeOKHolds == Spec => []TypeOK
<1>1. IInv => TypeOK
  BY DEF IInv, Core, Control
<1> QED
  BY InvHolds, <1>1, PTL

\* If no file is larger than 2 GiB: however often net_443_file_write is stopped by a full
\* socket and resumed, the client gets the chunks from the first one on, none missing and
\* none twice.
THEOREM BodyInOrderHolds ==
  ASSUME FilesFit
  PROVE  Spec => []BodyInOrder
<1>1. IInv => BodyInOrder
  BY DEF IInv, Core, Transfer
<1> QED
  BY InvHolds, <1>1, PTL

\* _fws_443_run returns with the interest of the event it has to wait for.
THEOREM RightInterestHolds == Spec => []RightInterest
<1>1. IInv => RightInterest
  BY DEF IInv, Core, Control
<1> QED
  BY InvHolds, <1>1, PTL
==============================================================================
