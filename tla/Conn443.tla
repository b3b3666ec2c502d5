------------------------------- MODULE Conn443 -------------------------------
(***************************************************************************)
(* One HTTPS connection: _fws_443_run with net_443_read, net_443_write,    *)
(* net_443_file_write, net_443_res_write and net_443_err_write, over a     *)
(* non-blocking socket.  The handler runs until it closes the connection   *)
(* or until OpenSSL wants to read or write; then it saves where it was in  *)
(* fws_data_ctx, asks epoll for the event it waits for and returns.  The   *)
(* client, and whoever edits the web root, act between any two calls.      *)
(*                                                                         *)
(* OpenSSL (external): a write goes out as one record or blocks; a blocked *)
(* record is kept and only a retry from the same buffer may finish it, any *)
(* other write fails (bad write retry).  File sizes are in 4096-byte       *)
(* chunks, the socket's send buffer in records.                            *)
(***************************************************************************)
EXTENDS Integers, Sequences

CONSTANTS
  MaxChunks,   \* largest file, in chunks
  Int32Chunks, \* chunks in 2^31 bytes, the first size an s32 does not hold (2^19)
  SndCap,      \* records the socket's send buffer holds
  ReqCap,      \* records that fill req_buf (8192 bytes)
  MaxIn,       \* bound: records the client sends
  MaxEdits     \* bound: changes of the served file

ASSUME ConstantsType ==
  /\ MaxChunks \in Nat
  /\ Int32Chunks \in Nat \ {0}
  /\ SndCap \in Nat \ {0}
  /\ ReqCap \in Nat \ {0}
  /\ MaxIn \in Nat
  /\ MaxEdits \in Nat

VARIABLES
  \* struct fws_data_ctx
  ssl_status, want_write, file_len, acc_read_n,
  interest,    \* the event registered with epoll: "IN" or "OUT"
  \* the handler: where it is, file.size, and its position in the open file
  pc, file_size, off,
  \* OpenSSL
  hs,          \* handshake flights done: client, server, client, server
  reply,       \* SSL_read has to send a reply first
  wpend,       \* buffer of the blocked record: "none", "file" or "other"
  wchunk,      \* the chunk in that record
  \* network
  inq, snd, client_gone, n_in,
  \* the served file
  exists, fsize, n_edits,
  isdir,       \* it is a directory: of one block, and nothing can be read
  \* history
  reqs,        \* complete requests the client sent
  lost,        \* requests dropped with the record that ended the one before
  resp,        \* response heads sent
  clen,        \* Content-Length of the last head, in chunks
  body,        \* chunks sent after it
  answering,   \* the handler owes a response to a request it has read
  unlinked, resized

ctx == <<ssl_status, want_write, file_len, acc_read_n, interest>>
local == <<pc, file_size, off>>
ssl == <<hs, reply, wpend, wchunk>>
net == <<inq, snd, client_gone, n_in>>
file == <<exists, fsize, n_edits, isdir, unlinked, resized>>
hist == <<reqs, lost, resp, clen, body, answering>>
vars == <<ctx, local, ssl, net, file, hist>>

\* What the client's TLS records carry: handshake, part of a request, its end,
\* its end and a whole second request, something OpenSSL replies to,
\* close_notify.
In == {"hs", "part", "end", "two", "rekey", "close"}
Data == {"part", "end", "two"}
Requests(r) == CASE r = "two" -> 2 [] r = "end" -> 1 [] OTHER -> 0

HsDone == 4
NeedsFlight == hs \in {0, 2}
OwesFlight == hs \in {1, 3}

Init ==
  /\ ssl_status = "NEW" /\ want_write = 0 /\ file_len = 0 /\ acc_read_n = 0
  /\ interest = "IN"
  /\ pc = "idle" /\ file_size = 0 /\ off = 0
  /\ hs = 0 /\ reply = FALSE /\ wpend = "none" /\ wchunk = 0
  /\ inq = <<>> /\ snd = 0 /\ client_gone = FALSE /\ n_in = 0
  /\ exists = TRUE /\ fsize \in 0 .. MaxChunks /\ n_edits = 0
  /\ isdir \in BOOLEAN /\ (isdir => fsize = 1)
  /\ reqs = 0 /\ lost = 0 /\ resp = 0 /\ clen = 0 /\ body = <<>> /\ answering = FALSE
  /\ unlinked = FALSE /\ resized = FALSE

------------------------------------------------------------------------------
\* epoll and the entry of the handler.

Ready ==
  \/ client_gone
  \/ interest = "IN" /\ inq # <<>>
  \/ interest = "OUT" /\ snd < SndCap

Entry ==
  IF ssl_status # "ACCEPT" THEN "accept"
  ELSE IF want_write = 1 THEN "file"
  ELSE "read"

Wake ==
  /\ pc = "idle"
  /\ Ready
  /\ pc' = Entry
  /\ want_write' = IF Entry = "file" THEN 0 ELSE want_write
  /\ UNCHANGED <<ssl_status, file_len, acc_read_n, interest, file_size, off, ssl, net, file, hist>>

\* The label "out" with ret <= 0: everything of the connection is released.
Close ==
  /\ pc' = "closed"
  /\ answering' = FALSE

------------------------------------------------------------------------------
\* SSL_accept.

AcceptFlight ==
  /\ pc = "accept"
  /\ ~client_gone
  /\ \/ /\ NeedsFlight /\ inq # <<>> /\ Head(inq) = "hs"
        /\ inq' = Tail(inq) /\ UNCHANGED snd
     \/ /\ OwesFlight /\ snd < SndCap
        /\ snd' = snd + 1 /\ UNCHANGED inq
  /\ hs' = hs + 1
  /\ UNCHANGED <<ctx, local, reply, wpend, wchunk, client_gone, n_in, file, hist>>

AcceptWant ==
  /\ pc = "accept"
  /\ ~client_gone
  /\ \/ NeedsFlight /\ inq = <<>> /\ ssl_status' = "WANT_READ" /\ interest' = "IN"
     \/ OwesFlight /\ snd = SndCap /\ ssl_status' = "WANT_WRITE" /\ interest' = "OUT"
  /\ pc' = "idle"
  /\ UNCHANGED <<want_write, file_len, acc_read_n, file_size, off, ssl, net, file, hist>>

\* SSL_new or SSL_set_fd fails on the first event.
NewFails ==
  /\ pc = "accept"
  /\ ssl_status = "NEW"
  /\ Close
  /\ UNCHANGED <<ctx, file_size, off, ssl, net, file, reqs, lost, resp, clen, body>>

AcceptFails ==
  /\ pc = "accept"
  /\ \/ client_gone
     \/ NeedsFlight /\ inq # <<>> /\ Head(inq) # "hs"
  /\ ssl_status' = "INIT"
  /\ Close
  /\ UNCHANGED <<want_write, file_len, acc_read_n, interest, file_size, off, ssl, net, file,
                 reqs, lost, resp, clen, body>>

AcceptDone ==
  /\ pc = "accept"
  /\ ~client_gone
  /\ hs = HsDone
  /\ ssl_status' = "ACCEPT"
  /\ interest' = "IN"
  /\ pc' = "read"
  /\ UNCHANGED <<want_write, file_len, acc_read_n, file_size, off, ssl, net, file, hist>>

------------------------------------------------------------------------------
\* net_443_read, one SSL_read per step.

Bug_ReadInterest == "IN"

\* The event net_443_read leaves registered when SSL_read gave no data.
ReadInterest == IF reply THEN "OUT" ELSE "IN"

\* SSL_read has no data: the handler returns with ret = 1.
ReadWant ==
  /\ pc = "read"
  /\ ~client_gone
  /\ \/ ~reply /\ inq = <<>>
     \/ reply /\ snd = SndCap
  /\ interest' = ReadInterest
  /\ pc' = "idle"
  /\ UNCHANGED <<ssl_status, want_write, file_len, acc_read_n, file_size, off, ssl, net, file, hist>>

\* Protocol traffic inside SSL_read.
ReadReply ==
  /\ pc = "read"
  /\ ~client_gone
  /\ \/ /\ reply /\ snd < SndCap
        /\ reply' = FALSE /\ snd' = snd + 1 /\ UNCHANGED inq
     \/ /\ ~reply /\ inq # <<>> /\ Head(inq) = "rekey"
        /\ reply' = TRUE /\ inq' = Tail(inq) /\ UNCHANGED snd
  /\ UNCHANGED <<ctx, local, hs, wpend, wchunk, client_gone, n_in, file, hist>>

Bug_ReqFits == acc_read_n < ReqCap

\* One more record leaves room in req_buf.
ReqFits == acc_read_n + 1 < ReqCap

\* Application data; the request is complete once its end was read, and what
\* follows in req_buf is forgotten.
ReadData ==
  /\ pc = "read"
  /\ ~client_gone
  /\ ~reply
  /\ inq # <<>>
  /\ Head(inq) \in Data
  /\ ReqFits
  /\ inq' = Tail(inq)
  /\ lost' = IF Head(inq) = "two" THEN lost + 1 ELSE lost
  /\ IF Head(inq) # "part"
     THEN acc_read_n' = 0 /\ pc' = "request" /\ interest' = "IN" /\ answering' = TRUE
     ELSE acc_read_n' = acc_read_n + 1 /\ UNCHANGED <<pc, interest, answering>>
  /\ UNCHANGED <<ssl_status, want_write, file_len, file_size, off, ssl, snd, client_gone, n_in,
                 file, reqs, resp, clen, body>>

\* End of stream, protocol error, or a request that fills req_buf.
ReadFails ==
  /\ pc = "read"
  /\ \/ client_gone
     \/ /\ ~reply /\ inq # <<>>
        /\ \/ Head(inq) \in {"close", "hs"}
           \/ Head(inq) \in Data /\ ~ReqFits
  /\ want_write' = 0 /\ file_len' = 0 /\ acc_read_n' = 0 /\ interest' = "IN"
  /\ Close
  /\ UNCHANGED <<ssl_status, file_size, off, ssl, net, file, reqs, lost, resp, clen, body>>

------------------------------------------------------------------------------
\* SSL_write of one record from buffer buf, and the interest net_443_write
\* leaves behind.

WriteFails(buf) == client_gone \/ wpend \notin {"none", buf}
WriteOk(buf) == ~WriteFails(buf) /\ snd < SndCap
WriteWant(buf) == ~WriteFails(buf) /\ snd = SndCap

Accepted ==
  /\ snd' = snd + 1
  /\ wpend' = "none"
  /\ interest' = "IN"
  /\ UNCHANGED <<hs, reply, wchunk, inq, client_gone, n_in>>

\* A head or an error page that cannot be written at once closes the
\* connection.
GiveUp ==
  /\ WriteFails("other") \/ WriteWant("other")
  /\ interest' = IF WriteWant("other") THEN "OUT" ELSE "IN"
  /\ wpend' = IF WriteWant("other") THEN "other" ELSE wpend
  /\ Close
  /\ UNCHANGED <<ssl_status, want_write, file_len, acc_read_n, file_size, off, hs, reply, wchunk,
                 net, file, reqs, lost, resp, clen, body>>

\* A head announcing n chunks went out.
Respond(n) ==
  /\ resp' = resp + 1
  /\ clen' = n
  /\ body' = <<>>

------------------------------------------------------------------------------
\* From the parsed request to its response.  The limiter's verdict and the file
\* lookup are inputs: an existing file is served, redirected or refused, a
\* missing one is refused.

Request ==
  /\ pc = "request"
  /\ \/ exists /\ pc' = "head" /\ file_size' = fsize
     \/ pc' \in {"err1", "dos1", "redir"} /\ UNCHANGED file_size
  /\ UNCHANGED <<ctx, off, ssl, net, file, hist>>

\* The path is too long or leaves the web root: closed without an answer.
RequestBad ==
  /\ pc = "request"
  /\ Close
  /\ UNCHANGED <<ctx, file_size, off, ssl, net, file, reqs, lost, resp, clen, body>>

\* net_http_path_redir: one write, its result ignored, then closed.
Redirect ==
  /\ pc = "redir"
  /\ WriteOk("other")
  /\ Accepted
  /\ Respond(0)
  /\ Close
  /\ UNCHANGED <<ssl_status, want_write, file_len, acc_read_n, file_size, off, file, reqs, lost>>

\* What If-None-Match says of the file: nothing, its ETag, an older one.
Etag == {"none", "current", "old"}

\* _get_etag found the file and the client has it already.
NotModified(etag) == exists /\ etag = "current"

\* The two ETags are equal.  The one of a file that is gone by now is empty, as
\* is the client's if it sent none.
EtagsEqual(etag) == NotModified(etag) \/ (~exists /\ etag = "none")

\* net_443_res_write: 304 if the ETags are equal, with no body announced.  The
\* caller closes the connection only if the file was there to be compared.
SendHead(etag) ==
  /\ pc = "head"
  /\ WriteOk("other")
  /\ Accepted
  /\ Respond(IF EtagsEqual(etag) THEN 0 ELSE file_size)
  /\ IF NotModified(etag)
     THEN Close
     ELSE pc' = "file" /\ UNCHANGED answering
  /\ UNCHANGED <<ssl_status, want_write, file_len, acc_read_n, file_size, off, file, reqs, lost>>

\* net_443_err_write: head and page are two writes.

\* The template of the page cannot be read: closed without an answer.
ErrPageFails ==
  /\ pc \in {"err1", "dos1"}
  /\ Close
  /\ UNCHANGED <<ctx, file_size, off, ssl, net, file, reqs, lost, resp, clen, body>>

SendErrHead ==
  /\ pc \in {"err1", "dos1"}
  /\ WriteOk("other")
  /\ Accepted
  /\ Respond(1)
  /\ pc' = IF pc = "err1" THEN "err2" ELSE "dos2"
  /\ UNCHANGED <<ssl_status, want_write, file_len, acc_read_n, file_size, off, file, reqs, lost, answering>>

SendErrPage ==
  /\ pc \in {"err2", "dos2"}
  /\ WriteOk("other")
  /\ Accepted
  /\ body' = Append(body, 0)
  /\ IF pc = "dos2" THEN pc' = "closed" ELSE pc' = "read"
  /\ answering' = FALSE
  /\ UNCHANGED <<ssl_status, want_write, file_len, acc_read_n, file_size, off, file, reqs, lost, resp, clen>>

SendFails ==
  /\ pc \in {"redir", "head", "err1", "err2", "dos1", "dos2"}
  /\ GiveUp

------------------------------------------------------------------------------
\* net_443_file_write.

\* open and lseek to where the last call stopped, if file_len is positive.
FileOpen ==
  /\ pc = "file"
  /\ exists
  /\ off' = IF file_len > 0 THEN file_len ELSE 0
  /\ pc' = "chunk"
  /\ UNCHANGED <<ctx, file_size, ssl, net, file, hist>>

\* The file is gone: -1, which the caller does not look at; file_len stays.
FileMissing ==
  /\ pc = "file"
  /\ ~exists
  /\ pc' = "read"
  /\ answering' = FALSE
  /\ UNCHANGED <<ctx, file_size, off, ssl, net, file, reqs, lost, resp, clen, body>>

Bug_AtEnd == off + 1 >= fsize

\* read() <= 0: the end of the file as it is now, or the failing read of a
\* directory, which is not told from it.
AtEnd == isdir \/ off >= fsize

\* A retried record carries the chunk it was made of.
SendChunk ==
  /\ pc = "chunk"
  /\ ~AtEnd
  /\ WriteOk("file")
  /\ Accepted
  /\ body' = Append(body, IF wpend = "file" THEN wchunk ELSE off)
  /\ off' = off + 1
  /\ UNCHANGED <<ssl_status, want_write, file_len, acc_read_n, pc, file_size, file,
                 reqs, lost, resp, clen, answering>>

\* A position in an s32.
S32(n) == ((n + Int32Chunks) % (2 * Int32Chunks)) - Int32Chunks

Bug_ResumeAt == S32(off + 1)

\* Where the transfer resumes: at the chunk that blocked, for the retry.
ResumeAt == S32(off)

Bug_BlockedInterest == "IN"

\* The event net_443_write asks for when SSL_write blocks.
BlockedInterest == "OUT"

\* The socket is full: the position is saved and the handler returns.
ChunkBlocks ==
  /\ pc = "chunk"
  /\ ~AtEnd
  /\ WriteWant("file")
  /\ file_len' = ResumeAt
  /\ want_write' = 1
  /\ interest' = BlockedInterest
  /\ wpend' = "file"
  /\ wchunk' = IF wpend = "file" THEN wchunk ELSE off
  /\ pc' = "idle"
  /\ UNCHANGED <<ssl_status, acc_read_n, file_size, off, hs, reply, net, file, hist>>

ChunkFails ==
  /\ pc = "chunk"
  /\ ~AtEnd
  /\ WriteFails("file")
  /\ file_len' = 0
  /\ interest' = "IN"
  /\ pc' = "read"
  /\ answering' = FALSE
  /\ UNCHANGED <<ssl_status, want_write, acc_read_n, file_size, off, ssl, net, file, reqs, lost, resp,
                 clen, body>>

FileDone ==
  /\ pc = "chunk"
  /\ AtEnd
  /\ file_len' = 0
  /\ pc' = "read"
  /\ answering' = FALSE
  /\ UNCHANGED <<ssl_status, want_write, acc_read_n, interest, file_size, off, ssl, net, file,
                 reqs, lost, resp, clen, body>>

------------------------------------------------------------------------------
\* The client and the web root.

ClientSends(r) ==
  /\ pc # "closed"
  /\ ~client_gone
  /\ n_in < MaxIn
  /\ inq # <<>> => inq[Len(inq)] # "close"
  /\ inq' = Append(inq, r)
  /\ n_in' = n_in + 1
  /\ reqs' = reqs + Requests(r)
  /\ UNCHANGED <<ctx, local, ssl, snd, client_gone, file, lost, resp, clen, body, answering>>

ClientReads ==
  /\ snd > 0
  /\ ~client_gone
  /\ snd' = snd - 1
  /\ UNCHANGED <<ctx, local, ssl, inq, client_gone, n_in, file, hist>>

ClientGoes ==
  /\ pc # "closed"
  /\ ~client_gone
  /\ client_gone' = TRUE
  /\ UNCHANGED <<ctx, local, ssl, inq, snd, n_in, file, hist>>

\* The file is removed, or comes back or changes with another size; a directory
\* is left alone.
EditFile ==
  /\ pc # "closed"
  /\ ~isdir
  /\ n_edits < MaxEdits
  /\ n_edits' = n_edits + 1
  /\ \/ /\ exists /\ exists' = FALSE /\ unlinked' = TRUE
        /\ UNCHANGED <<fsize, resized>>
     \/ /\ exists' = TRUE /\ resized' = TRUE
        /\ fsize' \in 0 .. MaxChunks
        /\ UNCHANGED unlinked
  /\ UNCHANGED <<ctx, local, ssl, net, isdir, hist>>

------------------------------------------------------------------------------
Handler ==
  \/ NewFails \/ AcceptFlight \/ AcceptWant \/ AcceptFails \/ AcceptDone
  \/ ReadWant \/ ReadReply \/ ReadData \/ ReadFails
  \/ Request \/ RequestBad \/ Redirect \/ ErrPageFails \/ SendErrHead \/ SendErrPage \/ SendFails
  \/ \E etag \in Etag : SendHead(etag)
  \/ FileOpen \/ FileMissing \/ SendChunk \/ ChunkBlocks \/ ChunkFails \/ FileDone

Next ==
  \/ Wake
  \/ Handler
  \/ \E r \in In : ClientSends(r)
  \/ ClientReads
  \/ ClientGoes
  \/ EditFile

Spec == Init /\ [][Next]_vars

\* The worker runs the handler to its end and epoll reports a ready socket; the
\* client goes on reading what it is sent.
FairSpec == Spec /\ WF_vars(Handler) /\ WF_vars(Wake) /\ WF_vars(ClientReads)

------------------------------------------------------------------------------
\* Properties.

TypeOK ==
  /\ ssl_status \in {"NEW", "INIT", "ACCEPT", "WANT_READ", "WANT_WRITE"}
  /\ want_write \in {0, 1} /\ file_len \in -Int32Chunks .. Int32Chunks - 1
  /\ file_len <= MaxChunks
  /\ acc_read_n \in 0 .. ReqCap - 1
  /\ interest \in {"IN", "OUT"}
  /\ pc \in {"idle", "accept", "read", "request", "redir", "head", "err1", "err2",
             "dos1", "dos2", "file", "chunk", "closed"}
  /\ file_size \in 0 .. MaxChunks /\ off \in 0 .. MaxChunks
  /\ hs \in 0 .. HsDone /\ reply \in BOOLEAN
  /\ wpend \in {"none", "file", "other"} /\ wchunk \in 0 .. MaxChunks
  /\ inq \in Seq(In) /\ snd \in 0 .. SndCap /\ client_gone \in BOOLEAN
  /\ n_in \in 0 .. MaxIn
  /\ exists \in BOOLEAN /\ fsize \in 0 .. MaxChunks /\ n_edits \in 0 .. MaxEdits
  /\ isdir \in BOOLEAN
  /\ reqs \in 0 .. 2 * MaxIn /\ lost \in 0 .. MaxIn /\ resp \in 0 .. MaxIn /\ clen \in Nat /\ body \in Seq(Nat)
  /\ answering \in BOOLEAN /\ unlinked \in BOOLEAN /\ resized \in BOOLEAN

\* No file is larger than 2 GiB.
FilesFit == MaxChunks <= Int32Chunks

\* However often the transfer of a file (of no more than 2 GiB: FilesFit) is
\* interrupted by a full socket and resumed by a later event, the client gets its chunks from the first one on,
\* none missing and none twice; and never more than announced, unless the file
\* changed size meanwhile.  Holds for every response, also after a transfer that
\* was broken off.
BodyInOrder ==
  /\ \A i \in 1 .. Len(body) : body[i] = i - 1
  /\ ~resized => Len(body) <= clen

\* Responses come in turn: each to a request of its own, and none before the
\* body of the one before is complete, or the client would take its head for a
\* piece of that body.  Only a file that is edited under the transfer, or a
\* directory, which is announced with its size and has no body, breaks this:
\* _fws_443_run does not look at the error of net_443_file_write and goes on to
\* the next request.  A request is lost only behind another one in its record.
Stream == INSTANCE HttpStream WITH
            MaxLen <- MaxChunks + 1, asked <- reqs, dropped <- lost, heads <- resp,
            due <- clen, sent <- Len(body),
            disturbed <- unlinked \/ resized \/ isdir, open <- pc # "closed"
AnswersInTurn == Stream!Spec

\* The handler never sleeps on the wrong event: it returns with EPOLLOUT exactly
\* when a write is what it has to finish first.
RightInterest ==
  pc = "idle" =>
    (interest = "OUT" <=> want_write = 1 \/ reply \/ OwesFlight)

\* Every request of a client that goes on reading is answered in full or the
\* connection is closed, unless the file was changed under the transfer or the
\* request came in one record with the one before; no request waits for an event
\* that nobody will send.
Owed == reqs > resp + lost \/ answering \/ (Len(body) # clen /\ ~isdir)
RequestsAnswered == Owed ~> (~Owed \/ pc = "closed" \/ unlinked \/ resized)
==============================================================================
