------------------------------- MODULE LogPipe -------------------------------
(***************************************************************************)
(* The pipe from the worker (child) to the privileged parent.  The worker  *)
(* writes NUL-terminated records, "1<address>" to have an address banned   *)
(* and "2<text>" to have a line logged; fws_parent_run drains the pipe     *)
(* into read_buf and then executes the records one after the other.        *)
(*                                                                         *)
(* A record is a run of cells, its last cell the NUL.  The drain reads     *)
(* every chunk to the START of read_buf while read_acc adds the chunks up, *)
(* so only a drain of one chunk hands the dispatch what was sent.          *)
(***************************************************************************)
EXTENDS Naturals, Sequences

CONSTANTS
  BanLen,   \* cells of a ban record, NUL included
  LogLen,   \* cells of a log record, NUL included
  BufCap,   \* sizeof(read_buf) (8192)
  PipeCap,  \* capacity of the pipe
  MaxRec,   \* bound: records the worker writes
  MaxErr,   \* bound: failing read() calls
  Nul       \* the NUL cell

ASSUME ConstantsType ==
  /\ BanLen \in Nat \ {0, 1}
  /\ LogLen \in Nat \ {0, 1}
  /\ BufCap \in Nat \ {0, 1}
  /\ PipeCap \in Nat
  /\ MaxRec \in Nat
  /\ MaxErr \in Nat

VARIABLES
  child_up,  \* the worker still holds the write end
  parent_wr, \* the parent still holds its copy of the write end
  pipe,      \* cells in the pipe
  n_rec,     \* records the worker tried to write
  n_err,     \* failing reads so far
  pc,        \* where fws_parent_run is
  hup,       \* EPOLLHUP in ep_event.events
  read_buf,
  read_acc,
  read_flag,
  p,         \* offset of the next record in read_buf
  chunks,    \* history: chunks taken in this drain
  sent,      \* history: cells the pipe accepted
  taken,     \* history: cells the dispatch executed or skipped over
  done,      \* history: records executed as they were sent, in order
  spoiled    \* history: a drain took two chunks, or was thrown away

child == <<child_up, n_rec, sent>>
parent == <<parent_wr, n_err, pc, hup, read_buf, read_acc, read_flag, p, chunks,
            taken, done, spoiled>>
vars == <<child, parent, pipe>>

Kind == {"ban", "log"}
Record == [kind : Kind, n : 1 .. MaxRec]
RecLen(r) == IF r.kind = "ban" THEN BanLen ELSE LogLen
Cell == [rec : Record, at : Nat] \cup {Nul}

\* NUL occurs in no text.
ASSUME NulAssumption == Nul \notin [rec : Record, at : Nat]

Cells(r) ==
  [i \in 1 .. RecLen(r) |-> IF i = RecLen(r) THEN Nul ELSE [rec |-> r, at |-> i]]

ZeroBuf == [i \in 1 .. BufCap |-> Nul]

------------------------------------------------------------------------------
\* The worker.  Writes are non-blocking and below PIPE_BUF: all or nothing.
\* A write that does not fit, or finds no reader, is dropped.

Room(r) == pc # "closed" /\ Len(pipe) + RecLen(r) <= PipeCap

Write(kind) ==
  LET r == [kind |-> kind, n |-> n_rec + 1]
  IN /\ child_up
     /\ n_rec < MaxRec
     /\ n_rec' = n_rec + 1
     /\ IF Room(r)
        THEN /\ pipe' = pipe \o Cells(r)
             /\ sent' = sent \o Cells(r)
        ELSE UNCHANGED <<pipe, sent>>
     /\ UNCHANGED <<child_up, parent>>

ChildExit ==
  /\ child_up
  /\ child_up' = FALSE
  /\ UNCHANGED <<n_rec, sent, pipe, parent>>

------------------------------------------------------------------------------
\* The parent.

Writers == child_up \/ parent_wr

Bug_Start ==
  /\ pc = "start"
  /\ pc' = "wait"
  /\ UNCHANGED <<parent_wr, child, pipe, n_err, hup, read_buf, read_acc, read_flag,
                 p, chunks, taken, done, spoiled>>

\* It closes its own write end first, without which no EOF would ever come.
Start ==
  /\ pc = "start"
  /\ parent_wr' = FALSE
  /\ pc' = "wait"
  /\ UNCHANGED <<child, pipe, n_err, hup, read_buf, read_acc, read_flag, p, chunks,
                 taken, done, spoiled>>

Bug_FreshBuf == read_buf

FreshBuf == ZeroBuf

\* epoll_wait reports data or hang-up; read_buf is a fresh, zeroed buffer.
Wait ==
  /\ pc = "wait"
  /\ pipe # <<>> \/ ~Writers
  /\ pc' = "drain"
  /\ hup' = ~Writers
  /\ read_buf' = FreshBuf
  /\ read_acc' = 0
  /\ read_flag' = 0
  /\ chunks' = 0
  /\ UNCHANGED <<child, pipe, parent_wr, n_err, p, taken, done, spoiled>>

\* epoll_wait is interrupted by SIGINT or SIGTERM: the loop ends.
Interrupted ==
  /\ pc = "wait"
  /\ pc' = "closed"
  /\ UNCHANGED <<child, pipe, parent_wr, n_err, hup, read_buf, read_acc, read_flag,
                 p, chunks, taken, done, spoiled>>

Bug_ChunkLen == IF Len(pipe) <= BufCap THEN Len(pipe) ELSE BufCap

\* Cells one read() returns: at most sizeof(read_buf) - 1.
ChunkLen == IF Len(pipe) < BufCap THEN Len(pipe) ELSE BufCap - 1

Bug_ReadInto(n) ==
  SubSeq(read_buf, 1, read_acc) \o SubSeq(pipe, 1, n)
    \o SubSeq(read_buf, read_acc + n + 1, BufCap)

\* read() stores at the start of read_buf, over what is there.
ReadInto(n) == SubSeq(pipe, 1, n) \o SubSeq(read_buf, n + 1, BufCap)

\* One read() of the drain loop.
ReadChunk ==
  LET n == ChunkLen
  IN /\ pc = "drain"
     /\ pipe # <<>>
     /\ read_buf' = ReadInto(n)
     /\ pipe' = SubSeq(pipe, n + 1, Len(pipe))
     /\ read_acc' = read_acc + n
     /\ chunks' = chunks + 1
     /\ spoiled' = (spoiled \/ chunks > 0)
     /\ UNCHANGED <<child, parent_wr, n_err, pc, hup, read_flag, p, taken, done>>

\* read() = 0: no writer is left; the loop ends and what the drain holds is
\* thrown away.
ReadEof ==
  /\ pc = "drain"
  /\ pipe = <<>>
  /\ ~Writers
  /\ read_flag' = 2
  /\ pc' = "closed"
  /\ spoiled' = (spoiled \/ read_acc > 0)
  /\ UNCHANGED <<child, pipe, parent_wr, n_err, hup, read_buf, read_acc, p, chunks,
                 taken, done>>

\* read() fails otherwise: hang-up ends the loop, else the drain goes on and
\* will be thrown away.
ReadFails ==
  /\ pc = "drain"
  /\ n_err < MaxErr
  /\ n_err' = n_err + 1
  /\ IF hup
     THEN /\ read_flag' = 2
          /\ pc' = "closed"
     ELSE /\ read_flag' = 1
          /\ UNCHANGED pc
  /\ spoiled' = TRUE
  /\ UNCHANGED <<child, pipe, parent_wr, hup, read_buf, read_acc, p, chunks, taken,
                 done>>

\* EAGAIN: the pipe is empty and somebody may still write.  The terminating
\* NUL is stored at read_buf[read_acc], which lies outside the buffer if the
\* chunks together filled it.
ReadAgain ==
  /\ pc = "drain"
  /\ pipe = <<>>
  /\ Writers
  /\ pc' = IF read_flag = 1
           THEN "wait"
           ELSE IF read_acc < BufCap THEN "dispatch" ELSE "undef"
  /\ p' = 1
  /\ read_buf' = IF read_flag = 0 /\ read_acc < BufCap
                 THEN [read_buf EXCEPT ![read_acc + 1] = Nul]
                 ELSE read_buf
  /\ UNCHANGED <<child, pipe, parent_wr, n_err, hup, read_acc, read_flag, chunks,
                 taken, done, spoiled>>

\* strnlen(p, read_acc)
NulOffsets == {i \in 0 .. read_acc - 1 : read_buf[p + i] = Nul}
strnlen ==
  IF NulOffsets = {}
  THEN read_acc
  ELSE CHOOSE i \in NulOffsets : \A j \in NulOffsets : i <= j

\* What the first character of a record makes the dispatch do.  Inside a
\* record any character is possible, a '1' or a '2' among them.
Headers(cell) ==
  IF cell = Nul THEN {"other"}
  ELSE IF cell.at = 1 THEN {cell.rec.kind}
  ELSE Kind \cup {"other"}

Intact == /\ read_buf[p] # Nul
          /\ p + strnlen <= BufCap
          /\ SubSeq(read_buf, p, p + strnlen) = Cells(read_buf[p].rec)

\* One record: the ban or the log write, then on past the NUL.
Dispatch ==
  /\ pc = "dispatch"
  /\ read_acc > 0
  /\ \E h \in Headers(read_buf[p]) \cap Kind :
       /\ done' = IF Intact THEN Append(done, read_buf[p].rec) ELSE done
       /\ taken' = taken \o SubSeq(read_buf, p, p + strnlen)
       /\ p' = p + strnlen + 1
       /\ read_acc' = IF read_acc > strnlen THEN read_acc - (strnlen + 1) ELSE 0
  /\ UNCHANGED <<child, pipe, parent_wr, n_err, pc, hup, read_buf, read_flag, chunks,
                 spoiled>>

\* "unknown header": the rest of the drain is dropped.
Unknown ==
  /\ pc = "dispatch"
  /\ read_acc > 0
  /\ "other" \in Headers(read_buf[p])
  /\ pc' = "wait"
  /\ UNCHANGED <<child, pipe, parent_wr, n_err, hup, read_buf, read_acc, read_flag, p,
                 chunks, taken, done, spoiled>>

Drained ==
  /\ pc = "dispatch"
  /\ read_acc = 0
  /\ pc' = "wait"
  /\ UNCHANGED <<child, pipe, parent_wr, n_err, hup, read_buf, read_acc, read_flag, p,
                 chunks, taken, done, spoiled>>

------------------------------------------------------------------------------
Init ==
  /\ child_up = TRUE
  /\ parent_wr = TRUE
  /\ pipe = <<>>
  /\ n_rec = 0
  /\ n_err = 0
  /\ pc = "start"
  /\ hup = FALSE
  /\ read_buf = ZeroBuf
  /\ read_acc = 0
  /\ read_flag = 0
  /\ p = 1
  /\ chunks = 0
  /\ sent = <<>>
  /\ taken = <<>>
  /\ done = <<>>
  /\ spoiled = FALSE

Parent ==
  \/ Start \/ Wait
  \/ ReadChunk \/ ReadEof \/ ReadAgain
  \/ Dispatch \/ Unknown \/ Drained

Child == ChildExit \/ \E kind \in Kind : Write(kind)

Next == Parent \/ ReadFails \/ Interrupted \/ Child

Spec == Init /\ [][Next]_vars

\* The parent is scheduled again and again; the worker need not do anything.
FairSpec == Spec /\ WF_vars(Parent)

------------------------------------------------------------------------------
\* Properties.

TypeOK ==
  /\ child_up \in BOOLEAN /\ parent_wr \in BOOLEAN /\ hup \in BOOLEAN
  /\ spoiled \in BOOLEAN
  /\ pipe \in Seq(Cell) /\ Len(pipe) <= PipeCap
  /\ read_buf \in [1 .. BufCap -> Cell]
  /\ n_rec \in 0 .. MaxRec /\ n_err \in 0 .. MaxErr
  /\ pc \in {"start", "wait", "drain", "dispatch", "closed", "undef"}
  /\ read_acc \in Nat /\ read_flag \in {0, 1, 2} /\ p \in Nat \ {0} /\ chunks \in Nat
  /\ sent \in Seq(Cell) /\ taken \in Seq(Cell) /\ done \in Seq(Record)

\* The part of the drained data that is still to be dispatched.
Undispatched ==
  CASE pc = "drain" -> SubSeq(read_buf, 1, read_acc)
    [] pc = "dispatch" -> SubSeq(read_buf, p, p + read_acc - 1)
    [] OTHER -> <<>>

\* As long as every drain finds all there is in one read() and ends with EAGAIN,
\* nothing is lost, doubled, reordered or taken apart between the worker's
\* write() and the parent's dispatch, and the buffer is not overrun.  The
\* overlapping of chunks in read_buf is thus the only way records get lost
\* after the pipe accepted them.
Conservation ==
  ~spoiled => /\ pc # "undef"
              /\ taken \o Undispatched \o pipe = sent

\* No record is executed twice, even when chunks overlap in read_buf.
AtMostOnce ==
  \A i, j \in DOMAIN done : done[i] = done[j] => i = j

\* The parent notices that the worker is gone and leaves its loop, so that it
\* gets to remove the nft tables; nothing is said of a parent that overran its
\* buffer.
ChildGoneNoticed == ~child_up ~> pc \in {"closed", "undef"}

\* "If NFT true in configuration file, IP ban by DoS or flood attack" (README):
\* a ban the pipe accepted is executed by the time the parent sleeps again.
BansExecuted ==
  (pc = "wait" /\ pipe = <<>>) =>
    \A i \in DOMAIN sent :
      (sent[i] # Nul /\ sent[i].at = 1 /\ sent[i].rec.kind = "ban") =>
        \E j \in DOMAIN done : done[j] = sent[i].rec
==============================================================================
