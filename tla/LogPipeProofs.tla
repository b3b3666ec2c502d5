---------------------------- MODULE LogPipeProofs ----------------------------
(***************************************************************************)
(* The pipe to the parent, for records, buffers and pipes of any length:   *)
(* what a drain of one chunk hands to the dispatch is what was sent, and   *)
(* no record is executed twice, not even when chunks overlap in read_buf.  *)
(***************************************************************************)
EXTENDS LogPipe, TLAPS, SequenceTheorems, NaturalsInduction, WellFoundedInduction

\* The first cell of a record.
Begins(c) == c # Nul /\ c.at = 1

\* What was sent is whole records.
Framed ==
  /\ sent # <<>> => sent[Len(sent)] = Nul
  /\ \A i \in 1 .. Len(sent) : i = 1 \/ sent[i - 1] = Nul => Begins(sent[i])

\* The dispatch stays inside read_buf.
InBuf == pc = "dispatch" => read_acc = 0 \/ p + read_acc <= BufCap

\* A drain that is not spoiled has taken at most one chunk, ...
OneChunk ==
  ~spoiled /\ pc = "drain" =>
    read_flag = 0 /\ read_acc < BufCap /\ (chunks = 0 => read_acc = 0)

\* ... and its dispatch goes from one record to the next and ends with the last.
Whole ==
  ~spoiled => /\ taken # <<>> => taken[Len(taken)] = Nul
              /\ pc = "dispatch" /\ read_acc > 0 => read_buf[p + read_acc - 1] = Nul

\* Cells of read_buf that can still be dispatched, in this drain.
Live == CASE pc = "drain" -> 1 .. BufCap [] pc = "dispatch" -> p .. BufCap [] OTHER -> {}

\* The records that were executed.
Executed == {done[i] : i \in 1 .. Len(done)}

\* The beginning of a record is in one place only: still in the pipe, in
\* read_buf, or executed.
Fresh ==
  /\ \A i \in 1 .. Len(pipe) : Begins(pipe[i]) =>
       /\ pipe[i].rec.n <= n_rec
       /\ pipe[i].rec \notin Executed
       /\ \A j \in 1 .. Len(pipe) : pipe[j] = pipe[i] => j = i
       /\ \A j \in Live : pipe[i] # read_buf[j]
  /\ \A i \in Live : Begins(read_buf[i]) =>
       /\ read_buf[i].rec.n <= n_rec
       /\ read_buf[i].rec \notin Executed
       /\ \A j \in Live : read_buf[j] = read_buf[i] => j = i
  /\ \A r \in Executed : r.n <= n_rec

\* The inductive invariant.  Conservation speaks of what is in read_buf between the
\* reads and the dispatch, so it needs to know that a drain of one chunk ends where
\* a record ends; AtMostOnce needs to know where the records not yet executed are.
IInv ==
  /\ TypeOK /\ Framed /\ InBuf /\ OneChunk /\ Whole /\ Conservation /\ Fresh
  /\ AtMostOnce

------------------------------------------------------------------------------
\* The operators of the model.

\* Cells(r) begins with r's first cell, ends with the NUL, and has no other
\* beginning and no other NUL.
LEMMA CellsOfRecord ==
  ASSUME NEW r \in Record
  PROVE  /\ RecLen(r) \in Nat /\ RecLen(r) >= 2
         /\ Cells(r) \in Seq(Cell) /\ Len(Cells(r)) = RecLen(r)
         /\ Begins(Cells(r)[1]) /\ Cells(r)[1].rec = r
         /\ Cells(r)[RecLen(r)] = Nul
         /\ \A i \in 2 .. RecLen(r) : ~Begins(Cells(r)[i]) /\ Cells(r)[i - 1] # Nul
<1> DEFINE L == RecLen(r)
           c == Cells(r)
           x(i) == [rec |-> r, at |-> i]
<1>1. L \in Nat /\ L >= 2
  BY ConstantsType DEF RecLen
<1>2. c = [i \in 1 .. L |-> IF i = L THEN Nul ELSE x(i)]
  BY DEF Cells
<1>3. ASSUME NEW i \in 1 .. L
      PROVE  x(i) \in Cell /\ x(i) # Nul /\ x(i).rec = r /\ x(i).at = i
  BY NulAssumption DEF Cell
<1> HIDE DEF L, c, x
<1>4. c \in [1 .. L -> Cell]
  BY <1>2, <1>3 DEF Cell
<1>5. c \in Seq(Cell) /\ Len(c) = L
  BY <1>1, <1>4
<1>6. c[1] = x(1) /\ c[L] = Nul
  BY <1>1, <1>2
<1>7. Begins(c[1]) /\ c[1].rec = r
  BY <1>1, <1>3, <1>6 DEF Begins
<1>8. \A i \in 2 .. L : ~Begins(c[i]) /\ c[i - 1] # Nul
  <2> TAKE i \in 2 .. L
  <2>1. i \in 1 .. L /\ i - 1 \in 1 .. L /\ i # 1 /\ i - 1 # L
    BY <1>1
  <2>2. c[i - 1] = x(i - 1) /\ c[i] \in {Nul, x(i)}
    BY <1>2, <2>1
  <2> QED
    BY <1>3, <2>1, <2>2 DEF Begins
<1> QED
  BY <1>1, <1>5, <1>6, <1>7, <1>8 DEF L, c

\* A stretch of a buffer.
LEMMA BufPart ==
  ASSUME NEW b \in [1 .. BufCap -> Cell], NEW lo \in Nat \ {0}, NEW hi \in Nat,
         lo <= hi + 1, hi <= BufCap
  PROVE  /\ SubSeq(b, lo, hi) \in Seq(Cell)
         /\ Len(SubSeq(b, lo, hi)) = hi - lo + 1
         /\ \A i \in 1 .. hi - lo + 1 : SubSeq(b, lo, hi)[i] = b[lo + i - 1]
<1>1. \A i \in lo .. hi : b[i] \in Cell
  BY ConstantsType
<1> QED
  BY <1>1, SubSeqProperties

\* read_buf, a function on 1 .. BufCap, is a sequence of that length.
LEMMA BufIsSeq ==
  ASSUME TypeOK
  PROVE  read_buf \in Seq(Cell) /\ Len(read_buf) = BufCap
  BY ConstantsType DEF TypeOK

\* A read of n cells replaces the first n cells of read_buf.
LEMMA ReadIntoBuf ==
  ASSUME TypeOK, NEW n \in 0 .. Len(pipe), n < BufCap
  PROVE  /\ ReadInto(n) \in [1 .. BufCap -> Cell]
         /\ \A i \in 1 .. BufCap : ReadInto(n)[i] = IF i <= n THEN pipe[i] ELSE read_buf[i]
<1>1. /\ pipe \in Seq(Cell) /\ Len(pipe) \in Nat /\ n \in Nat
      /\ BufCap \in Nat /\ n + 1 <= BufCap
  BY ConstantsType DEF TypeOK
<1> DEFINE a == SubSeq(pipe, 1, n)
           b == SubSeq(read_buf, n + 1, BufCap)
<1>2. a \in Seq(Cell) /\ Len(a) = n /\ \A i \in 1 .. n : a[i] = pipe[i]
  BY <1>1
<1>3. /\ b \in Seq(Cell) /\ Len(b) = BufCap - n
      /\ \A i \in 1 .. BufCap - n : b[i] = read_buf[n + i]
  <2>1. /\ Len(b) = IF n + 1 <= BufCap THEN BufCap - (n + 1) + 1 ELSE 0
        /\ b \in Seq(Cell)
        /\ \A i \in 1 .. BufCap - (n + 1) + 1 : b[i] = read_buf[(n + 1) + i - 1]
    BY <1>1, BufIsSeq, SubSeqProperties
  <2> QED
    BY <1>1, <2>1
<1> HIDE DEF a, b
<1>4. /\ a \o b \in Seq(Cell) /\ Len(a \o b) = BufCap
      /\ \A i \in 1 .. BufCap : (a \o b)[i] = IF i <= n THEN a[i] ELSE b[i - n]
  <2>1. /\ a \o b \in Seq(Cell) /\ Len(a \o b) = Len(a) + Len(b)
        /\ \A i \in 1 .. Len(a) + Len(b) :
             (a \o b)[i] = IF i <= Len(a) THEN a[i] ELSE b[i - Len(a)]
    BY <1>2, <1>3, ConcatProperties
  <2>2. Len(a) + Len(b) = BufCap
    BY <1>1, <1>2, <1>3
  <2> QED
    BY <1>2, <2>1, <2>2
<1>5. ReadInto(n) = a \o b
  BY DEF ReadInto, a, b
<1>6. a \o b \in [1 .. BufCap -> Cell]
  BY <1>4, LenProperties
<1>7. \A i \in 1 .. BufCap : (a \o b)[i] = IF i <= n THEN pipe[i] ELSE read_buf[i]
  <2> TAKE i \in 1 .. BufCap
  <2>1. CASE i <= n
    BY <1>1, <1>2, <1>4, <2>1
  <2>2. CASE ~(i <= n)
    <3>1. i - n \in 1 .. BufCap - n /\ n + (i - n) = i
      BY <1>1, <2>2
    <3> QED
      BY <1>3, <1>4, <2>2, <3>1
  <2> QED
    BY <2>1, <2>2
<1> QED
  BY <1>5, <1>6, <1>7

\* A set of natural numbers that is not empty has a least element.
LEMMA LeastNat ==
  ASSUME NEW S \in SUBSET Nat, S # {}
  PROVE  \E m \in S : \A k \in S : m <= k
<1>1. PICK x \in S : \A y \in S : ~(<<y, x>> \in OpToRel(<, Nat))
  BY NatLessThanWellFounded, WFMin
<1>2. ASSUME NEW y \in S, y < x
      PROVE  <<y, x>> \in OpToRel(<, Nat)
  BY <1>2 DEF OpToRel
<1>3. \A y \in S : x <= y
  <2> TAKE y \in S
  <2>1. ~(y < x)
    BY <1>1, <1>2
  <2> QED
    BY <2>1
<1> QED
  BY <1>3

\* strnlen stops at the first NUL, if there is one within reach.
LEMMA StrnlenStops ==
  ASSUME TypeOK
  PROVE  /\ strnlen \in 0 .. read_acc
         /\ NulOffsets # {} => strnlen < read_acc /\ read_buf[p + strnlen] = Nul
         /\ NulOffsets = {} => strnlen = read_acc
<1>1. NulOffsets \in SUBSET Nat /\ read_acc \in Nat
  BY DEF NulOffsets, TypeOK
<1>2. CASE NulOffsets = {}
  BY <1>1, <1>2 DEF strnlen
<1>3. CASE NulOffsets # {}
  <2>1. strnlen \in NulOffsets
    BY <1>1, <1>3, LeastNat DEF strnlen
  <2> QED
    BY <1>1, <1>3, <2>1 DEF NulOffsets
<1> QED
  BY <1>2, <1>3

\* One read() takes something and leaves room for the terminating NUL.
LEMMA ChunkFits ==
  ASSUME TypeOK, pipe # <<>>
  PROVE  ChunkLen \in 1 .. Len(pipe) /\ ChunkLen < BufCap
<1>1. Len(pipe) \in Nat /\ Len(pipe) > 0
  BY EmptySeq DEF TypeOK
<1> QED
  BY <1>1, ConstantsType DEF ChunkLen

\* What read() leaves in the pipe.
LEMMA PipeRest ==
  ASSUME TypeOK, NEW n \in 1 .. Len(pipe)
  PROVE  LET q == SubSeq(pipe, n + 1, Len(pipe))
         IN /\ q \in Seq(Cell) /\ Len(q) = Len(pipe) - n
            /\ \A i \in 1 .. Len(q) : q[i] = pipe[n + i]
<1>1. pipe \in Seq(Cell) /\ Len(pipe) \in Nat
  BY DEF TypeOK
<1>2. CASE n = Len(pipe)
  BY <1>1, <1>2
<1>3. CASE n < Len(pipe)
  <2> DEFINE q == SubSeq(pipe, n + 1, Len(pipe))
  <2>1. /\ q \in Seq(Cell)
        /\ Len(q) = IF n + 1 <= Len(pipe) THEN Len(pipe) - (n + 1) + 1 ELSE 0
        /\ \A i \in 1 .. Len(pipe) - (n + 1) + 1 : q[i] = pipe[(n + 1) + i - 1]
    BY <1>1, <1>3, SubSeqProperties
  <2> HIDE DEF q
  <2>2. Len(q) = Len(pipe) - n /\ \A i \in 1 .. Len(q) : q[i] = pipe[n + i]
    BY <1>1, <1>3, <2>1
  <2> QED
    BY <2>1, <2>2 DEF q
<1> QED
  BY <1>1, <1>2, <1>3

\* One dispatch takes the cells up to a NUL, or all there are, and stays inside
\* read_buf.
LEMMA DispatchTakes ==
  ASSUME TypeOK, InBuf, pc = "dispatch", read_acc > 0
  PROVE  /\ p \in 1 .. BufCap /\ p + strnlen \in p .. BufCap
         /\ read_buf[p] \in Cell
         /\ SubSeq(read_buf, p, p + strnlen) \in Seq(Cell)
         /\ Len(SubSeq(read_buf, p, p + strnlen)) = strnlen + 1
         /\ \A i \in 1 .. strnlen + 1 :
              SubSeq(read_buf, p, p + strnlen)[i] = read_buf[p + i - 1]
<1>1. /\ read_acc \in Nat /\ p \in Nat /\ p > 0 /\ p + read_acc <= BufCap
      /\ BufCap \in Nat
      /\ strnlen \in Nat /\ strnlen <= read_acc
  BY StrnlenStops, ConstantsType DEF TypeOK, InBuf
<1>2. p \in 1 .. BufCap /\ p + strnlen \in p .. BufCap
  BY <1>1
<1> DEFINE q == SubSeq(read_buf, p, p + strnlen)
<1>3. /\ q \in Seq(Cell) /\ Len(q) = strnlen + 1
      /\ \A i \in 1 .. strnlen + 1 : q[i] = read_buf[p + i - 1]
  <2>1. read_buf \in [1 .. BufCap -> Cell] /\ (p + strnlen) - p + 1 = strnlen + 1
    BY <1>1 DEF TypeOK
  <2> QED
    BY <1>1, <1>2, <2>1, BufPart
<1>4. read_buf[p] \in Cell
  BY <1>2 DEF TypeOK
<1> QED
  BY <1>2, <1>3, <1>4

\* The record the worker writes is the next one.
LEMMA NewRecord ==
  ASSUME TypeOK, NEW kind \in Kind, Write(kind)
  PROVE  /\ [kind |-> kind, n |-> n_rec + 1] \in Record
         /\ n_rec' = n_rec + 1 /\ n_rec' \in 0 .. MaxRec
<1>1. n_rec' = n_rec + 1 /\ n_rec + 1 \in 1 .. MaxRec
  BY ConstantsType DEF Write, TypeOK
<1> QED
  BY <1>1, ConstantsType DEF Record

------------------------------------------------------------------------------
\* Types, and the bounds of the dispatch.

\* A write appends a whole record that fits, or nothing.
LEMMA TypeWrite ==
  ASSUME TypeOK, InBuf, NEW kind \in Kind, Write(kind)
  PROVE  TypeOK' /\ InBuf'
<1> DEFINE r == [kind |-> kind, n |-> n_rec + 1]
<1>1. r \in Record /\ n_rec' \in 0 .. MaxRec
  BY NewRecord
<1> HIDE DEF r
<1>2. /\ pipe' \in Seq(Cell) /\ Len(pipe') <= PipeCap /\ sent' \in Seq(Cell)
  <2>1. CASE Room(r)
    <3>1. pipe' = pipe \o Cells(r) /\ sent' = sent \o Cells(r)
      BY <2>1 DEF Write, r
    <3>2. /\ pipe \in Seq(Cell) /\ sent \in Seq(Cell) /\ Cells(r) \in Seq(Cell)
          /\ Len(pipe) + Len(Cells(r)) <= PipeCap
      BY <1>1, <2>1, CellsOfRecord DEF TypeOK, Room
    <3> QED
      BY <3>1, <3>2, ConcatProperties
  <2>2. CASE ~Room(r)
    BY <2>2 DEF Write, r, TypeOK
  <2> QED
    BY <2>1, <2>2
<1> QED
  BY <1>1, <1>2 DEF Write, TypeOK, InBuf, parent

\* read() puts what it takes into read_buf, from its first cell on.
LEMMA TypeDrain ==
  ASSUME TypeOK, InBuf, ReadChunk \/ ReadEof \/ ReadFails \/ ReadAgain
  PROVE  TypeOK' /\ InBuf'
<1>0. spoiled' \in BOOLEAN
  BY Zenon DEF ReadChunk, ReadEof, ReadFails, ReadAgain, TypeOK
<1>1. CASE ReadChunk
  <2>1. ChunkLen \in 1 .. Len(pipe) /\ ChunkLen < BufCap /\ Len(pipe) \in Nat
    BY <1>1, ChunkFits DEF ReadChunk, TypeOK
  <2>2. read_buf' \in [1 .. BufCap -> Cell]
    BY <1>1, <2>1, ReadIntoBuf DEF ReadChunk
  <2>3. pipe' \in Seq(Cell) /\ Len(pipe') <= PipeCap
    BY <1>1, <2>1, PipeRest, ConstantsType DEF ReadChunk, TypeOK
  <2> QED
    BY <1>0, <1>1, <2>1, <2>2, <2>3 DEF ReadChunk, TypeOK, InBuf, child
<1>2. CASE ReadEof
  BY <1>0, <1>2 DEF ReadEof, TypeOK, InBuf, child
<1>4. CASE ReadFails
  <2>1. /\ n_err' \in 0 .. MaxErr /\ read_flag' \in {0, 1, 2}
        /\ pc' = "closed" \/ pc' = pc
        /\ UNCHANGED <<child, pipe, parent_wr, hup, read_buf, read_acc,
                       p, chunks, taken, done>>
    BY <1>4, ConstantsType DEF ReadFails, TypeOK
  <2> QED
    BY <1>0, <2>1 DEF TypeOK, InBuf, child
<1>3. CASE ReadAgain
  <2>1. read_buf' \in [1 .. BufCap -> Cell]
    BY <1>3 DEF ReadAgain, TypeOK, Cell
  <2> QED
    BY <1>0, <1>3, <2>1, ConstantsType DEF ReadAgain, TypeOK, InBuf, child
<1> QED
  BY <1>1, <1>2, <1>3, <1>4

\* The dispatch never leaves the cells of this drain.
LEMMA TypeDispatch ==
  ASSUME TypeOK, InBuf, Dispatch
  PROVE  TypeOK' /\ InBuf'
<1>0. pc = "dispatch" /\ read_acc > 0
  BY DEF Dispatch
<1>1. taken' \in Seq(Cell)
  BY <1>0, DispatchTakes, ConcatProperties DEF Dispatch, TypeOK
<1>2. done' \in Seq(Record)
  <2>1. CASE Intact
    <3>1. read_buf[p].rec \in Record
      BY <1>0, <2>1, DispatchTakes DEF Intact, Cell
    <3> QED
      BY <2>1, <3>1, AppendProperties DEF Dispatch, TypeOK
  <2>2. CASE ~Intact
    BY <2>2 DEF Dispatch, TypeOK
  <2> QED
    BY <2>1, <2>2
<1>3. /\ strnlen \in 0 .. read_acc /\ p' = p + strnlen + 1
      /\ read_acc' = IF read_acc > strnlen THEN read_acc - (strnlen + 1) ELSE 0
  BY StrnlenStops DEF Dispatch
<1> HIDE DEF strnlen
<1>4. p' \in Nat \ {0} /\ read_acc' \in Nat /\ InBuf'
  BY <1>0, <1>3, ConstantsType DEF TypeOK, InBuf, Dispatch
<1> QED
  BY <1>1, <1>2, <1>4 DEF Dispatch, TypeOK, child

\* Every step keeps the types and the bounds of the dispatch.
LEMMA TypeStep ==
  ASSUME TypeOK, InBuf, [Next]_vars
  PROVE  TypeOK' /\ InBuf'
<1>1. CASE Start \/ Wait \/ Interrupted \/ Unknown \/ Drained
  <2>1. parent_wr' \in BOOLEAN /\ hup' \in BOOLEAN
    BY <1>1, Zenon DEF Start, Wait, Interrupted, Unknown, Drained, TypeOK
  <2>2. read_buf' \in [1 .. BufCap -> Cell]
    BY <1>1
       DEF Start, Wait, Interrupted, Unknown, Drained, TypeOK, FreshBuf, ZeroBuf, Cell
  <2> QED
    BY <1>1, <2>1, <2>2
       DEF Start, Wait, Interrupted, Unknown, Drained, TypeOK, InBuf, child
<1>2. CASE ChildExit
  <2>1. child_up' \in BOOLEAN
    BY <1>2, Zenon DEF ChildExit
  <2> QED
    BY <1>2, <2>1 DEF ChildExit, TypeOK, InBuf, parent
<1>3. CASE UNCHANGED vars
  BY <1>3 DEF vars, child, parent, TypeOK, InBuf
<1> QED
  BY <1>1, <1>2, <1>3, TypeWrite, TypeDrain, TypeDispatch DEF Next, Parent, Child

------------------------------------------------------------------------------
\* Nothing is lost, doubled or taken apart in a drain of one chunk.

Conserve == Framed /\ OneChunk /\ Whole /\ Conservation

\* Three stretches of cells in a row, as Conservation has them.
LEMMA CellsAssociative ==
  \A a, b, c \in Seq(Cell) : (a \o b) \o c = a \o (b \o c)
  BY ConcatAssociative

\* What is still to be dispatched, while the drain is not spoiled.
LEMMA ToDispatch ==
  ASSUME TypeOK, InBuf, OneChunk, ~spoiled
  PROVE  /\ Undispatched \in Seq(Cell)
         /\ pc = "drain" => Len(Undispatched) = read_acc
                            /\ \A i \in 1 .. read_acc : Undispatched[i] = read_buf[i]
         /\ pc = "dispatch" => Len(Undispatched) = read_acc
                            /\ \A i \in 1 .. read_acc : Undispatched[i] = read_buf[p + i - 1]
         /\ pc \notin {"drain", "dispatch"} \/ read_acc = 0 => Undispatched = <<>>
<1>0. /\ read_acc \in Nat /\ p \in Nat \ {0} /\ read_buf \in [1 .. BufCap -> Cell]
      /\ BufCap \in Nat
  BY ConstantsType DEF TypeOK
<1>1. CASE pc \notin {"drain", "dispatch"}
  BY <1>1 DEF Undispatched
<1>2. CASE pc = "drain"
  <2>1. /\ Undispatched = SubSeq(read_buf, 1, read_acc) /\ read_acc <= BufCap
        /\ 1 <= read_acc + 1
    BY <1>0, <1>2 DEF Undispatched, OneChunk
  <2>2. /\ Undispatched \in Seq(Cell) /\ Len(Undispatched) = read_acc
        /\ \A i \in 1 .. read_acc : Undispatched[i] = read_buf[i]
    BY <1>0, <2>1, BufPart
  <2> QED
    BY <1>2, <2>2
<1>3. CASE pc = "dispatch" /\ read_acc = 0
  <2>1. Undispatched = <<>>
    BY <1>0, <1>3, SubSeqEmpty DEF Undispatched
  <2> QED
    BY <1>3, <2>1
<1>4. CASE pc = "dispatch" /\ read_acc # 0
  <2> DEFINE hi == p + read_acc - 1
  <2>1. hi \in Nat /\ p <= hi + 1 /\ hi <= BufCap /\ hi - p + 1 = read_acc
    BY <1>0, <1>4 DEF InBuf
  <2>2. Undispatched = SubSeq(read_buf, p, hi)
    BY <1>4 DEF Undispatched
  <2> HIDE DEF hi
  <2>3. /\ Undispatched \in Seq(Cell) /\ Len(Undispatched) = read_acc
        /\ \A i \in 1 .. read_acc : Undispatched[i] = read_buf[p + i - 1]
    BY <1>0, <2>1, <2>2, BufPart
  <2> QED
    BY <1>4, <2>3
<1> QED
  BY <1>1, <1>2, <1>3, <1>4

\* Where a record ends in what was sent, the next one begins.
LEMMA ConserveWrite ==
  ASSUME TypeOK, InBuf, Conserve, NEW kind \in Kind, Write(kind)
  PROVE  Conserve'
<1> DEFINE r == [kind |-> kind, n |-> n_rec + 1]
<1>1. r \in Record
  BY NewRecord
<1> HIDE DEF r
<1>2. UNCHANGED parent
  BY DEF Write
<1>3. (OneChunk /\ Whole)'
  BY <1>2 DEF Conserve, OneChunk, Whole, parent
<1>4. CASE ~Room(r)
  <2>1. UNCHANGED <<pipe, sent>>
    BY <1>4 DEF Write, r
  <2> QED
    BY <1>2, <1>3, <2>1 DEF Conserve, Framed, Conservation, Undispatched, parent
<1>5. CASE Room(r)
  <2> DEFINE c == Cells(r)
  <2>1. pipe' = pipe \o c /\ sent' = sent \o c
    BY <1>5 DEF Write, r
  <2>2. /\ c \in Seq(Cell) /\ Len(c) \in Nat /\ Len(c) >= 2 /\ c[Len(c)] = Nul
        /\ Begins(c[1])
        /\ \A i \in 2 .. Len(c) : c[i - 1] # Nul
    BY <1>1, CellsOfRecord
  <2> HIDE DEF c
  <2>3. pipe \in Seq(Cell) /\ sent \in Seq(Cell) /\ Len(sent) \in Nat
    BY DEF TypeOK
  <2>4. Framed'
    <3>1. /\ Len(sent') = Len(sent) + Len(c) /\ sent' \in Seq(Cell)
          /\ \A i \in 1 .. Len(sent) + Len(c) :
               sent'[i] = IF i <= Len(sent) THEN sent[i] ELSE c[i - Len(sent)]
      BY <2>1, <2>2, <2>3, ConcatProperties
    <3>2. sent'[Len(sent')] = Nul
      <4>1. Len(sent') \in 1 .. Len(sent) + Len(c) /\ ~(Len(sent') <= Len(sent))
            /\ Len(sent') - Len(sent) = Len(c)
        BY <2>2, <2>3, <3>1
      <4> QED
        BY <2>2, <3>1, <4>1
    <3>3. ASSUME NEW i \in 1 .. Len(sent'), i = 1 \/ sent'[i - 1] = Nul
          PROVE  Begins(sent'[i])
      <4>1. CASE i <= Len(sent)
        <5>1. /\ i \in 1 .. Len(sent) /\ i \in 1 .. Len(sent) + Len(c)
              /\ i = 1 \/ (i - 1 \in 1 .. Len(sent) + Len(c) /\ i - 1 <= Len(sent))
          BY <2>2, <2>3, <4>1
        <5>2. sent'[i] = sent[i] /\ (i = 1 \/ sent'[i - 1] = sent[i - 1])
          BY <3>1, <4>1, <5>1
        <5> QED
          BY <3>3, <5>1, <5>2 DEF Conserve, Framed
      <4>2. CASE i = Len(sent) + 1
        <5>1. sent'[i] = c[1]
          BY <2>2, <2>3, <3>1, <4>2
        <5> QED
          BY <2>2, <5>1
      <4>3. CASE i > Len(sent) + 1
        <5>1. /\ i - 1 \in 1 .. Len(sent) + Len(c) /\ ~(i - 1 <= Len(sent)) /\ i # 1
              /\ i - Len(sent) \in 2 .. Len(c)
              /\ (i - 1) - Len(sent) = (i - Len(sent)) - 1
          BY <2>2, <2>3, <3>1, <4>3
        <5>2. sent'[i - 1] = c[(i - Len(sent)) - 1]
          BY <3>1, <5>1
        <5> QED
          BY <2>2, <3>3, <5>1, <5>2
      <4> QED
        BY <2>2, <2>3, <3>1, <4>1, <4>2, <4>3
    <3> QED
      BY <3>2, <3>3 DEF Framed
  <2>5. Conservation'
    <3> SUFFICES ASSUME ~spoiled
                 PROVE  (pc # "undef" /\ taken \o Undispatched \o pipe = sent)'
      BY <1>2 DEF Conservation, parent
    <3>1. Undispatched' = Undispatched /\ taken' = taken /\ pc' = pc
      BY <1>2 DEF Undispatched, parent
    <3>2. pc # "undef" /\ (taken \o Undispatched) \o pipe = sent
      BY DEF Conserve, Conservation
    <3> DEFINE u == taken \o Undispatched
    <3>3. u \in Seq(Cell)
      BY ToDispatch, ConcatProperties DEF Conserve, TypeOK
    <3> HIDE DEF u
    <3>4. (u \o pipe) \o c = u \o (pipe \o c)
      BY <2>2, <2>3, <3>3, CellsAssociative, Zenon
    <3> QED
      BY <2>1, <3>1, <3>2, <3>4 DEF u
  <2> QED
    BY <1>3, <2>4, <2>5 DEF Conserve
<1> QED
  BY <1>4, <1>5

\* The first chunk moves the front of the pipe to read_buf.
LEMMA ConserveChunk ==
  ASSUME TypeOK, InBuf, Conserve, TypeOK', InBuf', ReadChunk
  PROVE  Conserve'
<1>1. Framed'
  BY DEF ReadChunk, child, Conserve, Framed
<1>2. CASE spoiled'
  BY <1>1, <1>2 DEF Conserve, OneChunk, Whole, Conservation
<1>3. CASE ~spoiled'
  <2> DEFINE n == ChunkLen
  <2>1. /\ n \in 1 .. Len(pipe) /\ n < BufCap /\ n \in Nat /\ Len(pipe) \in Nat
        /\ pipe \in Seq(Cell)
    <3>1. pipe \in Seq(Cell) /\ Len(pipe) \in Nat /\ pipe # <<>>
      BY DEF ReadChunk, TypeOK
    <3> QED
      BY <3>1, ChunkFits
  <2> HIDE DEF n
  <2>2. /\ ~spoiled /\ chunks = 0 /\ read_acc = 0 /\ read_flag = 0 /\ pc = "drain"
        /\ chunks' = 1
    <3>1. ~spoiled /\ ~(chunks > 0) /\ pc = "drain" /\ chunks' = chunks + 1
      BY <1>3 DEF ReadChunk
    <3> QED
      BY <3>1 DEF Conserve, OneChunk, TypeOK
  <2>3. read_acc' = n /\ pc' = "drain" /\ read_flag' = 0 /\ UNCHANGED <<taken, sent>>
    BY <2>1, <2>2 DEF ReadChunk, child, n
  <2>4. OneChunk' /\ Whole'
    BY <2>1, <2>2, <2>3, <1>3 DEF OneChunk, Whole, Conserve
  <2>5. Undispatched' = SubSeq(pipe, 1, n)
    <3>1. /\ SubSeq(pipe, 1, n) \in Seq(Cell) /\ Len(SubSeq(pipe, 1, n)) = n
          /\ \A i \in 1 .. n : SubSeq(pipe, 1, n)[i] = pipe[i]
      BY <2>1
    <3>2. /\ Undispatched' \in Seq(Cell) /\ Len(Undispatched') = n
          /\ \A i \in 1 .. n : Undispatched'[i] = read_buf'[i]
      <4>1. Undispatched' = SubSeq(read_buf', 1, n)
        BY <2>3 DEF Undispatched
      <4>2. read_buf' \in [1 .. BufCap -> Cell] /\ BufCap \in Nat
        BY ConstantsType DEF TypeOK
      <4> QED
        BY <2>1, <4>1, <4>2, BufPart
    <3>3. \A i \in 1 .. n : read_buf'[i] = pipe[i]
      BY <2>1, ReadIntoBuf, ConstantsType DEF ReadChunk, n
    <3> QED
      BY <3>1, <3>2, <3>3, SeqEqual
  <2>6. SubSeq(pipe, 1, n) \o SubSeq(pipe, n + 1, Len(pipe)) = pipe
    BY <2>1, ConcatAdjacentSubSeq, SubSeqFull
  <2>7. taken \o pipe = sent
    <3>1. Undispatched = <<>>
      BY <2>2, ToDispatch DEF Conserve
    <3> QED
      BY <2>2, <3>1, ConcatEmptySeq DEF Conserve, Conservation, TypeOK
  <2>8. (taken \o SubSeq(pipe, 1, n)) \o SubSeq(pipe, n + 1, Len(pipe)) = sent
    <3>1. /\ SubSeq(pipe, 1, n) \in Seq(Cell)
          /\ SubSeq(pipe, n + 1, Len(pipe)) \in Seq(Cell)
          /\ taken \in Seq(Cell)
      <4>1. taken \in Seq(Cell) /\ SubSeq(pipe, n + 1, Len(pipe)) \in Seq(Cell)
        BY <2>1, PipeRest DEF TypeOK
      <4> QED
        BY <2>1, <4>1
    <3>2. (taken \o SubSeq(pipe, 1, n)) \o SubSeq(pipe, n + 1, Len(pipe))
            = taken \o (SubSeq(pipe, 1, n) \o SubSeq(pipe, n + 1, Len(pipe)))
      BY <3>1, CellsAssociative, Zenon
    <3> QED
      BY <2>6, <2>7, <3>2, Zenon
  <2>9. Conservation'
    BY <2>3, <2>5, <2>8 DEF Conservation, ReadChunk, n
  <2> QED
    BY <1>1, <2>4, <2>9 DEF Conserve
<1> QED
  BY <1>2, <1>3

\* EAGAIN: the pipe is empty, so the drain ends with the end of a record.
LEMMA ConserveAgain ==
  ASSUME TypeOK, InBuf, Conserve, TypeOK', InBuf', ReadAgain
  PROVE  Conserve'
<1>1. Framed'
  BY DEF ReadAgain, child, Conserve, Framed
<1>2. CASE spoiled'
  BY <1>1, <1>2 DEF Conserve, OneChunk, Whole, Conservation
<1>3. CASE ~spoiled'
  <2>1. /\ ~spoiled /\ pc = "drain" /\ read_flag = 0 /\ read_acc \in Nat
        /\ read_acc < BufCap
        /\ pipe = <<>> /\ BufCap \in Nat
    BY <1>3, ConstantsType DEF ReadAgain, Conserve, OneChunk, TypeOK
  <2>2. /\ pc' = "dispatch" /\ p' = 1 /\ read_acc' = read_acc
        /\ read_buf' = [read_buf EXCEPT ![read_acc + 1] = Nul]
        /\ UNCHANGED <<pipe, sent, taken, spoiled>>
    BY <2>1 DEF ReadAgain, child
  <2>3. \A i \in 1 .. read_acc : read_buf'[i] = read_buf[i]
    BY <2>1, <2>2 DEF TypeOK
  <2>4. Undispatched' = Undispatched
    <3>1. /\ Undispatched \in Seq(Cell) /\ Len(Undispatched) = read_acc
          /\ \A i \in 1 .. read_acc : Undispatched[i] = read_buf[i]
      BY <2>1, ToDispatch DEF Conserve
    <3>2. Undispatched' = SubSeq(read_buf', 1, read_acc)
      <4>1. Undispatched' = SubSeq(read_buf', 1, 1 + read_acc - 1)
        BY <2>2 DEF Undispatched
      <4> QED
        BY <2>1, <4>1
    <3>3. /\ Undispatched' \in Seq(Cell) /\ Len(Undispatched') = read_acc
          /\ \A i \in 1 .. read_acc : Undispatched'[i] = read_buf'[i]
      <4>1. read_buf' \in [1 .. BufCap -> Cell]
        BY DEF TypeOK
      <4> QED
        BY <2>1, <3>2, <4>1, BufPart
    <3> QED
      BY <2>3, <3>1, <3>3, SeqEqual
  <2>5. Conservation'
    BY <2>1, <2>2, <2>4 DEF Conserve, Conservation
  <2>6. ASSUME read_acc > 0
        PROVE  read_buf[read_acc] = Nul
    <3> DEFINE d == Undispatched
    <3>1. d \in Seq(Cell) /\ Len(d) = read_acc /\ d[read_acc] = read_buf[read_acc]
      BY <2>1, <2>6, ToDispatch DEF Conserve
    <3>2. taken \o d = sent
      <4>1. taken \o d \in Seq(Cell) /\ (taken \o d) \o <<>> = sent
        BY <2>1, <3>1, ConcatProperties DEF Conserve, Conservation, TypeOK
      <4> QED
        BY <4>1, ConcatEmptySeq
    <3> HIDE DEF d
    <3>3. /\ taken \in Seq(Cell) /\ Len(taken) \in Nat
          /\ Len(sent) = Len(taken) + read_acc
          /\ sent[Len(taken) + read_acc] = d[read_acc]
      <4>1. taken \in Seq(Cell) /\ Len(taken) \in Nat
        BY DEF TypeOK
      <4>2. /\ Len(sent) = Len(taken) + read_acc
            /\ \A i \in 1 .. Len(taken) + read_acc :
                 sent[i] = IF i <= Len(taken) THEN taken[i] ELSE d[i - Len(taken)]
        BY <3>1, <3>2, <4>1, ConcatProperties
      <4>3. /\ Len(taken) + read_acc \in 1 .. Len(taken) + read_acc
            /\ ~(Len(taken) + read_acc <= Len(taken))
            /\ (Len(taken) + read_acc) - Len(taken) = read_acc
        BY <2>1, <2>6, <4>1
      <4> QED
        BY <4>1, <4>2, <4>3
    <3>4. sent # <<>>
      <4>1. Len(sent) > 0
        BY <2>1, <2>6, <3>3
      <4> QED
        BY <4>1
    <3> QED
      BY <3>1, <3>3, <3>4 DEF Conserve, Framed
  <2>7. OneChunk' /\ Whole'
    BY <2>1, <2>2, <2>3, <2>6 DEF Conserve, OneChunk, Whole
  <2> QED
    BY <1>1, <2>5, <2>7 DEF Conserve
<1> QED
  BY <1>2, <1>3

\* While the drain is not spoiled, the dispatch stands at the beginning of a
\* record and will find its NUL.
LEMMA AtRecord ==
  ASSUME TypeOK, InBuf, Conserve, ~spoiled, pc = "dispatch", read_acc > 0
  PROVE  /\ Begins(read_buf[p])
         /\ strnlen < read_acc /\ read_buf[p + strnlen] = Nul
<1>0. read_acc \in Nat /\ p \in Nat /\ taken \in Seq(Cell) /\ pipe \in Seq(Cell)
      /\ Len(taken) \in Nat /\ Len(pipe) \in Nat
  BY DEF TypeOK
<1>1. read_acc - 1 \in NulOffsets
  <2>1. read_buf[p + read_acc - 1] = Nul /\ p + read_acc - 1 = p + (read_acc - 1)
    BY <1>0 DEF Conserve, Whole
  <2> QED
    BY <1>0, <2>1 DEF NulOffsets
<1>2. strnlen < read_acc /\ read_buf[p + strnlen] = Nul
  BY <1>1, StrnlenStops
<1> DEFINE d == Undispatched
           k == Len(taken)
<1>3. d \in Seq(Cell) /\ Len(d) = read_acc /\ d[1] = read_buf[p]
  BY <1>0, ToDispatch DEF Conserve
<1>4. sent = (taken \o d) \o pipe
  BY DEF Conserve, Conservation
<1> HIDE DEF d, k
<1>5. /\ taken \o d \in Seq(Cell) /\ Len(taken \o d) = k + read_acc
      /\ \A i \in 1 .. k + read_acc : (taken \o d)[i] = IF i <= k THEN taken[i] ELSE d[i - k]
  BY <1>0, <1>3, ConcatProperties DEF k
<1>6. /\ Len(sent) = (k + read_acc) + Len(pipe)
      /\ \A i \in 1 .. (k + read_acc) + Len(pipe) :
           sent[i] = IF i <= k + read_acc THEN (taken \o d)[i] ELSE pipe[i - (k + read_acc)]
  BY <1>0, <1>4, <1>5, ConcatProperties
<1>7. /\ k \in Nat /\ k + 1 \in 1 .. k + read_acc
      /\ k + 1 \in 1 .. (k + read_acc) + Len(pipe)
      /\ k # 0 => k \in 1 .. k + read_acc /\ k \in 1 .. (k + read_acc) + Len(pipe)
      /\ k + 1 <= k + read_acc /\ k <= k + read_acc /\ ~(k + 1 <= k) /\ (k + 1) - k = 1
      /\ (k + 1) - 1 = k /\ k <= k
  BY <1>0 DEF k
<1>8. sent[k + 1] = read_buf[p]
  BY <1>3, <1>5, <1>6, <1>7
<1>9. k # 0 => sent[k] = Nul
  <2>1. k # 0 => sent[k] = taken[k] /\ taken # <<>>
    BY <1>5, <1>6, <1>7, EmptySeq DEF k
  <2> QED
    BY <2>1 DEF Conserve, Whole, k
<1>10. k + 1 \in 1 .. Len(sent) /\ (k + 1 = 1 \/ sent[(k + 1) - 1] = Nul)
  BY <1>6, <1>7, <1>9
<1>11. Begins(sent[k + 1])
  BY <1>10 DEF Conserve, Framed
<1> QED
  BY <1>2, <1>8, <1>11

\* The dispatch takes one whole record off the front of what is in read_buf.
LEMMA ConserveDispatch ==
  ASSUME TypeOK, InBuf, Conserve, TypeOK', InBuf', Dispatch
  PROVE  Conserve'
<1>0. Framed' /\ OneChunk'
  BY DEF Dispatch, child, Conserve, Framed, OneChunk
<1>1. CASE spoiled'
  BY <1>0, <1>1 DEF Conserve, Whole, Conservation
<1>2. CASE ~spoiled'
  <2> DEFINE k == strnlen
  <2>1. /\ ~spoiled /\ pc = "dispatch" /\ read_acc > 0
        /\ UNCHANGED <<spoiled, pc, read_buf, pipe, sent>>
    BY <1>2 DEF Dispatch, child
  <2>2. /\ p' = p + k + 1 /\ taken' = taken \o SubSeq(read_buf, p, p + k)
        /\ read_acc' = IF read_acc > k THEN read_acc - (k + 1) ELSE 0
    BY DEF Dispatch
  <2>3. k < read_acc /\ read_buf[p + k] = Nul
    BY <2>1, AtRecord
  <2>4. /\ k \in Nat /\ p \in Nat \ {0} /\ read_acc \in Nat /\ p + read_acc <= BufCap
        /\ BufCap \in Nat
    BY <2>1, StrnlenStops, ConstantsType DEF TypeOK, InBuf
  <2>5. /\ SubSeq(read_buf, p, p + k) \in Seq(Cell)
        /\ Len(SubSeq(read_buf, p, p + k)) = k + 1
        /\ SubSeq(read_buf, p, p + k)[k + 1] = read_buf[p + k]
    <3>1. p + (k + 1) - 1 = p + k
      BY <2>4
    <3> QED
      BY <2>1, <2>4, <3>1, DispatchTakes
  <2> HIDE DEF k
  <2>6. taken'[Len(taken')] = Nul
    <3> DEFINE g == SubSeq(read_buf, p, p + k)
    <3>1. taken \in Seq(Cell) /\ Len(taken) \in Nat
      BY DEF TypeOK
    <3> HIDE DEF g
    <3>2. /\ Len(taken') = Len(taken) + (k + 1)
          /\ \A i \in 1 .. Len(taken) + (k + 1) :
               taken'[i] = IF i <= Len(taken) THEN taken[i] ELSE g[i - Len(taken)]
      <4>1. taken' = taken \o g /\ g \in Seq(Cell) /\ Len(g) = k + 1
        BY <2>2, <2>5 DEF g
      <4>2. /\ Len(taken \o g) = Len(taken) + Len(g)
            /\ \A i \in 1 .. Len(taken) + Len(g) :
                 (taken \o g)[i] = IF i <= Len(taken) THEN taken[i] ELSE g[i - Len(taken)]
        BY <3>1, <4>1, ConcatProperties
      <4> QED
        BY <4>1, <4>2
    <3>3. /\ Len(taken) + (k + 1) \in 1 .. Len(taken) + (k + 1)
          /\ ~(Len(taken) + (k + 1) <= Len(taken))
          /\ (Len(taken) + (k + 1)) - Len(taken) = k + 1
      BY <2>4, <3>1
    <3> QED
      BY <2>3, <2>5, <3>2, <3>3 DEF g
  <2>7. read_acc' > 0 => read_buf'[p' + read_acc' - 1] = Nul
    <3>1. p' + read_acc' - 1 = p + read_acc - 1
      BY <2>2, <2>3, <2>4
    <3> QED
      BY <2>1, <3>1 DEF Conserve, Whole
  <2>8. Undispatched' = SubSeq(read_buf, (p + k) + 1, p + read_acc - 1)
    <3>1. Undispatched' = SubSeq(read_buf', p', p' + read_acc' - 1)
      BY <2>1 DEF Undispatched
    <3>2. p' + read_acc' - 1 = p + read_acc - 1 /\ p' = (p + k) + 1
      BY <2>2, <2>3, <2>4
    <3> QED
      BY <2>1, <3>1, <3>2
  <2>9. SubSeq(read_buf, p, p + k) \o Undispatched' = Undispatched
    <3>1. Undispatched = SubSeq(read_buf, p, p + read_acc - 1)
      BY <2>1 DEF Undispatched
    <3>2. /\ read_buf \in Seq(Cell) /\ p \in 1 .. Len(read_buf) + 1
          /\ p + k \in p - 1 .. Len(read_buf)
          /\ p + read_acc - 1 \in p + k .. Len(read_buf)
      BY <2>3, <2>4, BufIsSeq
    <3> QED
      BY <2>8, <3>1, <3>2, ConcatAdjacentSubSeq
  <2>10. Conservation'
    <3>1. taken \in Seq(Cell) /\ pc # "undef" /\ (taken \o Undispatched) \o pipe = sent
      BY <2>1 DEF TypeOK, Conserve, Conservation
    <3>2. Undispatched' \in Seq(Cell)
      <4>1. read_buf \in [1 .. BufCap -> Cell]
        BY DEF TypeOK
      <4>2. /\ (p + k) + 1 \in Nat \ {0}
            /\ p + read_acc - 1 \in Nat
            /\ (p + k) + 1 <= (p + read_acc - 1) + 1
            /\ p + read_acc - 1 <= BufCap
        BY <2>3, <2>4
      <4> QED
        BY <2>8, <4>1, <4>2, BufPart
    <3>3. (taken \o SubSeq(read_buf, p, p + k)) \o Undispatched' = taken \o Undispatched
      BY <2>5, <2>9, <3>1, <3>2, CellsAssociative, Zenon
    <3> QED
      BY <2>1, <2>2, <3>1, <3>3 DEF Conservation
  <2> QED
    BY <1>0, <2>6, <2>7, <2>10 DEF Conserve, Whole
<1> QED
  BY <1>1, <1>2

\* The other steps hold nothing in read_buf, before and after.
LEMMA ConserveRest ==
  ASSUME TypeOK, InBuf, Conserve,
         \/ Start \/ Wait \/ Interrupted \/ ReadEof \/ Unknown \/ Drained \/ ReadFails
  PROVE  Conserve'
<1>0. Framed' /\ UNCHANGED <<pipe, sent, taken>>
  BY DEF Start, Wait, Interrupted, ReadEof, Unknown, Drained, ReadFails, child,
     Conserve, Framed
<1>1. CASE spoiled'
  BY <1>0, <1>1 DEF Conserve, OneChunk, Whole, Conservation
<1>2. CASE ~spoiled'
  <2>1. ~spoiled /\ ~ReadFails
    <3>1. ~ReadFails
      BY <1>2 DEF ReadFails
    <3>2. CASE ReadEof
      BY <1>2, <3>1, <3>2, Zenon DEF ReadEof
    <3>3. CASE ~ReadEof
      <4>1. spoiled' = spoiled
        BY <3>1, <3>3 DEF Start, Wait, Interrupted, Unknown, Drained
      <4> QED
        BY <1>2, <3>1, <4>1
    <3> QED
      BY <3>2, <3>3
  <2>2. ~Unknown
    <3> SUFFICES ASSUME Unknown PROVE FALSE
      OBVIOUS
    <3>1. pc = "dispatch" /\ read_acc > 0 /\ "other" \in Headers(read_buf[p])
      BY DEF Unknown
    <3>2. read_buf[p] \in Cell /\ Begins(read_buf[p])
      BY <2>1, <3>1, DispatchTakes, AtRecord
    <3>3. read_buf[p].rec.kind \in Kind /\ Headers(read_buf[p]) = {read_buf[p].rec.kind}
      BY <3>2 DEF Begins, Headers, Cell, Record
    <3> QED
      BY <3>1, <3>3 DEF Kind
  <2>3. Undispatched = <<>>
    <3>1. pc \notin {"drain", "dispatch"} \/ read_acc = 0
      <4>1. CASE ReadEof
        <5>1. ~(read_acc > 0)
          BY <1>2, <4>1, Zenon DEF ReadEof
        <5> QED
          BY <5>1 DEF TypeOK
      <4>2. CASE ~ReadEof
        BY <2>1, <2>2, <4>2 DEF Start, Wait, Interrupted, Drained
      <4> QED
        BY <4>1, <4>2
    <3> QED
      BY <2>1, <3>1, ToDispatch DEF Conserve
  <2>4. Undispatched' = <<>>
    <3>1. CASE Wait
      BY <3>1, SubSeqEmpty DEF Wait, Undispatched
    <3>2. CASE ~Wait
      BY <2>1, <2>2, <3>2 DEF Start, Interrupted, ReadEof, Drained, Undispatched
    <3> QED
      BY <3>1, <3>2
  <2>5. pc' # "undef" /\ pc' # "dispatch"
    BY <2>1, <2>2 DEF Start, Wait, Interrupted, ReadEof, Drained
  <2>6. OneChunk'
    BY <2>1, <2>2, ConstantsType
       DEF Start, Wait, Interrupted, ReadEof, Drained, OneChunk
  <2>7. Whole' /\ Conservation'
    BY <1>0, <2>1, <2>3, <2>4, <2>5 DEF Conserve, Whole, Conservation
  <2> QED
    BY <1>0, <2>6, <2>7 DEF Conserve
<1> QED
  BY <1>1, <1>2

\* Every step keeps what was sent, taken and under way in balance.
LEMMA ConserveStep ==
  ASSUME TypeOK, InBuf, Conserve, TypeOK', InBuf', [Next]_vars
  PROVE  Conserve'
<1>1. CASE ChildExit \/ UNCHANGED vars
  <2>1. UNCHANGED <<parent, pipe, sent>>
    BY <1>1 DEF ChildExit, vars, child
  <2> QED
    BY <2>1 DEF parent, Conserve, Framed, OneChunk, Whole, Conservation, Undispatched
<1> QED
  BY <1>1, ConserveWrite, ConserveChunk, ConserveAgain, ConserveDispatch, ConserveRest
     DEF Next, Parent, Child

------------------------------------------------------------------------------
\* No record is executed twice.

Once == Fresh /\ AtMostOnce

\* A new record is like none that is under way or executed.
LEMMA OnceWrite ==
  ASSUME TypeOK, Once, NEW kind \in Kind, Write(kind)
  PROVE  Once'
<1> DEFINE r == [kind |-> kind, n |-> n_rec + 1]
<1>1. r \in Record /\ r.n = n_rec + 1 /\ n_rec \in Nat /\ n_rec' = n_rec + 1
  BY NewRecord DEF TypeOK
<1> HIDE DEF r
<1>2. Executed' = Executed /\ Live' = Live /\ UNCHANGED <<read_buf, done>>
  BY DEF Write, parent, Executed, Live
<1>3. AtMostOnce'
  BY <1>2 DEF Once, AtMostOnce
<1>4. /\ \A e \in Executed : e \in Record
      /\ \A j \in Live : j \in 1 .. BufCap
      /\ \A j \in Live : Begins(read_buf[j]) => read_buf[j].rec \in Record
      /\ \A j \in 1 .. Len(pipe) : Begins(pipe[j]) => pipe[j].rec \in Record
  <2>1. \A c \in Cell : Begins(c) => c.rec \in Record
    BY DEF Cell, Begins
  <2>2. \A j \in Live : j \in 1 .. BufCap
    <3>1. p \in Nat /\ p > 0 /\ BufCap \in Nat
      BY ConstantsType DEF TypeOK
    <3>2. \A j \in p .. BufCap : j \in 1 .. BufCap
      BY <3>1
    <3> QED
      BY <3>2 DEF Live
  <2>3. \A j \in 1 .. BufCap : read_buf[j] \in Cell
    BY DEF TypeOK
  <2>4. \A j \in 1 .. Len(pipe) : pipe[j] \in Cell
    BY DEF TypeOK
  <2>5. \A e \in Executed : e \in Record
    BY DEF TypeOK, Executed
  <2> QED
    BY <2>1, <2>2, <2>3, <2>4, <2>5
<1>5. /\ \A e \in Executed : e.n <= n_rec /\ e.n <= n_rec' /\ e # r
      /\ \A j \in Live :
           Begins(read_buf[j]) => read_buf[j].rec.n <= n_rec' /\ read_buf[j].rec # r
      /\ \A j \in 1 .. Len(pipe) :
           Begins(pipe[j]) => pipe[j].rec.n <= n_rec' /\ pipe[j].rec # r
  <2>1. \A e \in Record : e.n \in Nat /\ (e.n <= n_rec => e.n <= n_rec' /\ e # r)
    BY <1>1 DEF Record
  <2> QED
    BY <1>4, <2>1 DEF Once, Fresh
<1>6. CASE ~Room(r)
  <2>1. pipe' = pipe
    BY <1>6 DEF Write, r
  <2> QED
    BY <1>2, <1>3, <1>5, <2>1 DEF Once, Fresh
<1>7. CASE Room(r)
  <2> DEFINE c == Cells(r)
             k == Len(pipe)
  <2>1. pipe' = pipe \o c
    BY <1>7 DEF Write, r
  <2>2. /\ c \in Seq(Cell) /\ Len(c) \in Nat /\ Len(c) >= 2 /\ Begins(c[1])
        /\ c[1].rec = r
        /\ \A i \in 2 .. Len(c) : ~Begins(c[i])
    BY <1>1, CellsOfRecord
  <2> HIDE DEF c
  <2>3. pipe \in Seq(Cell) /\ k \in Nat
    BY DEF TypeOK
  <2>4. /\ Len(pipe') = k + Len(c)
        /\ \A i \in 1 .. k + Len(c) : pipe'[i] = IF i <= k THEN pipe[i] ELSE c[i - k]
    BY <2>1, <2>2, <2>3, ConcatProperties
  <2> HIDE DEF k
  <2>5. ASSUME NEW i \in 1 .. Len(pipe'), Begins(pipe'[i])
        PROVE  \/ i \in 1 .. k /\ pipe'[i] = pipe[i]
               \/ i = k + 1 /\ pipe'[i].rec = r
    <3>1. CASE i <= k
      BY <2>2, <2>3, <2>4, <3>1
    <3>2. CASE i > k
      <4>1. i - k \in 1 .. Len(c) /\ pipe'[i] = c[i - k]
        BY <2>2, <2>3, <2>4, <3>2
      <4>2. i - k = 1
        BY <2>2, <2>3, <2>5, <4>1
      <4>3. i = k + 1
        BY <2>3, <4>2
      <4>4. pipe'[i] = c[1]
        BY <4>1, <4>2
      <4> QED
        BY <2>2, <4>3, <4>4
    <3> QED
      BY <2>2, <2>3, <2>4, <3>1, <3>2
  <2>6. ASSUME NEW i \in 1 .. Len(pipe'), Begins(pipe'[i])
        PROVE  /\ pipe'[i].rec.n <= n_rec'
               /\ pipe'[i].rec \notin Executed
               /\ \A j \in 1 .. Len(pipe') : pipe'[j] = pipe'[i] => j = i
               /\ \A j \in Live : pipe'[i] # read_buf[j]
    <3>1. CASE i \in 1 .. k /\ pipe'[i] = pipe[i]
      <4>1. \A j \in 1 .. Len(pipe') : pipe'[j] = pipe'[i] => j \in 1 .. k /\ pipe[j] = pipe[i]
        BY <2>5, <2>6, <3>1, <1>5 DEF k
      <4> QED
        BY <1>5, <2>6, <3>1, <4>1 DEF Once, Fresh, k
    <3>2. CASE i = k + 1 /\ pipe'[i].rec = r
      <4>1. \A j \in 1 .. Len(pipe') : pipe'[j] = pipe'[i] => j = i
        BY <2>5, <2>6, <3>2, <1>5 DEF k
      <4> QED
        BY <1>1, <1>5, <2>6, <3>2, <4>1
    <3> QED
      BY <2>5, <2>6, <3>1, <3>2
  <2>7. Fresh'
    BY <1>2, <1>5, <2>6 DEF Once, Fresh
  <2> QED
    BY <1>3, <2>7 DEF Once
<1> QED
  BY <1>6, <1>7

\* A chunk moves beginnings from the pipe to read_buf, where they may cover others.
LEMMA OnceChunk ==
  ASSUME TypeOK, Once, ReadChunk
  PROVE  Once'
<1> DEFINE n == ChunkLen
<1>1. /\ n \in 1 .. Len(pipe) /\ n < BufCap /\ n \in Nat /\ Len(pipe) \in Nat
      /\ BufCap \in Nat
  <2>1. Len(pipe) \in Nat /\ pipe # <<>>
    BY DEF ReadChunk, TypeOK
  <2> QED
    BY <2>1, ChunkFits, ConstantsType
<1> HIDE DEF n
<1>2. \A i \in 1 .. BufCap : read_buf'[i] = IF i <= n THEN pipe[i] ELSE read_buf[i]
  BY <1>1, ReadIntoBuf DEF ReadChunk, n
<1>3. Len(pipe') = Len(pipe) - n /\ \A i \in 1 .. Len(pipe') : pipe'[i] = pipe[n + i]
  BY <1>1, PipeRest DEF ReadChunk, n
<1>4. /\ Live = 1 .. BufCap /\ Live' = 1 .. BufCap /\ Executed' = Executed
      /\ UNCHANGED <<done, n_rec>>
  BY DEF ReadChunk, child, Live, Executed
<1>5. \A i \in 1 .. Len(pipe') : n + i \in 1 .. Len(pipe) /\ n + i > n
  BY <1>1, <1>3
<1>6. \A i \in 1 .. BufCap : i <= n => i \in 1 .. Len(pipe)
  BY <1>1
<1>7. ASSUME NEW i \in 1 .. Len(pipe'), Begins(pipe'[i])
      PROVE  /\ pipe'[i].rec.n <= n_rec
             /\ pipe'[i].rec \notin Executed
             /\ \A j \in 1 .. Len(pipe') : pipe'[j] = pipe'[i] => j = i
             /\ \A j \in 1 .. BufCap : pipe'[i] # read_buf'[j]
  <2>1. pipe'[i] = pipe[n + i] /\ n + i \in 1 .. Len(pipe) /\ n + i > n
    BY <1>3, <1>5
  <2>2. /\ pipe[n + i].rec.n <= n_rec /\ pipe[n + i].rec \notin Executed
        /\ \A j \in 1 .. Len(pipe) : pipe[j] = pipe[n + i] => j = n + i
        /\ \A j \in 1 .. BufCap : pipe[n + i] # read_buf[j]
    BY <1>4, <1>7, <2>1 DEF Once, Fresh
  <2>3. \A j \in 1 .. Len(pipe') : pipe'[j] = pipe'[i] => j = i
    BY <1>1, <1>3, <1>5, <2>1, <2>2
  <2>4. \A j \in 1 .. BufCap : pipe'[i] # read_buf'[j]
    <3> TAKE j \in 1 .. BufCap
    <3>1. CASE j <= n
      <4>1. read_buf'[j] = pipe[j] /\ j \in 1 .. Len(pipe)
        BY <1>2, <1>6, <3>1
      <4>2. j # n + i
        BY <1>1, <2>1, <3>1
      <4> QED
        BY <2>1, <2>2, <4>1, <4>2
    <3>2. CASE ~(j <= n)
      BY <1>2, <2>1, <2>2, <3>2
    <3> QED
      BY <3>1, <3>2
  <2> QED
    BY <2>1, <2>2, <2>3, <2>4
<1>8. ASSUME NEW i \in 1 .. BufCap, Begins(read_buf'[i])
      PROVE  /\ read_buf'[i].rec.n <= n_rec
             /\ read_buf'[i].rec \notin Executed
             /\ \A j \in 1 .. BufCap : read_buf'[j] = read_buf'[i] => j = i
  <2>1. CASE i <= n
    <3>1. i \in 1 .. Len(pipe) /\ read_buf'[i] = pipe[i]
      BY <1>2, <1>6, <2>1
    <3>2. /\ pipe[i].rec.n <= n_rec /\ pipe[i].rec \notin Executed
          /\ \A j \in 1 .. Len(pipe) : pipe[j] = pipe[i] => j = i
          /\ \A j \in 1 .. BufCap : pipe[i] # read_buf[j]
      BY <1>4, <1>8, <3>1 DEF Once, Fresh
    <3> QED
      BY <1>2, <1>6, <3>1, <3>2
  <2>2. CASE ~(i <= n)
    <3>1. read_buf'[i] = read_buf[i]
      BY <1>2, <2>2
    <3>2. /\ read_buf[i].rec.n <= n_rec /\ read_buf[i].rec \notin Executed
          /\ \A j \in 1 .. BufCap : read_buf[j] = read_buf[i] => j = i
          /\ \A j \in 1 .. Len(pipe) : pipe[j] # read_buf[i]
      BY <1>4, <1>8, <3>1 DEF Once, Fresh
    <3> QED
      BY <1>2, <1>6, <3>1, <3>2
  <2> QED
    BY <2>1, <2>2
<1>9. Fresh'
  BY <1>4, <1>7, <1>8 DEF Once, Fresh
<1> QED
  BY <1>4, <1>9 DEF Once, AtMostOnce

\* A step that only forgets cells of read_buf.
LEMMA OnceForgets ==
  ASSUME Once, UNCHANGED <<pipe, done, n_rec>>, Live' \subseteq Live,
         \A i \in Live' : Begins(read_buf'[i]) => read_buf'[i] = read_buf[i]
  PROVE  Once'
<1>1. Executed' = Executed
  BY DEF Executed
<1>2. Fresh'
  BY <1>1 DEF Once, Fresh
<1> QED
  BY <1>2 DEF Once, AtMostOnce

\* An executed record leaves the live part of read_buf with its beginning.
LEMMA OnceDispatch ==
  ASSUME TypeOK, InBuf, Once, Dispatch
  PROVE  Once'
<1>1. /\ pc = "dispatch" /\ read_acc > 0 /\ p' = p + strnlen + 1
      /\ UNCHANGED <<pc, read_buf, pipe, n_rec>>
      /\ done' = IF Intact THEN Append(done, read_buf[p].rec) ELSE done
  BY DEF Dispatch, child
<1>2. /\ strnlen \in Nat /\ p \in 1 .. BufCap /\ p \in Nat /\ BufCap \in Nat
      /\ read_buf[p] \in Cell
  BY <1>1, StrnlenStops, DispatchTakes, ConstantsType DEF TypeOK
<1>3. Live = p .. BufCap /\ p \in Live /\ Live' \subseteq Live /\ p \notin Live'
  BY <1>1, <1>2 DEF Live
<1>4. CASE ~Intact
  BY <1>1, <1>3, <1>4, OnceForgets
<1>5. CASE Intact
  <2> DEFINE r == read_buf[p].rec
  <2>1. r \in Record /\ Begins(read_buf[p])
    <3>1. read_buf[p] # Nul /\ SubSeq(read_buf, p, p + strnlen) = Cells(r)
      BY <1>5 DEF Intact
    <3>2. r \in Record
      BY <1>2, <3>1 DEF Cell
    <3>3. SubSeq(read_buf, p, p + strnlen)[1] = read_buf[p]
      <4>1. 1 \in 1 .. strnlen + 1 /\ p + 1 - 1 = p
        BY <1>2
      <4> QED
        BY <1>1, <4>1, DispatchTakes
    <3>4. Begins(Cells(r)[1])
      BY <3>2, CellsOfRecord
    <3> QED
      BY <3>1, <3>2, <3>3, <3>4
  <2>2. /\ r.n <= n_rec /\ r \notin Executed
        /\ \A j \in Live : read_buf[j] = read_buf[p] => j = p
        /\ \A i \in 1 .. Len(pipe) : Begins(pipe[i]) => pipe[i] # read_buf[p]
    BY <1>3, <2>1 DEF Once, Fresh
  <2>3. ASSUME NEW c \in Cell, Begins(c), c.rec = r
        PROVE  c = read_buf[p]
    BY <1>2, <2>1, <2>3 DEF Begins, Cell
  <2>4. /\ done \in Seq(Record) /\ Len(done) \in Nat /\ Len(done') = Len(done) + 1
        /\ done'[Len(done) + 1] = r /\ \A i \in 1 .. Len(done) : done'[i] = done[i]
    <3>1. done \in Seq(Record) /\ Len(done) \in Nat
      BY DEF TypeOK
    <3>2. done' = Append(done, r)
      BY <1>1, <1>5
    <3> QED
      BY <2>1, <3>1, <3>2, AppendProperties
  <2>5. Executed' = Executed \cup {r}
    BY <2>4 DEF Executed
  <2> HIDE DEF r
  <2>6. \A i \in 1 .. Len(pipe) : Begins(pipe[i]) => pipe[i].rec # r
    <3>1. \A i \in 1 .. Len(pipe) : pipe[i] \in Cell
      BY DEF TypeOK
    <3> QED
      BY <2>2, <2>3, <3>1
  <2>7. \A i \in Live' : Begins(read_buf[i]) => read_buf[i].rec # r
    <3>1. \A i \in Live' : read_buf[i] \in Cell /\ i \in Live /\ i # p
      BY <1>2, <1>3 DEF TypeOK
    <3> QED
      BY <2>2, <2>3, <3>1
  <2>8. Fresh'
    BY <1>1, <1>3, <2>2, <2>5, <2>6, <2>7 DEF Once, Fresh
  <2>9. AtMostOnce'
    <3>1. \A i \in 1 .. Len(done) : done[i] # r
      BY <2>2 DEF Executed
    <3>2. DOMAIN done = 1 .. Len(done) /\ DOMAIN done' = 1 .. Len(done) + 1
      <4>1. done' \in Seq(Record)
        BY <1>1, <1>5, <2>1, <2>4, AppendProperties DEF r
      <4> QED
        BY <2>4, <4>1
    <3> QED
      BY <2>4, <3>1, <3>2 DEF Once, AtMostOnce
  <2> QED
    BY <2>8, <2>9 DEF Once
<1> QED
  BY <1>4, <1>5

\* Every step keeps the beginnings of records apart.
LEMMA OnceStep ==
  ASSUME TypeOK, InBuf, Once, [Next]_vars
  PROVE  Once'
<1>1. CASE \/ Start \/ Interrupted \/ ReadEof \/ ReadFails \/ Unknown \/ Drained \/ ChildExit
           \/ UNCHANGED vars
  <2>1. UNCHANGED <<pipe, done, n_rec, read_buf>> /\ Live' \subseteq Live
    BY <1>1
       DEF Start, Interrupted, ReadEof, ReadFails, Unknown, Drained, ChildExit, vars,
       child, parent, Live
  <2> QED
    BY <2>1, OnceForgets
<1>2. CASE Wait
  <2>1. \A i \in 1 .. BufCap : ~Begins(read_buf'[i])
    BY <1>2 DEF Wait, FreshBuf, ZeroBuf, Begins
  <2>2. Live' = 1 .. BufCap /\ Executed' = Executed /\ UNCHANGED <<pipe, done, n_rec>>
    BY <1>2 DEF Wait, Live, Executed, child
  <2> QED
    BY <2>1, <2>2 DEF Once, Fresh, AtMostOnce
<1>3. CASE ReadAgain
  <2>1. /\ Live = 1 .. BufCap /\ Live' \subseteq 1 .. BufCap
        /\ UNCHANGED <<pipe, done, n_rec>>
    BY <1>3 DEF ReadAgain, Live, child
  <2>2. \A i \in 1 .. BufCap : Begins(read_buf'[i]) => read_buf'[i] = read_buf[i]
    BY <1>3 DEF ReadAgain, TypeOK, Begins
  <2> QED
    BY <2>1, <2>2, OnceForgets
<1> QED
  BY <1>1, <1>2, <1>3, OnceWrite, OnceChunk, OnceDispatch DEF Next, Parent, Child

------------------------------------------------------------------------------
\* Nothing was sent yet.
LEMMA InitIInv == Init => IInv
<1> SUFFICES ASSUME Init PROVE IInv
  OBVIOUS
<1>1. TypeOK
  <2>1. /\ child_up \in BOOLEAN /\ parent_wr \in BOOLEAN /\ hup \in BOOLEAN
        /\ spoiled \in BOOLEAN
    BY Zenon DEF Init
  <2>2. read_buf \in [1 .. BufCap -> Cell]
    BY DEF Init, ZeroBuf, Cell
  <2> QED
    BY <2>1, <2>2, ConstantsType DEF Init, TypeOK
<1>2. Framed /\ InBuf /\ OneChunk /\ Whole
  BY DEF Init, Framed, InBuf, OneChunk, Whole
<1>3. Conservation
  <2>1. Undispatched = <<>>
    BY DEF Init, Undispatched
  <2> QED
    BY <2>1 DEF Init, Conservation
<1>4. Fresh /\ AtMostOnce
  BY DEF Init, Fresh, AtMostOnce, Executed, Live
<1> QED
  BY <1>1, <1>2, <1>3, <1>4 DEF IInv

\* Every step keeps the invariant.
LEMMA NextIInv == IInv /\ [Next]_vars => IInv'
<1> SUFFICES ASSUME IInv, [Next]_vars PROVE IInv'
  OBVIOUS
<1>1. TypeOK /\ InBuf /\ Conserve /\ Once
  BY DEF IInv, Conserve, Once
<1>2. TypeOK' /\ InBuf'
  BY <1>1, TypeStep
<1>3. Conserve' /\ Once'
  BY <1>1, <1>2, ConserveStep, OnceStep
<1> QED
  BY <1>2, <1>3 DEF IInv, Conserve, Once

\* The invariant holds in every reachable state.
LEMMA InvHolds == Spec => []IInv
  BY InitIInv, NextIInv, PTL DEF Spec

\* The pipe never holds more than its capacity, and what read() puts into read_buf and
\* the dispatch loop takes out of it are cells of records, however many reads overlap.
THEOREM TypeOKHolds == Spec => []TypeOK
<1>1. IInv => TypeOK
  BY DEF IInv
<1> QED
  BY InvHolds, <1>1, PTL

\* While every drain found all there was in one read(), what was dispatched, what is in
\* read_buf and what is in the pipe together are the cells the worker wrote, in order:
\* none is lost, doubled or cut, whatever the sizes of records, buffer and pipe, and
\* read_buf is not overrun.
THEOREM ConservationHolds == Spec => []Conservation
<1>1. IInv => Conservation
  BY DEF IInv
<1> QED
  BY InvHolds, <1>1, PTL

\* No log line is written twice and no ban is set twice, not even in a drain of
\* several reads, which overwrites its own records.
THEOREM AtMostOnceHolds == Spec => []AtMostOnce
<1>1. IInv => AtMostOnce
  BY DEF IInv
<1> QED
  BY InvHolds, <1>1, PTL
==============================================================================
