--------------------------- MODULE RateLimitProofs ---------------------------
(***************************************************************************)
(* Proofs about the request limiter, for any number of clients, slots and  *)
(* any limits.                                                             *)
(***************************************************************************)
EXTENDS RateLimit, WellFoundedInduction, TLAPS

\* The smallest element the lookup's CHOOSE picks out of a set of slots.
First(S) == CHOOSE i \in S : \A j \in S : i <= j

\* A nonempty set of slots has a first element, so the lookup's CHOOSE is
\* defined and unique.
LEMMA FirstSlot ==
  ASSUME NEW S \in SUBSET Slot, S # {}
  PROVE  /\ First(S) \in S
         /\ \A j \in S : First(S) <= j
<1>1. S \subseteq Nat
  BY ConstantsType DEF Slot
<1>2. PICK x \in S : \A y \in S : ~(<<y, x>> \in OpToRel(<, Nat))
  BY <1>1, NatLessThanWellFounded, WFMin
<1>3. ASSUME NEW m \in Nat, NEW n \in Nat, m < n
      PROVE  <<m, n>> \in OpToRel(<, Nat)
  BY <1>3 DEF OpToRel
<1>4. \A y \in S : x <= y
  <2> TAKE y \in S
  <2>1. x \in Nat /\ y \in Nat
    BY <1>1
  <2>2. ~(y < x)
    BY <2>1, <1>2, <1>3
  <2> QED
    BY <2>1, <2>2
<1> QED
  BY <1>4 DEF First

\* The lookup returns a slot; it is the first match if there is one and the
\* last slot otherwise.
LEMMA LookupResult ==
  ASSUME NEW ip \in IP
  PROVE  /\ nft_i(ip) \in Slot
         /\ Matches(ip) # {} => nft_i(ip) \in Matches(ip)
         /\ \A j \in Matches(ip) : nft_i(ip) <= j
         /\ Matches(ip) = {} => nft_i(ip) = nft_arr_cap - 1
<1>1. Matches(ip) \in SUBSET Slot
  BY DEF Matches
<1>2. nft_arr_cap - 1 \in Slot
  BY ConstantsType DEF Slot
<1>3. Matches(ip) # {} => nft_i(ip) = First(Matches(ip))
  BY DEF nft_i, First
<1> QED
  BY <1>1, <1>2, <1>3, FirstSlot DEF nft_i

\* The same for the table after a step.
LEMMA LookupResultNext ==
  ASSUME NEW ip \in IP
  PROVE  /\ nft_i(ip)' \in Slot
         /\ Matches(ip)' # {} => nft_i(ip)' \in Matches(ip)'
         /\ \A j \in Matches(ip)' : nft_i(ip)' <= j
         /\ Matches(ip)' = {} => nft_i(ip)' = nft_arr_cap - 1
<1>1. Matches(ip)' \in SUBSET Slot
  BY DEF Matches
<1>2. nft_arr_cap - 1 \in Slot
  BY ConstantsType DEF Slot
<1>3. Matches(ip)' # {} => nft_i(ip)' = First(Matches(ip)')
  BY DEF nft_i, First
<1> QED
  BY <1>1, <1>2, <1>3, FirstSlot DEF nft_i

------------------------------------------------------------------------------
\* Every request changes the table in one slot only, the one the lookup gave,
\* and leaves the owner that the lookup left there.
TableStep(p) ==
  \E s \in FwsNft :
    /\ s.ip = Claimed(p)[nft_i(p)].ip
    /\ nft_arr' = [Claimed(p) EXCEPT ![nft_i(p)] = s]

\* The table after a request, slot by slot.
LEMMA TableAfter ==
  ASSUME TypeOK, NEW p \in IP, TableStep(p)
  PROVE  /\ nft_i(p) \in Slot
         /\ nft_arr' \in [Slot -> FwsNft]
         /\ \A j \in Slot : j # nft_i(p) => nft_arr'[j] = nft_arr[j]
         /\ Matches(p) = {} => \A j \in Slot : nft_arr'[j].ip = nft_arr[j].ip
         /\ Matches(p) # {} => nft_arr'[nft_i(p)].ip = p
<1>1. nft_i(p) \in Slot
  BY LookupResult
<1>2. Claimed(p) \in [Slot -> FwsNft]
  BY <1>1 DEF Claimed, TypeOK, FwsNft
<1>3. /\ \A j \in Slot : j # nft_i(p) => Claimed(p)[j] = nft_arr[j]
      /\ Matches(p) = {} => Claimed(p)[nft_i(p)].ip = nft_arr[nft_i(p)].ip
      /\ Matches(p) # {} => Claimed(p)[nft_i(p)].ip = p
  BY <1>1 DEF Claimed, TypeOK, FwsNft
<1>4. PICK s \in FwsNft : /\ s.ip = Claimed(p)[nft_i(p)].ip
                          /\ nft_arr' = [Claimed(p) EXCEPT ![nft_i(p)] = s]
  BY DEF TableStep
<1> QED
  BY <1>1, <1>2, <1>3, <1>4

\* A request keeps the table a list of distinct owners.
LEMMA TableStaysWellFormed ==
  ASSUME TypeOK, SlotsWellFormed, NEW p \in IP, TableStep(p)
  PROVE  SlotsWellFormed'
<1> DEFINE k == nft_i(p)
<1>1. Slot \subseteq Nat
  BY ConstantsType DEF Slot
<1>2. CASE Matches(p) = {}
  BY <1>2, TableAfter DEF SlotsWellFormed
<1>3. CASE Matches(p) # {}
  <2>1. /\ k \in Slot
        /\ nft_arr[k].ip \in {p, EmptyIP}
        /\ \A j \in Slot : nft_arr[j].ip \in {p, EmptyIP} => k <= j
    BY <1>3, LookupResult DEF Matches
  <2>2. /\ \A j \in Slot : j # k => nft_arr'[j] = nft_arr[j]
        /\ nft_arr'[k].ip = p
    BY <1>3, TableAfter
  <2>3. p # EmptyIP
    BY ConstantsType
  <2>4. ASSUME NEW j \in Slot, nft_arr[j].ip = p PROVE j = k
    <3>1. CASE nft_arr[k].ip = p
      BY <3>1, <2>1, <2>3, <2>4 DEF SlotsWellFormed
    <3>2. CASE nft_arr[k].ip = EmptyIP
      BY <3>2, <2>1, <2>3, <2>4 DEF SlotsWellFormed
    <3> QED
      BY <2>1, <3>1, <3>2
  <2>5. ASSUME NEW i \in Slot, NEW j \in Slot,
               nft_arr'[i].ip = nft_arr'[j].ip, nft_arr'[i].ip # EmptyIP
        PROVE  i = j
    BY <2>2, <2>4, <2>5 DEF SlotsWellFormed
  <2>6. ASSUME NEW i \in Slot, NEW j \in Slot, nft_arr'[i].ip = EmptyIP, i <= j
        PROVE  nft_arr'[j].ip = EmptyIP
    <3>1. i # k /\ nft_arr[i].ip = EmptyIP
      BY <2>2, <2>3, <2>6
    <3>2. nft_arr[j].ip = EmptyIP
      BY <2>6, <3>1 DEF SlotsWellFormed
    <3>3. k <= i
      BY <2>1, <3>1
    <3>4. j # k
      BY <1>1, <2>1, <2>6, <3>1, <3>3
    <3> QED
      BY <2>2, <3>2, <3>4
  <2> QED
    BY <2>5, <2>6 DEF SlotsWellFormed
<1> QED
  BY <1>2, <1>3

\* A request moves neither its own client nor any other client whose slot is
\* taken to another slot.
LEMMA LookupStable ==
  ASSUME TypeOK, NEW p \in IP, TableStep(p), NEW q \in IP,
         q = p \/ nft_arr[nft_i(q)].ip # EmptyIP
  PROVE  nft_i(q)' = nft_i(q)
<1> DEFINE k == nft_i(p)
<1>1. Slot \subseteq Nat
  BY ConstantsType DEF Slot
<1>2. p # EmptyIP /\ q # EmptyIP
  BY ConstantsType
<1>3. /\ k \in Slot
      /\ \A j \in Slot : j # k => nft_arr'[j] = nft_arr[j]
      /\ Matches(p) = {} => \A j \in Slot : nft_arr'[j].ip = nft_arr[j].ip
      /\ Matches(p) # {} => nft_arr'[k].ip = p
      /\ Matches(p) # {} => nft_arr[k].ip \in {p, EmptyIP}
  BY TableAfter, LookupResult DEF Matches
<1>4. CASE Matches(q) = {}
  <2>1. \A j \in Slot : nft_arr[j].ip # EmptyIP /\ nft_arr[j].ip # q
    BY <1>4 DEF Matches
  <2>2. \A j \in Slot : nft_arr'[j].ip = nft_arr[j].ip
    BY <1>3, <2>1
  <2>3. Matches(q)' = {}
    BY <2>1, <2>2 DEF Matches
  <2> QED
    BY <1>4, <2>3, LookupResult, LookupResultNext
<1>5. CASE Matches(q) # {}
  <2>1. /\ nft_i(q) \in Slot
        /\ nft_arr[nft_i(q)].ip \in {q, EmptyIP}
        /\ \A j \in Matches(q) : nft_i(q) <= j
    BY <1>5, LookupResult DEF Matches
  <2>2. nft_arr'[nft_i(q)].ip = q
    BY <1>2, <1>3, <1>5, <2>1
  <2>3. nft_i(q) \in Matches(q)'
    BY <2>1, <2>2 DEF Matches
  <2>4. \A j \in Matches(q)' : j \in Matches(q)
    <3>1. ASSUME NEW j \in Slot, nft_arr'[j].ip \in {q, EmptyIP}
          PROVE  nft_arr[j].ip \in {q, EmptyIP}
      BY <1>2, <1>3, <3>1
    <3> QED
      BY <3>1 DEF Matches
  <2>5. /\ nft_i(q)' \in Slot
        /\ nft_i(q)' \in Matches(q)'
        /\ \A j \in Matches(q)' : nft_i(q)' <= j
    BY <2>3, LookupResultNext
  <2>6. nft_i(q)' <= nft_i(q) /\ nft_i(q) <= nft_i(q)'
    BY <2>1, <2>3, <2>4, <2>5
  <2>7. nft_i(q) \in Nat /\ nft_i(q)' \in Nat
    BY <1>1, <2>1, <2>5
  <2> HIDE DEF k
  <2> QED
    BY <2>6, <2>7
<1> QED
  BY <1>4, <1>5

------------------------------------------------------------------------------
\* The limiter's inductive invariant.  ServedBound alone is not inductive: what
\* keeps a client within its quota is that the slot it will be charged to next
\* still counts all it was given (Accounted), and that holds from step to step
\* only while nobody can lose or double a slot (SlotsWellFormed).
IInv ==
  /\ TypeOK
  /\ SlotsWellFormed
  /\ Accounted
  /\ ServedBound

\* The counters move as the verdicts suppose: below the limit there is no
\* wrap-around.
LEMMA IncBelowLimit ==
  ASSUME NEW n \in Counter
  PROVE  /\ Inc(n) \in Counter
         /\ n + 1 < CntMod => Inc(n) = n + 1
  BY ConstantsType DEF Inc, Counter

\* The slot a request is charged to, when it was not over the limit before.
LEMMA ChargedSlot ==
  ASSUME LimitsFit, NEW s \in FwsNft, ~Over(s),
         NEW is_html \in BOOLEAN, NEW status_code \in StatusCode
  PROVE  LET c == Charged(s, is_html, status_code)
             page == is_html \/ status_code # 0
         IN /\ c \in FwsNft
            /\ c.ip = s.ip
            /\ c.dos_cnt = s.dos_cnt
            /\ c.html_cnt = IF page THEN s.html_cnt + 1 ELSE s.html_cnt
            /\ c.no_html_cnt = IF page THEN s.no_html_cnt ELSE s.no_html_cnt + 1
<1>1. /\ s.html_cnt \in Counter
      /\ s.no_html_cnt \in Counter
  BY DEF FwsNft
<1>2. /\ s.html_cnt + 1 < CntMod
      /\ s.no_html_cnt + 1 < CntMod
  BY <1>1, ConstantsType DEF LimitsFit, Over, Counter
<1>3. /\ Inc(s.html_cnt) = s.html_cnt + 1
      /\ Inc(s.no_html_cnt) = s.no_html_cnt + 1
      /\ Inc(s.html_cnt) \in Counter
      /\ Inc(s.no_html_cnt) \in Counter
  BY <1>1, <1>2, IncBelowLimit
<1> QED
  BY <1>3 DEF Charged, FwsNft

\* What a client was given before stays accounted for when p's request changes
\* only p's slot and does not lower its counters.
LEMMA OthersAccounted ==
  ASSUME IInv, NEW p \in IP, TableStep(p),
         nft_arr'[nft_i(p)].html_cnt >= nft_arr[nft_i(p)].html_cnt,
         nft_arr'[nft_i(p)].no_html_cnt >= nft_arr[nft_i(p)].no_html_cnt,
         NEW q \in IP
  PROVE  /\ nft_arr'[nft_i(q)'].html_cnt >= served_page[q]
         /\ nft_arr'[nft_i(q)'].no_html_cnt >= served_res[q]
         /\ Seen(q) \/ q = p => /\ nft_i(q)' = nft_i(q)
                                /\ nft_arr'[nft_i(q)'].ip # EmptyIP
<1>1. /\ nft_i(q) \in Slot /\ nft_i(q)' \in Slot /\ nft_i(p) \in Slot
  BY LookupResult, LookupResultNext
<1>2. /\ nft_arr' \in [Slot -> FwsNft]
      /\ nft_arr \in [Slot -> FwsNft]
      /\ served_page \in [IP -> Nat]
      /\ served_res \in [IP -> Nat]
      /\ refused \in [IP -> Nat]
  BY TableAfter DEF IInv, TypeOK
<1>3. ASSUME NEW j \in Slot
      PROVE  /\ nft_arr'[j].html_cnt \in Nat /\ nft_arr[j].html_cnt \in Nat
             /\ nft_arr'[j].no_html_cnt \in Nat /\ nft_arr[j].no_html_cnt \in Nat
  BY <1>2, ConstantsType DEF FwsNft, Counter
<1>4. CASE ~Seen(q) /\ q # p
  <2>1. served_page[q] = 0 /\ served_res[q] = 0
    BY <1>2, <1>4 DEF Seen
  <2> QED
    BY <1>1, <1>3, <1>4, <2>1
<1>5. CASE Seen(q) \/ q = p
  <2>1. Seen(q) => nft_arr[nft_i(q)].ip # EmptyIP
    BY DEF IInv, Accounted
  <2>2. nft_i(q)' = nft_i(q)
    BY <1>5, <2>1, LookupStable DEF IInv
  <2>3. /\ served_page[q] <= nft_arr[nft_i(q)].html_cnt
        /\ served_res[q] <= nft_arr[nft_i(q)].no_html_cnt
    BY DEF IInv, Accounted
  <2>4. /\ nft_arr'[nft_i(q)].html_cnt >= nft_arr[nft_i(q)].html_cnt
        /\ nft_arr'[nft_i(q)].no_html_cnt >= nft_arr[nft_i(q)].no_html_cnt
    BY <1>1, <1>3, TableAfter DEF IInv
  <2>5. nft_arr'[nft_i(q)].ip # EmptyIP
    <3>1. CASE Matches(p) = {}
      <4>1. \A j \in Slot : nft_arr[j].ip # EmptyIP
        BY <3>1 DEF Matches
      <4> QED
        BY <1>1, <3>1, <4>1, TableAfter DEF IInv
    <3>2. CASE Matches(p) # {}
      BY <1>1, <1>5, <2>1, <3>2, TableAfter, ConstantsType DEF IInv
    <3> QED
      BY <3>1, <3>2
  <2> QED
    BY <1>1, <1>2, <1>3, <2>2, <2>3, <2>4, <2>5
<1> QED
  BY <1>4, <1>5

\* The slot the lookup hands to the verdicts: a slot of the table, with the
\* counters it had.
LEMMA ClaimedSlot ==
  ASSUME TypeOK, NEW p \in IP
  PROVE  /\ nft_i(p) \in Slot
         /\ Claimed(p) \in [Slot -> FwsNft]
         /\ Claimed(p)[nft_i(p)].html_cnt = nft_arr[nft_i(p)].html_cnt
         /\ Claimed(p)[nft_i(p)].no_html_cnt = nft_arr[nft_i(p)].no_html_cnt
<1>1. nft_i(p) \in Slot
  BY LookupResult
<1> QED
  BY <1>1 DEF Claimed, TypeOK, FwsNft

\* Charging a slot leaves it a slot of the same owner, also where a counter wraps.
LEMMA ChargedOwner ==
  ASSUME NEW s \in FwsNft, NEW is_html \in BOOLEAN, NEW status_code \in StatusCode
  PROVE  /\ Charged(s, is_html, status_code) \in FwsNft
         /\ Charged(s, is_html, status_code).ip = s.ip
<1>1. Inc(s.html_cnt) \in Counter /\ Inc(s.no_html_cnt) \in Counter
  BY IncBelowLimit DEF FwsNft
<1> QED
  BY <1>1 DEF Charged, FwsNft

\* Every request, whatever its verdict, is a table step.
LEMMA RequestTableStep ==
  ASSUME TypeOK, NEW p \in IP,
         NEW is_html \in BOOLEAN, NEW status_code \in StatusCode,
         Request(p, is_html, status_code)
  PROVE  TableStep(p)
<1> DEFINE k == nft_i(p)
           old == Claimed(p)[k]
           charged == Charged(old, is_html, status_code)
<1>1. k \in Slot /\ Claimed(p) \in [Slot -> FwsNft] /\ old \in FwsNft
  BY ClaimedSlot
<1>2. CASE RefuseAgain(p)
  <2>1. nft_arr' = [Claimed(p) EXCEPT ![k] = [old EXCEPT !.dos_cnt = Inc(@)]]
    BY <1>1, <1>2 DEF RefuseAgain
  <2>2. /\ [old EXCEPT !.dos_cnt = Inc(@)] \in FwsNft
        /\ [old EXCEPT !.dos_cnt = Inc(@)].ip = old.ip
    BY <1>1, IncBelowLimit DEF FwsNft
  <2> QED
    BY <2>1, <2>2 DEF TableStep
<1>3. CASE RefuseFirst(p, is_html, status_code)
  <2>1. charged \in FwsNft /\ charged.ip = old.ip
    BY <1>1, ChargedOwner
  <2>2. nft_arr' = [Claimed(p) EXCEPT ![k] = [charged EXCEPT !.dos_cnt = Inc(@)]]
    BY <1>3 DEF RefuseFirst
  <2> HIDE DEF charged
  <2>3. /\ [charged EXCEPT !.dos_cnt = Inc(@)] \in FwsNft
        /\ [charged EXCEPT !.dos_cnt = Inc(@)].ip = old.ip
    BY <2>1, IncBelowLimit DEF FwsNft
  <2> QED
    BY <2>2, <2>3 DEF TableStep
<1>4. CASE Serve(p, is_html, status_code)
  <2>1. charged \in FwsNft /\ charged.ip = old.ip
    BY <1>1, ChargedOwner
  <2>2. nft_arr' = [Claimed(p) EXCEPT ![k] = charged]
    BY <1>4 DEF Serve
  <2> HIDE DEF charged
  <2> QED
    BY <2>1, <2>2 DEF TableStep
<1> QED
  BY <1>2, <1>3, <1>4 DEF Request

\* A further refusal keeps the invariant.
LEMMA RefuseAgainStep ==
  ASSUME IInv, NEW p \in IP, RefuseAgain(p)
  PROVE  IInv'
<1> DEFINE k == nft_i(p)
           old == Claimed(p)[k]
           new == [old EXCEPT !.dos_cnt = Inc(@)]
<1>1. TypeOK /\ ServedBound
  BY DEF IInv
<1>2. k \in Slot /\ Claimed(p) \in [Slot -> FwsNft] /\ old \in FwsNft
  BY <1>1, ClaimedSlot
<1>3. new \in FwsNft /\ new.ip = old.ip
      /\ new.html_cnt = old.html_cnt /\ new.no_html_cnt = old.no_html_cnt
  BY <1>2, IncBelowLimit DEF FwsNft
<1>4. nft_arr' = [Claimed(p) EXCEPT ![k] = new]
  BY <1>2 DEF RefuseAgain
<1>5. TableStep(p)
  BY <1>3, <1>4 DEF TableStep
<1>6. /\ served_page' = served_page /\ served_res' = served_res
      /\ refused' = [refused EXCEPT ![p] = @ + 1]
      /\ ban_sent' \in SUBSET IP
  BY <1>1 DEF RefuseAgain, TypeOK
<1>7. TypeOK'
  BY <1>1, <1>5, <1>6, TableAfter DEF TypeOK
<1>8. SlotsWellFormed'
  BY <1>5, TableStaysWellFormed DEF IInv
<1>9. Accounted'
  <2>1. nft_arr'[k] = new
    BY <1>2, <1>4
  <2>2. /\ nft_arr'[k].html_cnt >= nft_arr[k].html_cnt
        /\ nft_arr'[k].no_html_cnt >= nft_arr[k].no_html_cnt
    BY <2>1, <1>1, <1>2, <1>3, ClaimedSlot, ConstantsType DEF FwsNft, Counter
  <2>3. \A q \in IP : q # p => refused'[q] = refused[q]
    BY <1>1, <1>6 DEF TypeOK
  <2>4. \A q \in IP : Seen(q)' => Seen(q) \/ q = p
    BY <1>6, <2>3 DEF Seen
  <2>5. ASSUME NEW q \in IP
        PROVE  /\ Seen(q)' => nft_arr'[nft_i(q)'].ip # EmptyIP
               /\ nft_arr'[nft_i(q)'].html_cnt >= served_page'[q]
               /\ nft_arr'[nft_i(q)'].no_html_cnt >= served_res'[q]
    BY <1>5, <1>6, <2>2, <2>4, OthersAccounted
  <2>6. ASSUME NEW q \in IP
        PROVE  /\ served_page'[q] \in Nat /\ served_res'[q] \in Nat
               /\ nft_arr'[nft_i(q)'].html_cnt \in Nat
               /\ nft_arr'[nft_i(q)'].no_html_cnt \in Nat
    BY <1>7, LookupResultNext, ConstantsType DEF TypeOK, FwsNft, Counter
  <2> QED
    BY <2>5, <2>6 DEF Accounted
<1>10. ServedBound'
  BY <1>1, <1>6 DEF ServedBound
<1> QED
  BY <1>7, <1>8, <1>9, <1>10 DEF IInv

\* The first refusal keeps the invariant.
LEMMA RefuseFirstStep ==
  ASSUME LimitsFit, IInv, NEW p \in IP,
         NEW is_html \in BOOLEAN, NEW status_code \in StatusCode,
         RefuseFirst(p, is_html, status_code)
  PROVE  IInv'
<1> DEFINE k == nft_i(p)
           old == Claimed(p)[k]
           charged == Charged(old, is_html, status_code)
           new == [charged EXCEPT !.dos_cnt = Inc(@)]
<1>1. TypeOK /\ ServedBound
  BY DEF IInv
<1>2. k \in Slot /\ Claimed(p) \in [Slot -> FwsNft] /\ old \in FwsNft
  BY <1>1, ClaimedSlot
<1>3. /\ charged \in FwsNft /\ charged.ip = old.ip
      /\ charged.html_cnt \in {old.html_cnt, old.html_cnt + 1}
      /\ charged.no_html_cnt \in {old.no_html_cnt, old.no_html_cnt + 1}
  <2>1. ~Over(old)
    BY DEF RefuseFirst
  <2> QED
    BY <1>2, <2>1, ChargedSlot
<1>4. new \in FwsNft /\ new.ip = old.ip
      /\ new.html_cnt = charged.html_cnt /\ new.no_html_cnt = charged.no_html_cnt
  <2> HIDE DEF charged
  <2> QED
    BY <1>3, IncBelowLimit DEF FwsNft
<1>5. nft_arr' = [Claimed(p) EXCEPT ![k] = new]
  BY DEF RefuseFirst
<1>6. TableStep(p)
  <2> HIDE DEF new
  <2> QED
    BY <1>4, <1>5 DEF TableStep
<1>7. /\ served_page' = served_page /\ served_res' = served_res
      /\ refused' = [refused EXCEPT ![p] = @ + 1]
      /\ ban_sent' = ban_sent
  BY DEF RefuseFirst
<1>8. TypeOK'
  BY <1>1, <1>6, <1>7, TableAfter DEF TypeOK
<1>9. SlotsWellFormed'
  BY <1>6, TableStaysWellFormed DEF IInv
<1>10. Accounted'
  <2>1. nft_arr'[k] = new
    BY <1>2, <1>5
  <2>2. /\ nft_arr'[k].html_cnt >= nft_arr[k].html_cnt
        /\ nft_arr'[k].no_html_cnt >= nft_arr[k].no_html_cnt
    <3>1. /\ old.html_cnt = nft_arr[k].html_cnt /\ old.html_cnt \in Nat
          /\ old.no_html_cnt = nft_arr[k].no_html_cnt /\ old.no_html_cnt \in Nat
      BY <1>1, <1>2, ClaimedSlot, ConstantsType DEF FwsNft, Counter
    <3> HIDE DEF new, charged, old
    <3> QED
      BY <2>1, <1>3, <1>4, <3>1
  <2>3. \A q \in IP : q # p => refused'[q] = refused[q]
    BY <1>1, <1>7 DEF TypeOK
  <2>4. \A q \in IP : Seen(q)' => Seen(q) \/ q = p
    BY <1>7, <2>3 DEF Seen
  <2>5. ASSUME NEW q \in IP
        PROVE  /\ Seen(q)' => nft_arr'[nft_i(q)'].ip # EmptyIP
               /\ nft_arr'[nft_i(q)'].html_cnt >= served_page'[q]
               /\ nft_arr'[nft_i(q)'].no_html_cnt >= served_res'[q]
    BY <1>6, <1>7, <2>2, <2>4, OthersAccounted
  <2>6. ASSUME NEW q \in IP
        PROVE  /\ served_page'[q] \in Nat /\ served_res'[q] \in Nat
               /\ nft_arr'[nft_i(q)'].html_cnt \in Nat
               /\ nft_arr'[nft_i(q)'].no_html_cnt \in Nat
    BY <1>8, LookupResultNext, ConstantsType DEF TypeOK, FwsNft, Counter
  <2> QED
    BY <2>5, <2>6 DEF Accounted
<1>11. ServedBound'
  BY <1>1, <1>7 DEF ServedBound
<1> QED
  BY <1>8, <1>9, <1>10, <1>11 DEF IInv

\* A served request keeps the invariant: its charge is the one that bounds it.
LEMMA ServeStep ==
  ASSUME LimitsFit, IInv, NEW p \in IP,
         NEW is_html \in BOOLEAN, NEW status_code \in StatusCode,
         Serve(p, is_html, status_code)
  PROVE  IInv'
<1> DEFINE k == nft_i(p)
           old == Claimed(p)[k]
           new == Charged(old, is_html, status_code)
           page == is_html \/ status_code # 0
<1>1. TypeOK /\ ServedBound
  BY DEF IInv
<1>2. k \in Slot /\ Claimed(p) \in [Slot -> FwsNft] /\ old \in FwsNft
  BY <1>1, ClaimedSlot
<1>3. /\ new \in FwsNft /\ new.ip = old.ip
      /\ new.html_cnt = IF page THEN old.html_cnt + 1 ELSE old.html_cnt
      /\ new.no_html_cnt = IF page THEN old.no_html_cnt ELSE old.no_html_cnt + 1
  <2>1. ~Over(old)
    BY DEF Serve
  <2> QED
    BY <1>2, <2>1, ChargedSlot
<1>4. ~Over(new)
  BY DEF Serve
<1>5. nft_arr' = [Claimed(p) EXCEPT ![k] = new]
  BY DEF Serve
<1>6. TableStep(p)
  <2> HIDE DEF new
  <2> QED
    BY <1>3, <1>5 DEF TableStep
<1>7. /\ served_page' = IF page THEN [served_page EXCEPT ![p] = @ + 1] ELSE served_page
      /\ served_res' = IF page THEN served_res ELSE [served_res EXCEPT ![p] = @ + 1]
      /\ refused' = refused /\ ban_sent' = ban_sent
  BY DEF Serve
<1>8. TypeOK'
  BY <1>1, <1>6, <1>7, TableAfter DEF TypeOK
<1>9. SlotsWellFormed'
  BY <1>6, TableStaysWellFormed DEF IInv
<1>10. /\ old.html_cnt = nft_arr[k].html_cnt /\ old.html_cnt \in Nat
       /\ old.no_html_cnt = nft_arr[k].no_html_cnt /\ old.no_html_cnt \in Nat
  BY <1>1, <1>2, ClaimedSlot, ConstantsType DEF FwsNft, Counter
<1>11. nft_arr'[k] = new
  BY <1>2, <1>5
<1>12. /\ nft_arr'[k].html_cnt >= nft_arr[k].html_cnt
       /\ nft_arr'[k].no_html_cnt >= nft_arr[k].no_html_cnt
  <2> HIDE DEF new, old, page
  <2> QED
    BY <1>3, <1>10, <1>11
<1>13. /\ served_page[p] <= old.html_cnt /\ served_page[p] \in Nat
       /\ served_res[p] <= old.no_html_cnt /\ served_res[p] \in Nat
  <2> HIDE DEF old
  <2> QED
    BY <1>10 DEF IInv, Accounted, TypeOK
<1>14. /\ served_page'[p] = IF page THEN served_page[p] + 1 ELSE served_page[p]
       /\ served_res'[p] = IF page THEN served_res[p] ELSE served_res[p] + 1
       /\ \A q \in IP : q # p => /\ served_page'[q] = served_page[q]
                                 /\ served_res'[q] = served_res[q]
  <2> HIDE DEF page
  <2> QED
    BY <1>1, <1>7 DEF TypeOK
<1>15. served_page'[p] <= new.html_cnt /\ served_res'[p] <= new.no_html_cnt
  <2> HIDE DEF new, old, page
  <2> QED
    BY <1>3, <1>10, <1>13, <1>14
<1>16. Accounted'
  <2>1. \A q \in IP : Seen(q)' => Seen(q) \/ q = p
    <3> HIDE DEF page
    <3> QED
      BY <1>7, <1>14 DEF Seen
  <2>2. nft_i(p)' = nft_i(p)
    BY <1>6, <1>12, OthersAccounted
  <2>3. ASSUME NEW q \in IP
        PROVE  /\ served_page'[q] \in Nat /\ served_res'[q] \in Nat
               /\ nft_arr'[nft_i(q)'].html_cnt \in Nat
               /\ nft_arr'[nft_i(q)'].no_html_cnt \in Nat
    BY <1>8, LookupResultNext, ConstantsType DEF TypeOK, FwsNft, Counter
  <2>4. ASSUME NEW q \in IP
        PROVE  /\ Seen(q)' => nft_arr'[nft_i(q)'].ip # EmptyIP
               /\ served_page'[q] <= nft_arr'[nft_i(q)'].html_cnt
               /\ served_res'[q] <= nft_arr'[nft_i(q)'].no_html_cnt
    <3>1. Seen(q)' => nft_arr'[nft_i(q)'].ip # EmptyIP
      BY <1>6, <1>12, <2>1, OthersAccounted
    <3>2. CASE q = p
      <4> HIDE DEF new
      <4> QED
        BY <1>11, <1>15, <2>2, <3>1, <3>2
    <3>3. CASE q # p
      <4>1. /\ nft_arr'[nft_i(q)'].html_cnt >= served_page[q]
            /\ nft_arr'[nft_i(q)'].no_html_cnt >= served_res[q]
        BY <1>6, <1>12, OthersAccounted
      <4>2. served_page'[q] = served_page[q] /\ served_res'[q] = served_res[q]
        BY <1>14, <3>3
      <4> HIDE DEF k, new, old, page
      <4> QED
        BY <2>3, <3>1, <4>1, <4>2
    <3> QED
      BY <3>2, <3>3
  <2> QED
    BY <2>4 DEF Accounted
<1>17. ServedBound'
  <2>1. new.html_cnt \in Nat /\ new.no_html_cnt \in Nat
    <3> HIDE DEF new
    <3> QED
      BY <1>3, ConstantsType DEF FwsNft, Counter
  <2>2. served_page'[p] <= lim_page /\ served_res'[p] <= lim_res
    <3>1. served_page'[p] \in Nat /\ served_res'[p] \in Nat
      BY <1>8 DEF TypeOK
    <3>2. new.html_cnt <= lim_page /\ new.no_html_cnt <= lim_res
      <4> HIDE DEF new
      <4> QED
        BY <1>4, <2>1, ConstantsType DEF Over
    <3> HIDE DEF new, old, page
    <3> QED
      BY <1>15, <2>1, <3>1, <3>2, ConstantsType
  <2>3. \A q \in IP : q # p => served_page'[q] <= lim_page /\ served_res'[q] <= lim_res
    BY <1>1, <1>14 DEF ServedBound
  <2> QED
    BY <2>2, <2>3 DEF ServedBound
<1> QED
  BY <1>8, <1>9, <1>16, <1>17 DEF IInv

\* A cleared table satisfies the invariant: the initial state and the state
\* after the timer event.
LEMMA ClearedTable ==
  ASSUME nft_arr = [i \in Slot |-> FreeSlot],
         served_page = Zero, served_res = Zero, refused = Zero, ban_sent = {}
  PROVE  IInv
<1>1. FreeSlot \in FwsNft /\ FreeSlot.ip = EmptyIP
      /\ FreeSlot.html_cnt = 0 /\ FreeSlot.no_html_cnt = 0
  BY ConstantsType DEF FreeSlot, FwsNft, Counter
<1>2. TypeOK
  BY <1>1 DEF TypeOK, Zero
<1>3. SlotsWellFormed
  BY <1>1 DEF SlotsWellFormed
<1>4. \A q \in IP : ~Seen(q) /\ served_page[q] = 0 /\ served_res[q] = 0
  BY DEF Seen, Zero
<1>5. \A q \in IP : nft_i(q) \in Slot
  BY LookupResult
<1>6. Accounted
  BY <1>1, <1>4, <1>5 DEF Accounted
<1>7. ServedBound
  BY <1>4, ConstantsType DEF ServedBound
<1> QED
  BY <1>2, <1>3, <1>6, <1>7 DEF IInv

\* The timer event re-establishes the invariant whatever the table held.
LEMMA TimerStep ==
  ASSUME Timer
  PROVE  IInv'
<1>1. FreeSlot \in FwsNft /\ FreeSlot.ip = EmptyIP
      /\ FreeSlot.html_cnt = 0 /\ FreeSlot.no_html_cnt = 0
  BY ConstantsType DEF FreeSlot, FwsNft, Counter
<1>2. TypeOK'
  BY <1>1 DEF TypeOK, Timer, Zero
<1>3. SlotsWellFormed'
  BY <1>1 DEF SlotsWellFormed, Timer
<1>4. \A q \in IP : ~Seen(q)' /\ served_page'[q] = 0 /\ served_res'[q] = 0
  BY DEF Seen, Timer, Zero
<1>5. \A q \in IP : nft_i(q)' \in Slot
  BY LookupResultNext
<1>6. Accounted'
  BY <1>1, <1>4, <1>5 DEF Accounted, Timer
<1>7. ServedBound'
  BY <1>4, ConstantsType DEF ServedBound
<1> QED
  BY <1>2, <1>3, <1>6, <1>7 DEF IInv

------------------------------------------------------------------------------
\* Every step of the worker keeps the invariant.
LEMMA NextStep ==
  ASSUME LimitsFit, IInv, [Next]_vars
  PROVE  IInv'
<1>1. CASE Next
  <2>1. ASSUME NEW p \in IP, NEW is_html \in BOOLEAN, NEW status_code \in StatusCode,
               Request(p, is_html, status_code)
        PROVE  IInv'
    BY <2>1, RefuseAgainStep, RefuseFirstStep, ServeStep DEF Request
  <2>2. CASE Timer
    BY <2>2, TimerStep
  <2> QED
    BY <1>1, <2>1, <2>2 DEF Next
<1>2. CASE UNCHANGED vars
  <2>1. /\ nft_arr' = nft_arr /\ served_page' = served_page
        /\ served_res' = served_res /\ refused' = refused /\ ban_sent' = ban_sent
    BY <1>2 DEF vars, history
  <2>2. \A q \in IP : nft_i(q)' = nft_i(q) /\ Seen(q)' = Seen(q)
    BY <2>1 DEF nft_i, Matches, Seen
  <2> QED
    BY <2>1, <2>2 DEF IInv, TypeOK, SlotsWellFormed, Accounted, ServedBound
<1> QED
  BY <1>1, <1>2

\* When the u16 counters can represent one more than each limit, the limiter of
\* fws.c keeps its table well formed, never forgets what a client was served,
\* and gives no client more than its quota in a window: for any number of
\* clients, any table size and any limits, full table included.
THEOREM QuotaKept ==
  ASSUME LimitsFit
  PROVE  Spec => [](TypeOK /\ SlotsWellFormed /\ Accounted /\ ServedBound)
<1>1. Init => IInv
  BY ClearedTable DEF Init
<1>2. IInv /\ [Next]_vars => IInv'
  BY NextStep
<1>3. IInv => TypeOK /\ SlotsWellFormed /\ Accounted /\ ServedBound
  BY DEF IInv
<1> QED
  BY <1>1, <1>2, <1>3, PTL DEF Spec

\* The same for the bound on its own: no client is served beyond LIM_PAGE pages
\* or LIM_RES resources before the timer starts a new window.
THEOREM ServedBoundHolds ==
  ASSUME LimitsFit
  PROVE  Spec => []ServedBound
<1>1. Init => IInv
  BY ClearedTable DEF Init
<1>2. IInv /\ [Next]_vars => IInv'
  BY NextStep
<1>3. IInv => ServedBound
  BY DEF IInv
<1> QED
  BY <1>1, <1>2, <1>3, PTL DEF Spec

\* Whatever the limits, and also where a counter wraps: no client owns two slots
\* and no used slot hides behind a free one, so the lookup loop of
\* _fws_443_run is right to take the first match.
THEOREM TableKept == Spec => [](TypeOK /\ SlotsWellFormed)
<1>1. Init => TypeOK /\ SlotsWellFormed
  BY ClearedTable DEF Init, IInv
<1>2. ASSUME TypeOK, SlotsWellFormed, [Next]_vars
      PROVE  TypeOK' /\ SlotsWellFormed'
  <2>1. ASSUME NEW p \in IP, NEW is_html \in BOOLEAN, NEW status_code \in StatusCode,
               Request(p, is_html, status_code)
        PROVE  TypeOK' /\ SlotsWellFormed'
    <3>1. TableStep(p)
      BY <1>2, <2>1, RequestTableStep
    <3>2. nft_arr' \in [Slot -> FwsNft] /\ SlotsWellFormed'
      BY <1>2, <3>1, TableAfter, TableStaysWellFormed
    <3>3. /\ served_page' \in [IP -> Nat] /\ served_res' \in [IP -> Nat]
          /\ refused' \in [IP -> Nat] /\ ban_sent' \in SUBSET IP
      BY <1>2, <2>1 DEF Request, RefuseAgain, RefuseFirst, Serve, TypeOK
    <3> QED
      BY <3>2, <3>3 DEF TypeOK
  <2>2. CASE Timer
    BY <2>2, TimerStep DEF IInv
  <2>3. CASE UNCHANGED vars
    BY <1>2, <2>3 DEF vars, history, TypeOK, SlotsWellFormed
  <2> QED
    BY <1>2, <2>1, <2>2, <2>3 DEF Next
<1> QED
  BY <1>1, <1>2, PTL DEF Spec

\* The counters stay within their sixteen bits and the owners within the clients,
\* whatever the limits.
THEOREM TableTyped == Spec => []TypeOK
<1>1. TypeOK /\ SlotsWellFormed => TypeOK
  OBVIOUS
<1> QED
  BY TableKept, <1>1, PTL

\* A client that asked before in this window is never moved to another slot by
\* any client's request: its counts cannot be escaped by interleaving.
THEOREM SlotStableHolds ==
  ASSUME LimitsFit
  PROVE  Spec => SlotStable
<1> DEFINE Stable == \A ip \in IP : Seen(ip) /\ Seen(ip)' => nft_i(ip)' = nft_i(ip)
<1>1. Init => IInv
  BY ClearedTable DEF Init
<1>2. IInv /\ [Next]_vars => IInv'
  BY NextStep
<1>3. ASSUME IInv, Next
      PROVE  Stable
  <2>1. CASE Timer
    <3>1. \A q \in IP : ~Seen(q)'
      BY <2>1 DEF Timer, Seen, Zero
    <3> QED
      BY <3>1
  <2>2. ASSUME NEW p \in IP, NEW is_html \in BOOLEAN, NEW status_code \in StatusCode,
               Request(p, is_html, status_code)
        PROVE  Stable
    <3>1. TableStep(p)
      BY <1>3, <2>2, RequestTableStep DEF IInv
    <3>2. \A q \in IP : Seen(q) => nft_arr[nft_i(q)].ip # EmptyIP
      BY <1>3 DEF IInv, Accounted
    <3> QED
      BY <1>3, <3>1, <3>2, LookupStable DEF IInv
  <2> QED
    BY <1>3, <2>1, <2>2 DEF Next
<1>4. IInv /\ [Next]_vars => [Stable]_vars
  BY <1>3
<1> QED
  BY <1>1, <1>2, <1>4, PTL DEF Spec, SlotStable
==============================================================================
