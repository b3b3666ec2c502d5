------------------------- MODULE RateLimitQuotaProofs -------------------------
(***************************************************************************)
(* The table of fws.c implements Quota, for any number of clients, slots   *)
(* and any limits the u16 counters can hold.                               *)
(***************************************************************************)
EXTENDS RateLimitProofs, FiniteSetTheorems

\* The clients that asked in this window, and whether they outnumber the slots.
Clients == {ip \in IP : Seen(ip)}
Crowded == Cardinality(Clients) > nft_arr_cap

\* Every counter can represent one more than its limit.  CntMod is 2^16; two
\* refusals must be told apart for the ban test to fire at all.
CountersFit == LimitsFit /\ ban_lim + 1 < CntMod /\ 2 < CntMod

\* A free slot is a cleared one, and a taken slot belongs to a client of this
\* window: what the timer's memset leaves, and what a claim may rely on.
FreeIsClear == \A i \in Slot : nft_arr[i].ip = EmptyIP => nft_arr[i] = FreeSlot
OwnersAsked == \A i \in Slot : nft_arr[i].ip # EmptyIP => nft_arr[i].ip \in Clients

\* Once refused, a client's slot stays over the limit, whoever shares it.
RefusedOver == \A ip \in IP : refused[ip] > 0 => Over(nft_arr[nft_i(ip)])

\* What the slot of a client says about that client alone: until it is refused,
\* exactly what it was served; and how often it was refused, until dos_cnt
\* wraps, by which time the ban is sent.
Exact(ip) ==
  LET slot == nft_arr[nft_i(ip)]
  IN /\ slot.ip = ip
     /\ refused[ip] = 0 => /\ slot.html_cnt = served_page[ip]
                           /\ slot.no_html_cnt = served_res[ip]
     /\ refused[ip] < CntMod => slot.dos_cnt = refused[ip]
     /\ use_nft /\ refused[ip] > 1 /\ refused[ip] > ban_lim => ip \in ban_sent

OwnSlots == ~Crowded => \A ip \in Clients : Exact(ip)

\* The invariant of the refinement.
QInv ==
  /\ IInv
  /\ IsFiniteSet(Clients)
  /\ FreeIsClear
  /\ OwnersAsked
  /\ RefusedOver
  /\ OwnSlots

------------------------------------------------------------------------------
\* A client that is not one too many finds a slot that is its own or free: the
\* taken slots have distinct owners among the clients of the window, so they
\* cannot be more than those.
LEMMA RoomForClient ==
  ASSUME QInv, NEW p \in IP, ~(Cardinality(Clients \cup {p}) > nft_arr_cap)
  PROVE  Matches(p) # {}
<1> SUFFICES ASSUME Matches(p) = {}
             PROVE  FALSE
  OBVIOUS
<1> DEFINE owner == [i \in Slot |-> nft_arr[i].ip]
<1>1. \A i \in Slot : nft_arr[i].ip # EmptyIP /\ nft_arr[i].ip # p
  BY DEF Matches
<1>2. /\ \A i \in Slot : nft_arr[i].ip \in Clients \ {p}
      /\ \A i, j \in Slot : nft_arr[i].ip = nft_arr[j].ip => i = j
  BY <1>1 DEF QInv, OwnersAsked, IInv, SlotsWellFormed
<1>3. owner \in Injection(Slot, Clients \ {p})
  BY <1>2 DEF Injection, IsInjective
<1>4. IsFiniteSet(Clients)
  BY DEF QInv
<1>5. /\ IsFiniteSet(Clients \ {p})
      /\ Cardinality(Clients \ {p}) \in Nat
  BY <1>4, FS_RemoveElement, FS_CardinalityType
<1>6. Cardinality(Slot) <= Cardinality(Clients \ {p})
  BY <1>3, <1>5, FS_Injection
<1>7. Cardinality(Slot) = nft_arr_cap
  BY ConstantsType, FS_Interval DEF Slot
<1>8. /\ IsFiniteSet((Clients \ {p}) \cup {p})
      /\ Cardinality((Clients \ {p}) \cup {p}) = Cardinality(Clients \ {p}) + 1
  BY <1>5, FS_AddElement
<1>9. (Clients \ {p}) \cup {p} = Clients \cup {p}
  OBVIOUS
<1> QED
  BY <1>5, <1>6, <1>7, <1>8, <1>9, ConstantsType

\* The slot a client's request is judged by, in a window that is not crowded,
\* says exactly what that client did.
LEMMA SlotIsExact ==
  ASSUME QInv, NEW p \in IP, ~(Cardinality(Clients \cup {p}) > nft_arr_cap)
  PROVE  LET slot == Claimed(p)[nft_i(p)]
         IN /\ Matches(p) # {}
            /\ refused[p] = 0 => /\ slot.html_cnt = served_page[p]
                                 /\ slot.no_html_cnt = served_res[p]
            /\ refused[p] < CntMod => slot.dos_cnt = refused[p]
            /\ use_nft /\ refused[p] > 1 /\ refused[p] > ban_lim => p \in ban_sent
<1> DEFINE k == nft_i(p)
<1>1. Matches(p) # {}
  BY RoomForClient
<1>2. k \in Slot /\ nft_arr[k].ip \in {p, EmptyIP}
  BY <1>1, LookupResult DEF Matches
<1>3. TypeOK
  BY DEF QInv, IInv
<1>4. /\ Claimed(p)[k].html_cnt = nft_arr[k].html_cnt
      /\ Claimed(p)[k].no_html_cnt = nft_arr[k].no_html_cnt
      /\ Claimed(p)[k].dos_cnt = nft_arr[k].dos_cnt
  BY <1>2, <1>3 DEF Claimed, TypeOK, FwsNft
<1>5. CASE p \in Clients
  <2>1. Clients \cup {p} = Clients
    BY <1>5
  <2>2. Exact(p)
    BY <1>5, <2>1 DEF QInv, OwnSlots, Crowded
  <2> QED
    BY <1>1, <1>4, <2>2 DEF Exact
<1>6. CASE p \notin Clients
  <2>1. served_page[p] = 0 /\ served_res[p] = 0 /\ refused[p] = 0
    BY <1>3, <1>6 DEF Clients, Seen, TypeOK
  <2>2. nft_arr[k] = FreeSlot
    BY <1>2, <1>6 DEF QInv, OwnersAsked, FreeIsClear
  <2>3. /\ nft_arr[k].html_cnt = 0
        /\ nft_arr[k].no_html_cnt = 0
        /\ nft_arr[k].dos_cnt = 0
    BY <2>2 DEF FreeSlot
  <2> HIDE DEF k
  <2> QED
    BY <1>1, <1>4, <2>1, <2>3 DEF k
<1> QED
  BY <1>5, <1>6

\* A request adds its client to those of the window, and nobody leaves it.
LEMMA ClientsGrow ==
  ASSUME QInv, NEW p \in IP, Clients' = Clients \cup {p}
  PROVE  /\ IsFiniteSet(Clients')
         /\ Crowded => Crowded'
         /\ ~Crowded' => ~(Cardinality(Clients \cup {p}) > nft_arr_cap)
         /\ QuotaRef!Crowd
<1>1. IsFiniteSet(Clients)
  BY DEF QInv
<1>2. /\ IsFiniteSet(Clients \cup {p})
      /\ Cardinality(Clients \cup {p}) \in {Cardinality(Clients), Cardinality(Clients) + 1}
      /\ Cardinality(Clients) \in Nat
  BY <1>1, FS_AddElement, FS_CardinalityType
<1>3. /\ Crowded => Crowded'
      /\ ~Crowded' => ~(Cardinality(Clients \cup {p}) > nft_arr_cap)
  BY <1>2, ConstantsType DEF Crowded
<1>4. Crowded' \in {Crowded, TRUE}
  <2>1. Crowded \in BOOLEAN /\ Crowded' \in BOOLEAN
    BY DEF Crowded
  <2> QED
    BY <1>3, <2>1, Zenon
<1>5. QuotaRef!Crowd
  BY <1>4, Zenon DEF QuotaRef!Crowd, Crowded, Clients
<1> QED
  BY <1>2, <1>3, <1>5

\* What a request leaves to be shown of its own client, once it changes nothing
\* of the other clients' history and keeps an exceeded slot exceeded.
LEMMA RequestKeepsQInv ==
  ASSUME QInv, IInv', NEW p \in IP, TableStep(p), Clients' = Clients \cup {p},
         \A q \in IP \ {p} : /\ served_page'[q] = served_page[q]
                             /\ served_res'[q] = served_res[q]
                             /\ refused'[q] = refused[q],
         ban_sent \subseteq ban_sent',
         Over(nft_arr[nft_i(p)]) => Over(nft_arr'[nft_i(p)]),
         refused'[p] > 0 => Over(nft_arr'[nft_i(p)]),
         ~Crowded' => Exact(p)'
  PROVE  QInv'
<1> DEFINE k == nft_i(p)
<1>1. IInv /\ TypeOK
  BY DEF QInv, IInv
<1>2. /\ k \in Slot
      /\ \A j \in Slot : j # k => nft_arr'[j] = nft_arr[j]
      /\ Matches(p) = {} => /\ \A j \in Slot : nft_arr'[j].ip = nft_arr[j].ip
                            /\ nft_arr[k].ip # EmptyIP
      /\ Matches(p) # {} => nft_arr'[k].ip = p
  BY <1>1, TableAfter DEF Matches
<1>3. p # EmptyIP
  BY ConstantsType
<1>4. \A q \in Clients \cup {p} : q \in IP /\ nft_i(q)' = nft_i(q)
  <2>1. \A q \in Clients : q \in IP /\ nft_arr[nft_i(q)].ip # EmptyIP
    BY <1>1 DEF Clients, IInv, Accounted
  <2> QED
    BY <1>1, <2>1, LookupStable
<1>5. IsFiniteSet(Clients')
  BY ClientsGrow
<1>6. FreeIsClear'
  BY <1>2, <1>3 DEF QInv, FreeIsClear
<1>7. OwnersAsked'
  BY <1>2, <1>3 DEF QInv, OwnersAsked
<1>8. RefusedOver'
  <2> SUFFICES ASSUME NEW q \in IP, refused'[q] > 0
               PROVE  Over(nft_arr'[nft_i(q)'])
    BY DEF RefusedOver, Over
  <2>1. CASE q = p
    BY <1>4, <2>1
  <2>2. CASE q # p
    <3>1. refused[q] > 0
      BY <2>2
    <3>2. q \in Clients
      BY <1>1, <3>1 DEF Clients, Seen, TypeOK
    <3>3. Over(nft_arr[nft_i(q)]) /\ nft_i(q) \in Slot
      BY <3>1, LookupResult DEF QInv, RefusedOver
    <3> QED
      BY <1>2, <1>4, <3>2, <3>3
  <2> QED
    BY <2>1, <2>2
<1>9. OwnSlots'
  <2> SUFFICES ASSUME ~Crowded', NEW q \in Clients, q # p
               PROVE  Exact(q)'
    BY DEF OwnSlots
  <2>1. Exact(q) /\ Matches(p) # {}
    BY ClientsGrow, RoomForClient DEF QInv, OwnSlots
  <2>2. q \in IP /\ nft_i(q)' = nft_i(q) /\ nft_i(q) \in Slot
    BY <1>4, LookupResult
  <2>3. nft_arr[nft_i(q)].ip = q
    BY <2>1 DEF Exact
  <2>4. nft_arr[k].ip \in {p, EmptyIP}
    BY <2>1, LookupResult DEF Matches
  <2>5. nft_arr'[nft_i(q)'] = nft_arr[nft_i(q)]
    BY <1>2, <2>2, <2>3, <2>4, ConstantsType
  <2> HIDE DEF k
  <2> QED
    BY <2>1, <2>2, <2>5 DEF Exact
<1> QED
  BY <1>5, <1>6, <1>7, <1>8, <1>9 DEF QInv

------------------------------------------------------------------------------
\* A further refusal is one for the specification too: out of a crowd the client
\* itself was refused before, and the ban goes out at the same refusal.
LEMMA RefuseAgainImplements ==
  ASSUME CountersFit, QInv, NEW p \in IP, RefuseAgain(p)
  PROVE  QInv' /\ QuotaRef!Refuse(p)
<1> DEFINE k == nft_i(p)
           old == Claimed(p)[k]
           n == refused[p]
           dos == Inc(old.dos_cnt)
<1>1. IInv /\ TypeOK /\ LimitsFit /\ n \in Nat /\ use_nft \in BOOLEAN
  BY ConstantsType DEF QInv, IInv, TypeOK, CountersFit
<1>2. /\ k \in Slot /\ Claimed(p) \in [Slot -> FwsNft] /\ old \in FwsNft
      /\ old.html_cnt = nft_arr[k].html_cnt
      /\ old.no_html_cnt = nft_arr[k].no_html_cnt
  BY <1>1, ClaimedSlot
<1>3. /\ Over(old)
      /\ nft_arr' = [Claimed(p) EXCEPT ![k].dos_cnt = dos]
      /\ ban_sent' = IF use_nft /\ dos > ban_lim THEN ban_sent \cup {p} ELSE ban_sent
      /\ refused' = [refused EXCEPT ![p] = @ + 1]
      /\ served_page' = served_page /\ served_res' = served_res
  BY DEF RefuseAgain
<1>4. IInv' /\ TableStep(p)
  <2>1. 0 \in StatusCode
    BY DEF StatusCode
  <2> QED
    BY <1>1, <2>1, RefuseAgainStep, RequestTableStep DEF Request
<1>5. /\ nft_arr'[k].html_cnt = old.html_cnt
      /\ nft_arr'[k].no_html_cnt = old.no_html_cnt
      /\ nft_arr'[k].dos_cnt = dos
  BY <1>2, <1>3 DEF FwsNft
<1>6. Over(nft_arr'[k])
  BY <1>3, <1>5 DEF Over
<1>7. /\ refused'[p] = n + 1
      /\ \A q \in IP \ {p} : refused'[q] = refused[q]
  BY <1>1, <1>3 DEF TypeOK
<1>8. Clients' = Clients \cup {p}
  BY <1>1, <1>3, <1>7 DEF Clients, Seen, TypeOK
<1>9. /\ Crowded => Crowded'
      /\ ~Crowded' => ~(Cardinality(Clients \cup {p}) > nft_arr_cap)
  BY <1>8, ClientsGrow
<1>10. ASSUME ~Crowded'
       PROVE  /\ Matches(p) # {}
              /\ n > 0
              /\ n < CntMod => old.dos_cnt = n
              /\ use_nft /\ n > 1 /\ n > ban_lim => p \in ban_sent
  <2>1. /\ Matches(p) # {}
        /\ n = 0 => /\ old.html_cnt = served_page[p]
                    /\ old.no_html_cnt = served_res[p]
        /\ n < CntMod => old.dos_cnt = n
        /\ use_nft /\ n > 1 /\ n > ban_lim => p \in ban_sent
    BY <1>9, <1>10, SlotIsExact
  <2>2. served_page[p] <= lim_page /\ served_res[p] <= lim_res
    BY <1>1 DEF IInv, ServedBound
  <2>3. n # 0
    <3>1. served_page[p] \in Nat /\ served_res[p] \in Nat
      BY <1>1 DEF TypeOK
    <3> HIDE DEF n, old
    <3> QED
      BY <1>3, <2>1, <2>2, <3>1, ConstantsType DEF Over
  <2> HIDE DEF n, old
  <2> QED
    BY <1>1, <2>1, <2>3
<1>11. ASSUME ~Crowded'
       PROVE  /\ n + 1 < CntMod => dos = n + 1
              /\ ban_sent' = IF use_nft /\ n + 1 > ban_lim THEN ban_sent \cup {p} ELSE ban_sent
  <2>1. old.dos_cnt \in Counter
    BY <1>2 DEF FwsNft
  <2>2. CASE n + 1 < CntMod
    <3>1. dos = n + 1
      <4>1. old.dos_cnt = n
        BY <1>1, <1>10, <1>11, <2>2, ConstantsType
      <4> HIDE DEF n, old
      <4> QED
        BY <2>1, <2>2, <4>1, IncBelowLimit
    <3> HIDE DEF n, dos
    <3> QED
      BY <1>3, <3>1
  <2>3. CASE ~(n + 1 < CntMod)
    <3>1. n > 1 /\ n > ban_lim /\ n + 1 > ban_lim
      <4> HIDE DEF n
      <4> QED
        BY <1>1, <2>3, ConstantsType DEF CountersFit
    <3>2. use_nft => p \in ban_sent
      BY <1>10, <1>11, <3>1
    <3> HIDE DEF n, dos
    <3> QED
      BY <1>3, <2>3, <3>1, <3>2
  <2> QED
    BY <2>2, <2>3
<1>12. ~Crowded' => Exact(p)'
  <2> SUFFICES ASSUME ~Crowded'
               PROVE  Exact(p)'
    OBVIOUS
  <2>1. nft_i(p)' = k /\ nft_arr'[k].ip = p
    BY <1>1, <1>4, <1>10, LookupStable, TableAfter
  <2>2. /\ refused'[p] # 0
        /\ refused'[p] < CntMod => nft_arr'[k].dos_cnt = refused'[p]
        /\ use_nft /\ refused'[p] > 1 /\ refused'[p] > ban_lim => p \in ban_sent'
    <3> HIDE DEF n, k, dos, old
    <3> QED
      BY <1>1, <1>5, <1>7, <1>11
  <2> HIDE DEF n, k, dos, old
  <2> QED
    BY <2>1, <2>2 DEF Exact
<1>13. QInv'
  <2>1. ban_sent \subseteq ban_sent'
    BY <1>3
  <2> QED
    BY <1>3, <1>4, <1>6, <1>7, <1>8, <1>12, <2>1, RequestKeepsQInv
<1>14. QuotaRef!Refuse(p)
  <2>1. QuotaRef!Crowd
    BY <1>8, ClientsGrow
  <2>2. Crowded' => ban_sent' \in {ban_sent, ban_sent \cup {p}}
    BY <1>3
  <2>3. ~Crowded' => /\ refused[p] > 0
                     /\ ban_sent' = IF use_nft /\ refused[p] > 0 /\ refused[p] + 1 > ban_lim
                                    THEN ban_sent \cup {p} ELSE ban_sent
    BY <1>10, <1>11
  <2> QED
    BY <1>3, <2>1, <2>2, <2>3 DEF QuotaRef!Refuse, Crowded, Clients
<1> QED
  BY <1>13, <1>14

\* The first refusal: out of a crowd the client itself has used up a quota.
LEMMA RefuseFirstImplements ==
  ASSUME CountersFit, QInv, NEW p \in IP,
         NEW is_html \in BOOLEAN, NEW status_code \in StatusCode,
         RefuseFirst(p, is_html, status_code)
  PROVE  QInv' /\ QuotaRef!Refuse(p)
<1> DEFINE k == nft_i(p)
           old == Claimed(p)[k]
           charged == Charged(old, is_html, status_code)
           page == is_html \/ status_code # 0
<1>1. /\ IInv /\ TypeOK /\ LimitsFit /\ refused[p] \in Nat
      /\ served_page[p] \in Nat /\ served_res[p] \in Nat
  BY DEF QInv, IInv, TypeOK, CountersFit
<1>2. /\ k \in Slot /\ Claimed(p) \in [Slot -> FwsNft] /\ old \in FwsNft
      /\ old.html_cnt = nft_arr[k].html_cnt
      /\ old.no_html_cnt = nft_arr[k].no_html_cnt
  BY <1>1, ClaimedSlot
<1>3. /\ ~Over(old)
      /\ Over(charged)
      /\ nft_arr' = [Claimed(p) EXCEPT ![k] = [charged EXCEPT !.dos_cnt = Inc(@)]]
      /\ refused' = [refused EXCEPT ![p] = @ + 1]
      /\ served_page' = served_page /\ served_res' = served_res /\ ban_sent' = ban_sent
  BY DEF RefuseFirst
<1>4. IInv' /\ TableStep(p)
  BY <1>1, RefuseFirstStep, RequestTableStep DEF Request
<1>5. /\ charged \in FwsNft
      /\ charged.dos_cnt = old.dos_cnt
      /\ charged.html_cnt = IF page THEN old.html_cnt + 1 ELSE old.html_cnt
      /\ charged.no_html_cnt = IF page THEN old.no_html_cnt ELSE old.no_html_cnt + 1
  BY <1>1, <1>2, <1>3, ChargedSlot
<1>6. /\ nft_arr'[k].html_cnt = charged.html_cnt
      /\ nft_arr'[k].no_html_cnt = charged.no_html_cnt
      /\ nft_arr'[k].dos_cnt = Inc(old.dos_cnt)
  <2> HIDE DEF charged
  <2> QED
    BY <1>2, <1>3, <1>5 DEF FwsNft
<1>7. Over(nft_arr'[k])
  <2> HIDE DEF charged
  <2> QED
    BY <1>3, <1>6 DEF Over
<1>8. /\ refused'[p] = refused[p] + 1
      /\ \A q \in IP \ {p} : refused'[q] = refused[q]
  BY <1>1, <1>3 DEF TypeOK
<1>9. Clients' = Clients \cup {p}
  BY <1>1, <1>3, <1>8 DEF Clients, Seen, TypeOK
<1>10. /\ Crowded => Crowded'
       /\ ~Crowded' => ~(Cardinality(Clients \cup {p}) > nft_arr_cap)
  BY <1>9, ClientsGrow
<1>11. refused[p] = 0
  <2>1. ~Over(nft_arr[k])
    <3> HIDE DEF old
    <3> QED
      BY <1>2, <1>3 DEF Over
  <2> QED
    BY <1>1, <2>1 DEF QInv, RefusedOver
<1>12. ~Crowded' => /\ Matches(p) # {}
                    /\ old.html_cnt = served_page[p]
                    /\ old.no_html_cnt = served_res[p]
                    /\ old.dos_cnt = 0
  <2>1. 0 < CntMod
    BY ConstantsType
  <2> QED
    BY <1>10, <1>11, <2>1, SlotIsExact
<1>13. ~Crowded' => served_page[p] = lim_page \/ served_res[p] = lim_res
  <2>1. served_page[p] <= lim_page /\ served_res[p] <= lim_res
    BY <1>1 DEF IInv, ServedBound
  <2> HIDE DEF old, charged, page
  <2> QED
    BY <1>1, <1>3, <1>5, <1>12, <2>1, ConstantsType DEF Over
<1>14. ~Crowded' => Exact(p)'
  <2> SUFFICES ASSUME ~Crowded'
               PROVE  Exact(p)'
    OBVIOUS
  <2>1. nft_i(p)' = k /\ nft_arr'[k].ip = p
    BY <1>1, <1>4, <1>12, LookupStable, TableAfter
  <2>2. Inc(0) = 1
    BY ConstantsType, IncBelowLimit DEF CountersFit, Counter
  <2>3. refused'[p] = 1 /\ nft_arr'[k].dos_cnt = 1
    <3> HIDE DEF k, old, charged
    <3> QED
      BY <1>6, <1>8, <1>11, <1>12, <2>2
  <2> HIDE DEF k, old, charged
  <2> QED
    BY <2>1, <2>3 DEF Exact
<1>15. QInv'
  BY <1>3, <1>4, <1>7, <1>8, <1>9, <1>14, RequestKeepsQInv
<1>16. QuotaRef!Refuse(p)
  <2>1. QuotaRef!Crowd
    BY <1>9, ClientsGrow
  <2> HIDE DEF k, old, charged
  <2> QED
    BY <1>3, <1>11, <1>13, <2>1 DEF QuotaRef!Refuse, Crowded, Clients
<1> QED
  BY <1>15, <1>16

\* An answer is within the quota and never follows a refusal.
LEMMA ServeImplements ==
  ASSUME CountersFit, QInv, NEW p \in IP,
         NEW is_html \in BOOLEAN, NEW status_code \in StatusCode,
         Serve(p, is_html, status_code)
  PROVE  QInv' /\ (QuotaRef!ServePage(p) \/ QuotaRef!ServeRes(p))
<1> DEFINE k == nft_i(p)
           old == Claimed(p)[k]
           charged == Charged(old, is_html, status_code)
           page == is_html \/ status_code # 0
<1>1. /\ IInv /\ TypeOK /\ LimitsFit /\ refused[p] \in Nat
      /\ served_page[p] \in Nat /\ served_res[p] \in Nat
  BY DEF QInv, IInv, TypeOK, CountersFit
<1>2. /\ k \in Slot /\ Claimed(p) \in [Slot -> FwsNft] /\ old \in FwsNft
      /\ old.html_cnt = nft_arr[k].html_cnt
      /\ old.no_html_cnt = nft_arr[k].no_html_cnt
  BY <1>1, ClaimedSlot
<1>3. /\ ~Over(old)
      /\ nft_arr' = [Claimed(p) EXCEPT ![k] = charged]
      /\ served_page' = IF page THEN [served_page EXCEPT ![p] = @ + 1] ELSE served_page
      /\ served_res' = IF page THEN served_res ELSE [served_res EXCEPT ![p] = @ + 1]
      /\ refused' = refused /\ ban_sent' = ban_sent
  BY DEF Serve
<1>4. IInv' /\ TableStep(p)
  BY <1>1, ServeStep, RequestTableStep DEF Request
<1>5. /\ charged.dos_cnt = old.dos_cnt
      /\ charged.html_cnt = IF page THEN old.html_cnt + 1 ELSE old.html_cnt
      /\ charged.no_html_cnt = IF page THEN old.no_html_cnt ELSE old.no_html_cnt + 1
  BY <1>1, <1>2, <1>3, ChargedSlot
<1>6. nft_arr'[k] = charged
  BY <1>2, <1>3
<1>7. /\ served_page'[p] = IF page THEN served_page[p] + 1 ELSE served_page[p]
      /\ served_res'[p] = IF page THEN served_res[p] ELSE served_res[p] + 1
      /\ \A q \in IP \ {p} : /\ served_page'[q] = served_page[q]
                             /\ served_res'[q] = served_res[q]
  <2> HIDE DEF page
  <2> QED
    BY <1>1, <1>3 DEF TypeOK
<1>8. Clients' = Clients \cup {p}
  <2>1. Seen(p)'
    <3> HIDE DEF page
    <3> QED
      BY <1>1, <1>3, <1>7 DEF Seen
  <2>2. \A q \in IP \ {p} : Seen(q)' <=> Seen(q)
    BY <1>3, <1>7 DEF Seen
  <2> QED
    BY <2>1, <2>2 DEF Clients
<1>9. /\ Crowded => Crowded'
      /\ ~Crowded' => ~(Cardinality(Clients \cup {p}) > nft_arr_cap)
  BY <1>8, ClientsGrow
<1>10. ~Over(nft_arr[k]) /\ refused[p] = 0
  <2>1. ~Over(nft_arr[k])
    <3> HIDE DEF old
    <3> QED
      BY <1>2, <1>3 DEF Over
  <2> QED
    BY <1>1, <2>1 DEF QInv, RefusedOver
<1>11. ~Crowded' => /\ Matches(p) # {}
                    /\ old.html_cnt = served_page[p]
                    /\ old.no_html_cnt = served_res[p]
                    /\ old.dos_cnt = 0
  <2>1. 0 < CntMod
    BY ConstantsType
  <2> QED
    BY <1>9, <1>10, <2>1, SlotIsExact
<1>12. ~Crowded' => Exact(p)'
  <2> SUFFICES ASSUME ~Crowded'
               PROVE  Exact(p)'
    OBVIOUS
  <2>1. nft_i(p)' = k /\ nft_arr'[k].ip = p
    BY <1>1, <1>4, <1>11, LookupStable, TableAfter
  <2>2. /\ nft_arr'[k].html_cnt = served_page'[p]
        /\ nft_arr'[k].no_html_cnt = served_res'[p]
        /\ nft_arr'[k].dos_cnt = 0
        /\ refused'[p] = 0
    <3> HIDE DEF k, old, charged, page
    <3> QED
      BY <1>3, <1>5, <1>6, <1>7, <1>10, <1>11
  <2> HIDE DEF k, old, charged, page
  <2> QED
    BY <2>1, <2>2 DEF Exact
<1>13. QInv'
  <2>1. \A q \in IP \ {p} : refused'[q] = refused[q]
    BY <1>3
  <2>2. ban_sent \subseteq ban_sent' /\ ~(refused'[p] > 0)
    BY <1>3, <1>10
  <2> QED
    BY <1>4, <1>7, <1>8, <1>10, <1>12, <2>1, <2>2, RequestKeepsQInv
<1>14. QuotaRef!ServePage(p) \/ QuotaRef!ServeRes(p)
  <2>1. QuotaRef!Crowd
    BY <1>8, ClientsGrow
  <2>2. served_page'[p] <= lim_page /\ served_res'[p] <= lim_res
    BY <1>4 DEF IInv, ServedBound
  <2>3. CASE page
    <3>1. served_page[p] < lim_page
      <4> HIDE DEF page
      <4> QED
        BY <1>1, <1>7, <2>2, <2>3, ConstantsType
    <3> HIDE DEF page
    <3> QED
      BY <1>3, <1>10, <2>1, <2>3, <3>1 DEF QuotaRef!ServePage
  <2>4. CASE ~page
    <3>1. served_res[p] < lim_res
      <4> HIDE DEF page
      <4> QED
        BY <1>1, <1>7, <2>2, <2>4, ConstantsType
    <3> HIDE DEF page
    <3> QED
      BY <1>3, <1>10, <2>1, <2>4, <3>1 DEF QuotaRef!ServeRes
  <2> QED
    BY <2>3, <2>4
<1> QED
  BY <1>13, <1>14

------------------------------------------------------------------------------
\* With no client yet, nothing is crowded and every slot is free.
LEMMA ClearedQInv ==
  ASSUME nft_arr = [i \in Slot |-> FreeSlot],
         served_page = Zero, served_res = Zero, refused = Zero, ban_sent = {}
  PROVE  QInv /\ ~Crowded
<1>1. IInv
  BY ClearedTable
<1>2. \A q \in IP : ~Seen(q) /\ refused[q] = 0
  BY DEF Seen, Zero
<1>3. Clients = {}
  BY <1>2 DEF Clients
<1>4. IsFiniteSet(Clients) /\ ~Crowded
  BY <1>3, FS_EmptySet, ConstantsType DEF Crowded
<1>5. FreeIsClear /\ OwnersAsked
  BY DEF FreeIsClear, OwnersAsked, FreeSlot
<1>6. RefusedOver /\ OwnSlots
  BY <1>2, <1>3 DEF RefusedOver, OwnSlots
<1> QED
  BY <1>1, <1>4, <1>5, <1>6 DEF QInv

\* The timer's memset starts a new window for everybody at once.
LEMMA TimerImplements ==
  ASSUME Timer
  PROVE  QInv' /\ QuotaRef!NewWindow
<1>1. IInv'
  BY TimerStep
<1>2. \A q \in IP : ~Seen(q)' /\ refused'[q] = 0
  BY DEF Timer, Seen, Zero
<1>3. Clients' = {}
  BY <1>2 DEF Clients
<1>4. IsFiniteSet(Clients') /\ ~Crowded'
  BY <1>3, FS_EmptySet, ConstantsType DEF Crowded
<1>5. FreeIsClear' /\ OwnersAsked'
  BY DEF Timer, FreeIsClear, OwnersAsked, FreeSlot
<1>6. RefusedOver' /\ OwnSlots'
  BY <1>2, <1>3 DEF RefusedOver, OwnSlots
<1>7. QuotaRef!NewWindow
  BY <1>4 DEF Timer, Zero, QuotaRef!NewWindow, QuotaRef!Zero, Crowded, Clients
<1> QED
  BY <1>1, <1>4, <1>5, <1>6, <1>7 DEF QInv

\* Every step of the worker keeps the invariant and is a step of Quota.
LEMMA StepImplements ==
  ASSUME CountersFit, QInv, [Next]_vars
  PROVE  QInv' /\ [QuotaRef!Next]_QuotaRef!vars
<1>1. ASSUME NEW p \in IP, NEW is_html \in BOOLEAN, NEW status_code \in StatusCode,
             Request(p, is_html, status_code)
      PROVE  QInv' /\ QuotaRef!Next
  BY <1>1, RefuseAgainImplements, RefuseFirstImplements, ServeImplements
     DEF Request, QuotaRef!Next
<1>2. CASE Timer
  BY <1>2, TimerImplements DEF QuotaRef!Next
<1>3. CASE UNCHANGED vars
  <2>1. /\ nft_arr' = nft_arr /\ served_page' = served_page
        /\ served_res' = served_res /\ refused' = refused /\ ban_sent' = ban_sent
    BY <1>3 DEF vars, history
  <2>2. /\ \A q \in IP : nft_i(q)' = nft_i(q) /\ Seen(q)' = Seen(q)
        /\ Clients' = Clients
    BY <2>1 DEF nft_i, Matches, Seen, Clients
  <2>3. Crowded' = Crowded
    BY <2>2 DEF Crowded
  <2>4. IInv'
    BY <1>3, NextStep DEF CountersFit, QInv
  <2>5. FreeIsClear' /\ OwnersAsked' /\ RefusedOver'
    BY <2>1, <2>2 DEF QInv, FreeIsClear, OwnersAsked, RefusedOver
  <2>6. OwnSlots'
    BY <2>1, <2>2, <2>3 DEF QInv, OwnSlots, Exact, Clients
  <2>7. UNCHANGED QuotaRef!vars
    BY <2>1, <2>3 DEF QuotaRef!vars, Crowded, Clients
  <2> QED
    BY <2>2, <2>4, <2>5, <2>6, <2>7 DEF QInv
<1> QED
  BY <1>1, <1>2, <1>3 DEF Next

\* The limiter of fws.c keeps the promise of Quota for any number of clients,
\* slots and limits that u16 counters hold: while a window has seen no more
\* clients than nft_arr has slots, a client is refused exactly beyond its own
\* quota and banned exactly for its own refusals, wrap-around of dos_cnt
\* included; in a crowded window nobody is served more or after a refusal.
THEOREM QuotaImplemented ==
  ASSUME CountersFit
  PROVE  Spec => RefinesQuota
<1>1. Init => QInv /\ QuotaRef!Init
  BY ClearedQInv DEF Init, Zero, QuotaRef!Init, QuotaRef!Zero, Crowded, Clients
<1>2. QInv /\ [Next]_vars => QInv' /\ [QuotaRef!Next]_QuotaRef!vars
  BY StepImplements
<1> QED
  BY <1>1, <1>2, PTL DEF Spec, RefinesQuota, QuotaRef!Spec
==============================================================================
