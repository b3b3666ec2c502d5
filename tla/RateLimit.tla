------------------------------ MODULE RateLimit ------------------------------
(***************************************************************************)
(* The request limiter of the worker process: the table nft_arr that       *)
(* fws_child_run allocates, that _fws_443_run looks up, charges and tests  *)
(* for every parsed request, and that the timer event clears every         *)
(* LIM_SWAP_TIME seconds.  The worker is one thread, so a lookup, its      *)
(* charge and its verdict are one step.                                    *)
(*                                                                         *)
(* The counters are u16 while the limits are u32: arithmetic is mod        *)
(* CntMod.  A full table makes every further client share the last slot.   *)
(***************************************************************************)
EXTENDS Naturals, FiniteSets

CONSTANTS
  IP,          \* client addresses (16-byte in6 addresses)
  EmptyIP,     \* empty_ip_buf, the all-zero address marking a free slot
  nft_arr_cap, \* slots in nft_arr (1024)
  CntMod,      \* 2^16: html_cnt, no_html_cnt and dos_cnt are u16
  lim_page,    \* LIM_PAGE, u32
  lim_res,     \* LIM_RES, u32
  ban_lim,     \* BAN_LIM, u32
  use_nft,     \* NFT
  MaxReq       \* bound: requests one client makes in one window

ASSUME ConstantsType ==
  /\ EmptyIP \notin IP
  /\ nft_arr_cap \in Nat \ {0}
  /\ CntMod \in Nat \ {0}
  /\ lim_page \in Nat
  /\ lim_res \in Nat
  /\ ban_lim \in Nat
  /\ use_nft \in BOOLEAN
  /\ MaxReq \in Nat

VARIABLES
  nft_arr,     \* the table
  served_page, \* history: pages and error pages answered per client, this window
  served_res,  \* history: other resources answered per client, this window
  refused,     \* history: 429 answers per client, this window
  ban_sent     \* history: clients whose address was written to the pipe, this window

history == <<served_page, served_res, refused, ban_sent>>
vars == <<nft_arr, history>>

Slot == 0 .. nft_arr_cap - 1
Counter == 0 .. CntMod - 1
FwsNft == [ip : IP \cup {EmptyIP}, html_cnt : Counter,
           no_html_cnt : Counter, dos_cnt : Counter]

\* struct fws_nft after calloc or memset.
FreeSlot == [ip |-> EmptyIP, html_cnt |-> 0, no_html_cnt |-> 0, dos_cnt |-> 0]

Zero == [ip \in IP |-> 0]

Bug_Inc(n) == n + 1

\* u16 increment.
Inc(n) == (n + 1) % CntMod

------------------------------------------------------------------------------
\* Lookup: the first slot that holds the client or is free; the last slot,
\* whoever owns it, when there is none.

\* Slots at which the loop over nft_arr stops for this client.
Matches(ip) == {i \in Slot : nft_arr[i].ip \in {ip, EmptyIP}}

Bug_nft_i(ip) ==
  IF Matches(ip) = {}
  THEN 0
  ELSE CHOOSE i \in Matches(ip) : \A j \in Matches(ip) : i >= j

Bug2_nft_i(ip) ==
  LET free == {i \in Slot : nft_arr[i].ip = EmptyIP}
      from == IF free # {} THEN free ELSE Slot
  IN CHOOSE i \in from : \A j \in from : i <= j

nft_i(ip) ==
  IF Matches(ip) = {}
  THEN nft_arr_cap - 1
  ELSE CHOOSE i \in Matches(ip) : \A j \in Matches(ip) : i <= j

\* The table after the lookup: a free slot is claimed for the client.
Claimed(ip) ==
  IF Matches(ip) = {}
  THEN nft_arr
  ELSE [nft_arr EXCEPT ![nft_i(ip)].ip = ip]

------------------------------------------------------------------------------
\* Verdicts.

Bug_Over(slot) == slot.html_cnt > lim_page + 1 \/ slot.no_html_cnt > lim_res + 1

\* The condition of both 429 tests.
Over(slot) == slot.html_cnt > lim_page \/ slot.no_html_cnt > lim_res

Bug_Charged(slot, is_html, status_code) ==
  IF is_html
  THEN [slot EXCEPT !.html_cnt = Inc(@)]
  ELSE [slot EXCEPT !.no_html_cnt = Inc(@)]

\* The slot charged for one request: error pages count as pages.
Charged(slot, is_html, status_code) ==
  IF is_html \/ status_code # 0
  THEN [slot EXCEPT !.html_cnt = Inc(@)]
  ELSE [slot EXCEPT !.no_html_cnt = Inc(@)]

CanAsk(ip) == served_page[ip] + served_res[ip] + refused[ip] < MaxReq

\* "check dos at 429": the client was over the limit before this request.
\* Nothing is charged; the refusal counts, and beyond ban_lim refusals the
\* address goes to the parent.
RefuseAgain(ip) ==
  LET i == nft_i(ip)
      slot == Claimed(ip)[i]
      dos == Inc(slot.dos_cnt)
  IN /\ CanAsk(ip)
     /\ Over(slot)
     /\ nft_arr' = [Claimed(ip) EXCEPT ![i].dos_cnt = dos]
     /\ ban_sent' = IF use_nft /\ dos > ban_lim
                    THEN ban_sent \cup {ip}
                    ELSE ban_sent
     /\ refused' = [refused EXCEPT ![ip] = @ + 1]
     /\ UNCHANGED <<served_page, served_res>>

\* "check 429": the charge takes the slot over the limit.  dos_cnt counts this
\* refusal too, but no ban is sent from here.
RefuseFirst(ip, is_html, status_code) ==
  LET i == nft_i(ip)
      slot == Claimed(ip)[i]
      charged == Charged(slot, is_html, status_code)
  IN /\ CanAsk(ip)
     /\ ~Over(slot)
     /\ Over(charged)
     /\ nft_arr' = [Claimed(ip) EXCEPT
                      ![i] = [charged EXCEPT !.dos_cnt = Inc(@)]]
     /\ refused' = [refused EXCEPT ![ip] = @ + 1]
     /\ UNCHANGED <<served_page, served_res, ban_sent>>

Serve(ip, is_html, status_code) ==
  LET i == nft_i(ip)
      slot == Claimed(ip)[i]
      charged == Charged(slot, is_html, status_code)
  IN /\ CanAsk(ip)
     /\ ~Over(slot)
     /\ ~Over(charged)
     /\ nft_arr' = [Claimed(ip) EXCEPT ![i] = charged]
     /\ IF is_html \/ status_code # 0
        THEN /\ served_page' = [served_page EXCEPT ![ip] = @ + 1]
             /\ UNCHANGED served_res
        ELSE /\ served_res' = [served_res EXCEPT ![ip] = @ + 1]
             /\ UNCHANGED served_page
     /\ UNCHANGED <<refused, ban_sent>>

\* One parsed request whose file lookup gave status_code.
Request(ip, is_html, status_code) ==
  \/ RefuseAgain(ip)
  \/ RefuseFirst(ip, is_html, status_code)
  \/ Serve(ip, is_html, status_code)

Bug_Timer ==
  /\ nft_arr' = [i \in Slot |-> [nft_arr[i] EXCEPT !.html_cnt = 0, !.dos_cnt = 0]]
  /\ served_page' = Zero
  /\ served_res' = Zero
  /\ refused' = Zero
  /\ ban_sent' = {}

\* The timer event: memset of the whole table.
Timer ==
  /\ nft_arr' = [i \in Slot |-> FreeSlot]
  /\ served_page' = Zero
  /\ served_res' = Zero
  /\ refused' = Zero
  /\ ban_sent' = {}

Init ==
  /\ nft_arr = [i \in Slot |-> FreeSlot]
  /\ served_page = Zero
  /\ served_res = Zero
  /\ refused = Zero
  /\ ban_sent = {}

\* Status codes file_parse can hand over here: found, or not found.
StatusCode == {0, 404}

Next ==
  \/ \E ip \in IP, is_html \in BOOLEAN, status_code \in StatusCode :
        Request(ip, is_html, status_code)
  \/ Timer

Spec == Init /\ [][Next]_vars

------------------------------------------------------------------------------
\* Properties.

TypeOK ==
  /\ nft_arr \in [Slot -> FwsNft]
  /\ served_page \in [IP -> Nat]
  /\ served_res \in [IP -> Nat]
  /\ refused \in [IP -> Nat]
  /\ ban_sent \in SUBSET IP

\* The counters can represent "over the limit".
LimitsFit == lim_page + 1 < CntMod /\ lim_res + 1 < CntMod

\* The lookup keeps the table a list: no client owns two slots (each with a
\* quota of its own), and no used slot hides behind a free one, where the
\* first-free rule would give its owner a second slot.
SlotsWellFormed ==
  /\ \A i, j \in Slot :
        nft_arr[i].ip = nft_arr[j].ip /\ nft_arr[i].ip # EmptyIP => i = j
  /\ \A i, j \in Slot :
        nft_arr[i].ip = EmptyIP /\ i <= j => nft_arr[j].ip = EmptyIP

\* No client gets more than its quota in one window, however the requests of
\* all clients interleave and also when the table is full and slots are shared
\* ("If over the count at LIM_SWAP_TIME, show to 429", facows.conf).
ServedBound ==
  \A ip \in IP : served_page[ip] <= lim_page /\ served_res[ip] <= lim_res

\* Nothing a client was given in this window is forgotten: the slot the next
\* request of that client will be charged to is taken, and its counters cover
\* what the client was served, although other clients may use that slot too.
Seen(ip) == served_page[ip] + served_res[ip] + refused[ip] > 0

Accounted ==
  \A ip \in IP :
    LET slot == nft_arr[nft_i(ip)]
    IN /\ Seen(ip) => slot.ip # EmptyIP
       /\ served_page[ip] <= slot.html_cnt
       /\ served_res[ip] <= slot.no_html_cnt

\* A client that already asked in this window is charged to the same slot until
\* the timer clears the table, whatever the other clients do.
SlotStable ==
  [][\A ip \in IP : Seen(ip) /\ Seen(ip)' => nft_i(ip)' = nft_i(ip)]_vars

\* The table implements the per-client quota: as long as a window has seen no
\* more clients than slots, nobody is refused or banned for what another client
\* did and everybody who earned it is, and in a crowded one nobody gets more
\* than the quota or is served after a refusal.
QuotaRef == INSTANCE Quota WITH
              crowded <- Cardinality({ip \in IP : Seen(ip)}) > nft_arr_cap
RefinesQuota == QuotaRef!Spec

\* A ban is only requested for a client that itself drew more than ban_lim
\* refusals ("Already in 429 (request too many) page, continuously request page
\* count limit before ban", facows.conf).
BanJustified == \A ip \in ban_sent : refused[ip] > ban_lim
==============================================================================
