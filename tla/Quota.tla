-------------------------------- MODULE Quota --------------------------------
(***************************************************************************)
(* What the request limiter promises a client, with no table and no        *)
(* machine counters: inside one LIM_SWAP_TIME window every client has a    *)
(* quota of lim_page pages and lim_res other resources, is refused (429)   *)
(* from the first request beyond a quota until the window ends, and is     *)
(* reported for a ban once it keeps asking while refused.  In a crowded    *)
(* window (more clients than the server can tell apart) it may also be     *)
(* refused and reported for what others did, never be given more.          *)
(* RateLimit is the table of src/src/fws.c that implements it.             *)
(***************************************************************************)
EXTENDS Naturals

CONSTANTS
  IP,       \* client addresses
  lim_page, \* LIM_PAGE: pages a client may fetch in one window
  lim_res,  \* LIM_RES: other resources it may fetch in one window
  ban_lim,  \* BAN_LIM: refusals after which a client is banned
  use_nft   \* NFT: whether clients are banned at all

VARIABLES
  served_page, \* pages (and error pages) served to each client
  served_res,  \* other resources served to each client
  refused,     \* 429 answers given to each client
  ban_sent,    \* clients reported for a ban
  crowded      \* this window has seen too many clients to tell apart

vars == <<served_page, served_res, refused, ban_sent, crowded>>

Zero == [ip \in IP |-> 0]

Init ==
  /\ served_page = Zero
  /\ served_res = Zero
  /\ refused = Zero
  /\ ban_sent = {}
  /\ crowded = FALSE

\* Any request may be the one that makes the window crowded.
Crowd == crowded' \in {crowded, TRUE}

ServePage(ip) ==
  /\ refused[ip] = 0
  /\ served_page[ip] < lim_page
  /\ served_page' = [served_page EXCEPT ![ip] = @ + 1]
  /\ Crowd
  /\ UNCHANGED <<served_res, refused, ban_sent>>

ServeRes(ip) ==
  /\ refused[ip] = 0
  /\ served_res[ip] < lim_res
  /\ served_res' = [served_res EXCEPT ![ip] = @ + 1]
  /\ Crowd
  /\ UNCHANGED <<served_page, refused, ban_sent>>

\* A client is refused only beyond one of its own quotas, and reported exactly
\* when it is refused again beyond ban_lim refusals; a crowded window is exempt
\* from both.
Refuse(ip) ==
  LET again == use_nft /\ refused[ip] > 0 /\ refused[ip] + 1 > ban_lim
  IN /\ Crowd
     /\ \/ crowded'
        \/ refused[ip] > 0
        \/ served_page[ip] = lim_page
        \/ served_res[ip] = lim_res
     /\ refused' = [refused EXCEPT ![ip] = @ + 1]
     /\ IF crowded'
        THEN ban_sent' \in {ban_sent, ban_sent \cup {ip}}
        ELSE ban_sent' = IF again THEN ban_sent \cup {ip} ELSE ban_sent
     /\ UNCHANGED <<served_page, served_res>>

NewWindow ==
  /\ served_page' = Zero
  /\ served_res' = Zero
  /\ refused' = Zero
  /\ ban_sent' = {}
  /\ crowded' = FALSE

Next ==
  \/ \E ip \in IP : ServePage(ip) \/ ServeRes(ip) \/ Refuse(ip)
  \/ NewWindow

Spec == Init /\ [][Next]_vars
==============================================================================
