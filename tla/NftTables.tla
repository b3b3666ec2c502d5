------------------------------ MODULE NftTables ------------------------------
(***************************************************************************)
(* The nftables state that facows instances on one host share: the tables  *)
(* facows (main configuration) and facows_test (test mode), as net_nft.c   *)
(* creates, extends, deletes and fills them while instances start, fail to *)
(* start, stop, are killed and are started again.  Every buffer given to   *)
(* nft_run_cmd_from_buffer is one transaction: all of it or nothing, and   *)
(* the code never looks at the result.                                     *)
(*                                                                         *)
(* The netdev and the inet table of one name are created and deleted in    *)
(* the same transaction and appear here as one record.                     *)
(***************************************************************************)
EXTENDS Naturals

CONSTANTS
  Ip4, Ip6,    \* addresses of clients, by family
  main_ports,  \* HTTP_PORT and HTTPS_PORT of facows.conf
  test_ports,  \* HTTP_PORT and HTTPS_PORT of facows_test.conf
  main_allow,  \* ALLOW_PORTS of facows.conf
  test_allow   \* ALLOW_PORTS of facows_test.conf

ASSUME ConstantsType ==
  /\ Ip4 \cap Ip6 = {}
  /\ test_ports \cap (main_ports \cup main_allow) = {}

\* Two instances with the main configuration (the service and one started by
\* hand) and one in test mode.
Instance == {"main", "main2", "test"}
Table == {"facows", "facows_test"}
TableOf(i) == IF i = "test" THEN "facows_test" ELSE "facows"
Users(t) == {i \in Instance : TableOf(i) = t}

VARIABLES
  pc,       \* of each instance: "off", "ports" (test mode, between the two commands
            \* of net_nft_init), "init", "up", "fini", "table" (test mode, between
            \* the two commands of net_nft_fini)
  nft,      \* the tables of each name
  reported, \* history: addresses given to the current tables of each name
  doubled,  \* history: two instances used the current tables of each name
  dirty,    \* history: an instance ended without net_nft_fini
  forgot    \* history: the main tables were made anew under a running test instance

history == <<reported, doubled, dirty, forgot>>
vars == <<pc, nft, history>>

IP == Ip4 \cup Ip6
HttpPorts(t) == IF t = "facows" THEN main_ports ELSE test_ports
OwnPorts(t) == HttpPorts(t) \cup IF t = "facows" THEN main_allow ELSE test_allow

Absent == [exists |-> FALSE, ports |-> {}, ban4 |-> {}, ban6 |-> {}]
Fresh(t) == [exists |-> TRUE, ports |-> OwnPorts(t), ban4 |-> {}, ban6 |-> {}]

Init ==
  /\ pc = [i \in Instance |-> "off"]
  /\ nft = [t \in Table |-> Absent]
  /\ reported = [t \in Table |-> {}]
  /\ doubled = [t \in Table |-> FALSE]
  /\ dirty = [t \in Table |-> FALSE]
  /\ forgot = FALSE

------------------------------------------------------------------------------
\* net_nft_init and net_nft_fini.

Bug_Opened == nft

Bug2_Opened == [nft EXCEPT !["facows"].ports = @ \cup test_ports]

\* Test mode first adds its two ports to the set of the main table, if there is one.
Opened ==
  IF nft["facows"].exists
  THEN [nft EXCEPT !["facows"].ports = @ \cup test_ports]
  ELSE nft

Bug_Closed ==
  IF nft["facows"].exists
  THEN [nft EXCEPT !["facows"].ports = @ \ OwnPorts("facows_test")]
  ELSE nft

Bug2_Closed == nft

\* On exit it deletes them again, which fails if one of them is not there.
Closed ==
  IF nft["facows"].exists /\ test_ports \subseteq nft["facows"].ports
  THEN [nft EXCEPT !["facows"].ports = @ \ test_ports]
  ELSE nft

\* add, delete and create: whatever was there is replaced.
Created(t) == [nft EXCEPT ![t] = Fresh(t)]

Deleted(t) == [nft EXCEPT ![t] = Absent]

------------------------------------------------------------------------------
\* Instances.

Others(i) == Users(TableOf(i)) \ {i}
Alone(i) == \A j \in Others(i) : pc[j] = "off"

\* Test mode opens its ports in the main table.
OpenPorts ==
  /\ pc["test"] = "off"
  /\ pc' = [pc EXCEPT !["test"] = "ports"]
  /\ nft' = Opened
  /\ forgot' = FALSE
  /\ UNCHANGED <<reported, doubled, dirty>>

\* Started by hand, or again by the service unit (Restart=always).
Start(i) ==
  LET t == TableOf(i)
  IN /\ pc[i] = IF i = "test" THEN "ports" ELSE "off"
     /\ pc' = [pc EXCEPT ![i] = "init"]
     /\ nft' = Created(t)
     /\ reported' = [reported EXCEPT ![t] = {}]
     /\ doubled' = [doubled EXCEPT ![t] = ~Alone(i)]
     /\ forgot' = (forgot \/ (i # "test" /\ pc["test"] # "off"))
     /\ UNCHANGED dirty

\* The child listens on its ports, or fails to (another instance has them, or
\* any other error of its set-up), exits, and the parent cleans up.
Listen(i) ==
  /\ pc[i] = "init"
  /\ \/ pc' = [pc EXCEPT ![i] = "fini"]
     \/ /\ \A j \in Others(i) : pc[j] # "up"
        /\ pc' = [pc EXCEPT ![i] = "up"]
  /\ UNCHANGED <<nft, history>>

Stop(i) ==
  /\ pc[i] = "up"
  /\ pc' = [pc EXCEPT ![i] = "fini"]
  /\ UNCHANGED <<nft, history>>

\* Test mode closes its ports in the main table.
ClosePorts ==
  /\ pc["test"] = "fini"
  /\ pc' = [pc EXCEPT !["test"] = "table"]
  /\ nft' = Closed
  /\ UNCHANGED history

Fini(i) ==
  LET t == TableOf(i)
  IN /\ pc[i] = IF i = "test" THEN "table" ELSE "fini"
     /\ pc' = [pc EXCEPT ![i] = "off"]
     /\ nft' = Deleted(t)
     /\ reported' = [reported EXCEPT ![t] = {}]
     /\ dirty' = [dirty EXCEPT ![t] = FALSE]
     /\ UNCHANGED <<doubled, forgot>>

\* kill -9 of the processes, or an error exit of main between net_nft_init and
\* the main loop: the tables stay.
Crash(i) ==
  /\ pc[i] # "off"
  /\ pc' = [pc EXCEPT ![i] = "off"]
  /\ dirty' = [dirty EXCEPT ![TableOf(i)] = TRUE]
  /\ UNCHANGED <<nft, reported, doubled, forgot>>

------------------------------------------------------------------------------
\* Bans.

Bug_BanSet(text) == "ban6"

\* The set an address goes to: the text of an IPv4 client, taken from an IPv6
\* socket, begins with ::ffff:, which is cut off.
BanSet(text) == IF text \in Ip4 THEN "ban4" ELSE "ban6"

\* ip is an element of a set of a table.
Banned(t, set, ip) ==
  IF set = "ban4" THEN [nft EXCEPT ![t].ban4 = @ \cup {ip}]
  ELSE [nft EXCEPT ![t].ban6 = @ \cup {ip}]

\* net_nft_dos_ban: fails silently without a table.
Ban(i, ip) ==
  LET t == TableOf(i)
  IN /\ pc[i] = "up"
     /\ nft' = IF nft[t].exists THEN Banned(t, BanSet(ip), ip) ELSE nft
     /\ reported' = [reported EXCEPT ![t] = @ \cup {ip}]
     /\ UNCHANGED <<pc, doubled, dirty, forgot>>

\* The rules themselves ban an address that sends too many packets to the ports.
Flood(t, ip) ==
  /\ nft[t].exists
  /\ nft' = Banned(t, IF ip \in Ip4 THEN "ban4" ELSE "ban6", ip)
  /\ reported' = [reported EXCEPT ![t] = @ \cup {ip}]
  /\ UNCHANGED <<pc, doubled, dirty, forgot>>

\* BAN_TIME is over.
Expire(t, ip) ==
  /\ ip \in nft[t].ban4 \cup nft[t].ban6
  /\ nft' = [nft EXCEPT ![t].ban4 = @ \ {ip}, ![t].ban6 = @ \ {ip}]
  /\ reported' = [reported EXCEPT ![t] = @ \ {ip}]
  /\ UNCHANGED <<pc, doubled, dirty, forgot>>

Next ==
  \/ OpenPorts
  \/ ClosePorts
  \/ \E i \in Instance : Start(i) \/ Listen(i) \/ Stop(i) \/ Fini(i) \/ Crash(i)
  \/ \E i \in Instance, ip \in IP : Ban(i, ip)
  \/ \E t \in Table, ip \in IP : Flood(t, ip) \/ Expire(t, ip)

Spec == Init /\ [][Next]_vars

------------------------------------------------------------------------------
\* What the rules do with a packet that opens a connection: every ingress chain
\* drops it if its source is banned, and every input chain, each with policy
\* drop, must accept its port.

Dropped(ip) ==
  \E t \in Table : ip \in IF ip \in Ip4 THEN nft[t].ban4 ELSE nft[t].ban6
PortOpen(p) == \A t \in Table : nft[t].exists => p \in nft[t].ports

------------------------------------------------------------------------------
\* Properties.

Port == OwnPorts("facows") \cup OwnPorts("facows_test")

NftTable == [exists : BOOLEAN, ports : SUBSET Port, ban4 : SUBSET IP, ban6 : SUBSET IP]

\* Types; a command on tables that do not exist leaves nothing behind.
TypeOK ==
  /\ pc \in [Instance -> {"off", "ports", "init", "up", "fini", "table"}]
  /\ nft \in [Table -> NftTable]
  /\ \A t \in Table : ~nft[t].exists => nft[t] = Absent
  /\ reported \in [Table -> SUBSET IP]
  /\ doubled \in [Table -> BOOLEAN] /\ dirty \in [Table -> BOOLEAN] /\ forgot \in BOOLEAN

\* However test instances come and go, and whoever is killed and started again,
\* a serving instance keeps its tables and every port it opened; only a second
\* instance with the same configuration takes them away, when it fails to listen
\* and cleans up.
KeepsItsTables ==
  \A i \in Instance :
    LET t == TableOf(i)
    IN pc[i] = "up" /\ ~doubled[t] => nft[t].exists /\ OwnPorts(t) \subseteq nft[t].ports

\* After a clean exit nothing is left, also of what a killed predecessor left:
\* no table of the instance, and no port of test mode in the main set.
NothingLeft ==
  \A t \in Table :
    (\A i \in Users(t) : pc[i] = "off") /\ ~dirty[t] =>
      /\ ~nft[t].exists
      /\ t = "facows_test" => nft["facows"].ports \cap test_ports = {}

\* The ports of a serving test instance are open in both sets, unless the main
\* tables were made after it started: net_nft_init of the main instance does not
\* know of test mode, and nobody adds the ports again.
TestReachable ==
  pc["test"] = "up" /\ ~forgot => \A p \in test_ports : PortOpen(p)

\* Packets of an address that was reported are dropped, whichever family it has,
\* until the ban is over or the tables are made anew; except where a second
\* instance has deleted the tables.
BanEffective ==
  \A t \in Table : \A ip \in reported[t] : Dropped(ip) \/ doubled[t]

\* "Test mode is open ports for test" (README.md): the ports of a serving test
\* instance are open, in whichever order the instances were started.
TestPortsOpen == pc["test"] = "up" => \A p \in test_ports : PortOpen(p)
==============================================================================
