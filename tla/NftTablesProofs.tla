--------------------------- MODULE NftTablesProofs ---------------------------
(***************************************************************************)
(* The safety of NftTables for all sets of addresses and ports.            *)
(***************************************************************************)
EXTENDS NftTables, TLAPS

\* Tables that exist hold the ports of their own configuration.
Own == \A t \in Table : nft[t].exists => OwnPorts(t) \subseteq nft[t].ports

\* Unless tables were used by two instances, at most one of their users is there.
Single ==
  \A i, j \in Instance :
    i # j /\ TableOf(i) = TableOf(j) /\ ~doubled[TableOf(i)] => pc[i] = "off" \/ pc[j] = "off"

\* An instance between its start and the end of its clean-up has its tables.
Present ==
  \A i \in Instance :
    pc[i] \in {"init", "up", "fini", "table"} /\ ~doubled[TableOf(i)] => nft[TableOf(i)].exists

\* The ports of test mode are added to the main set and deleted from it together.
Whole ==
  \/ test_ports \subseteq nft["facows"].ports
  \/ nft["facows"].ports \cap test_ports = {}

\* After its first command of clean-up test mode has no port in the main set.
Shut == pc["test"] = "table" => nft["facows"].ports \cap test_ports = {}

\* Before it they are there, unless the main tables were made anew.
Opens ==
  pc["test"] \in {"ports", "init", "up", "fini"} /\ ~forgot /\ nft["facows"].exists
    => test_ports \subseteq nft["facows"].ports

\* A reported address is in the set of its family.
Held ==
  \A t \in Table : \A ip \in reported[t] :
    doubled[t] \/ ip \in IF ip \in Ip4 THEN nft[t].ban4 ELSE nft[t].ban6

IInv ==
  /\ TypeOK /\ Own /\ Single /\ Present
  /\ Whole /\ Shut /\ Opens /\ Held /\ NothingLeft

LEMMA InitIInv == Init => IInv
<1> SUFFICES ASSUME Init PROVE IInv
  OBVIOUS
<1> USE ConstantsType DEF Init, Absent, Table, Instance
<1>1. TypeOK
  <2>1. nft \in [Table -> NftTable]
    BY DEF NftTable
  <2> QED
    BY <2>1 DEF TypeOK
<1>2. Own /\ Single /\ Present
  BY DEF Own, Single, Present
<1>3. Whole /\ Shut /\ Opens /\ Held
  BY DEF Whole, Shut, Opens, Held
<1>4. NothingLeft
  BY DEF NothingLeft
<1> QED
  BY <1>1, <1>2, <1>3, <1>4 DEF IInv

LEMMA OpenPortsStep == IInv /\ OpenPorts => IInv'
<1> SUFFICES ASSUME IInv, OpenPorts
             PROVE  IInv'
  OBVIOUS
<1> USE ConstantsType DEF IInv
<1>1. TypeOK'
  <2>1. nft' \in [Table -> NftTable]
    BY DEF OpenPorts, Opened, TypeOK, NftTable, Port, OwnPorts, HttpPorts, Table
  <2>2. \A t \in Table : ~nft'[t].exists => nft'[t] = Absent
    BY DEF OpenPorts, Opened, TypeOK
  <2> QED
    BY <2>1, <2>2 DEF OpenPorts, TypeOK, Instance
<1>2. Own'
  BY DEF OpenPorts, Opened, Own
<1>3. Single'
  BY DEF OpenPorts, Opened, Single, TableOf
<1>4. Present'
  BY DEF OpenPorts, Opened, Present
<1>5. Whole'
  BY DEF OpenPorts, Opened, Whole
<1>6. Shut'
  BY DEF OpenPorts, Opened, Shut
<1>7. Opens'
  BY DEF OpenPorts, Opened, Opens, Table, TypeOK
<1>8. Held'
  BY DEF OpenPorts, Opened, Held
<1>9. NothingLeft'
  BY DEF OpenPorts, Opened, NothingLeft, Users, TableOf, Instance, TypeOK
<1> QED
  BY <1>1, <1>2, <1>3, <1>4, <1>5, <1>6, <1>7, <1>8, <1>9

LEMMA ClosePortsStep == IInv /\ ClosePorts => IInv'
<1> SUFFICES ASSUME IInv, ClosePorts
             PROVE  IInv'
  OBVIOUS
<1> USE ConstantsType DEF IInv
<1>1. TypeOK'
  <2>1. nft' \in [Table -> NftTable]
    BY DEF ClosePorts, Closed, TypeOK, NftTable, Table
  <2>2. \A t \in Table : ~nft'[t].exists => nft'[t] = Absent
    BY DEF ClosePorts, Closed, TypeOK
  <2> QED
    BY <2>1, <2>2 DEF ClosePorts, TypeOK, history, Instance
<1>2. Own'
  BY DEF ClosePorts, Closed, Own, OwnPorts, HttpPorts
<1>3. Single'
  BY DEF ClosePorts, Closed, Single, history
<1>4. Present'
  BY DEF ClosePorts, Closed, Present, history
<1>5. Whole'
  BY DEF ClosePorts, Closed, Whole
<1>6. Shut'
  BY DEF ClosePorts, Closed, Shut, Table, Absent, Whole, TypeOK
<1>7. Opens'
  BY DEF ClosePorts, Closed, Opens, Instance, TypeOK
<1>8. Held'
  BY DEF ClosePorts, Closed, Held, history
<1>9. NothingLeft'
  BY DEF ClosePorts, Closed, NothingLeft, history
<1> QED
  BY <1>1, <1>2, <1>3, <1>4, <1>5, <1>6, <1>7, <1>8, <1>9

LEMMA StartStep == IInv /\ (\E i \in Instance : Start(i)) => IInv'
<1> SUFFICES ASSUME IInv, NEW i \in Instance, Start(i)
             PROVE  IInv'
  OBVIOUS
<1> USE ConstantsType DEF IInv
<1>1. TypeOK'
  BY DEF Start, Created, Fresh, TypeOK, NftTable, Port, Table
<1>2. Own'
  BY DEF Start, Created, Fresh, Own
<1>3. Single'
  BY DEF Start, Alone, Others, Users, Single, TableOf, Table, TypeOK
<1>4. Present'
  BY DEF Start, Created, Fresh, Present, TableOf, Table, TypeOK
<1>5. Whole'
  BY DEF Start, Created, Fresh, Whole, OwnPorts, HttpPorts
<1>6. Shut'
  BY DEF Start, Created, Fresh, Shut, OwnPorts, HttpPorts
<1>7. Opens'
  BY DEF Start, Created, Opens, Table, TableOf, Instance, TypeOK
<1>8. Held'
  BY DEF Start, Created, Held, TypeOK
<1>9. NothingLeft'
  BY DEF Start, Created, Fresh, Users, NothingLeft, OwnPorts, HttpPorts, TypeOK
<1> QED
  BY <1>1, <1>2, <1>3, <1>4, <1>5, <1>6, <1>7, <1>8, <1>9

LEMMA ListenStep == IInv /\ (\E i \in Instance : Listen(i)) => IInv'
<1> SUFFICES ASSUME IInv, NEW i \in Instance, Listen(i)
             PROVE  IInv'
  OBVIOUS
<1> USE ConstantsType DEF IInv
<1>1. TypeOK'
  BY DEF Listen, TypeOK, history
<1>2. Own'
  BY DEF Listen, Own
<1>3. Single'
  BY DEF Listen, Single, TypeOK, history
<1>4. Present'
  BY DEF Listen, Present, TypeOK, history
<1>5. Whole'
  BY DEF Listen, Whole
<1>6. Shut'
  BY DEF Listen, Shut, Instance, TypeOK
<1>7. Opens'
  BY DEF Listen, Opens, Instance, TypeOK, history
<1>8. Held'
  BY DEF Listen, Held, history
<1>9. NothingLeft'
  BY DEF Listen, NothingLeft, Users, TypeOK, history
<1> QED
  BY <1>1, <1>2, <1>3, <1>4, <1>5, <1>6, <1>7, <1>8, <1>9

LEMMA StopStep == IInv /\ (\E i \in Instance : Stop(i)) => IInv'
<1> SUFFICES ASSUME IInv, NEW i \in Instance, Stop(i)
             PROVE  IInv'
  OBVIOUS
<1> USE ConstantsType DEF IInv
<1>1. TypeOK'
  BY DEF Stop, TypeOK, history
<1>2. Own'
  BY DEF Stop, Own
<1>3. Single'
  BY DEF Stop, Single, history
<1>4. Present'
  BY DEF Stop, Present, history
<1>5. Whole'
  BY DEF Stop, Whole
<1>6. Shut'
  BY DEF Stop, Shut
<1>7. Opens'
  BY DEF Stop, Opens, history
<1>8. Held'
  BY DEF Stop, Held, history
<1>9. NothingLeft'
  BY DEF Stop, NothingLeft, history
<1> QED
  BY <1>1, <1>2, <1>3, <1>4, <1>5, <1>6, <1>7, <1>8, <1>9

LEMMA FiniStep == IInv /\ (\E i \in Instance : Fini(i)) => IInv'
<1> SUFFICES ASSUME IInv, NEW i \in Instance, Fini(i)
             PROVE  IInv'
  OBVIOUS
<1> USE ConstantsType DEF IInv
<1>1. TypeOK'
  BY DEF Fini, Deleted, TypeOK, NftTable, Absent
<1>2. Own'
  BY DEF Fini, Deleted, Own, Absent
<1>3. Single'
  BY DEF Fini, Deleted, Single
<1>4. Present'
  BY DEF Fini, Deleted, Present, Single, TypeOK
<1>5. Whole'
  BY DEF Fini, Deleted, Whole, Absent
<1>6. Shut'
  BY DEF Fini, Deleted, Shut, Absent
<1>7. Opens'
  BY DEF Fini, Deleted, Opens, Absent
<1>8. Held'
  BY DEF Fini, Deleted, Held, TypeOK
<1>9. NothingLeft'
  BY DEF Fini, Deleted, NothingLeft, Users, TableOf, Absent, Shut, TypeOK
<1> QED
  BY <1>1, <1>2, <1>3, <1>4, <1>5, <1>6, <1>7, <1>8, <1>9

LEMMA CrashStep == IInv /\ (\E i \in Instance : Crash(i)) => IInv'
<1> SUFFICES ASSUME IInv, NEW i \in Instance, Crash(i)
             PROVE  IInv'
  OBVIOUS
<1> USE ConstantsType DEF IInv
<1>1. TypeOK'
  BY DEF Crash, TypeOK
<1>2. Own'
  BY DEF Crash, Own
<1>3. Single'
  BY DEF Crash, Single
<1>4. Present'
  BY DEF Crash, Present
<1>5. Whole'
  BY DEF Crash, Whole
<1>6. Shut'
  BY DEF Crash, Shut
<1>7. Opens'
  BY DEF Crash, Opens
<1>8. Held'
  BY DEF Crash, Held
<1>9. NothingLeft'
  BY DEF Crash, NothingLeft, Users, TypeOK
<1> QED
  BY <1>1, <1>2, <1>3, <1>4, <1>5, <1>6, <1>7, <1>8, <1>9

LEMMA BanStep == IInv /\ (\E i \in Instance, ip \in IP : Ban(i, ip)) => IInv'
<1> SUFFICES ASSUME IInv, NEW i \in Instance, NEW ip \in IP, Ban(i, ip)
             PROVE  IInv'
  OBVIOUS
<1> USE ConstantsType DEF IInv
<1>1. TypeOK'
  <2>1. nft' \in [Table -> NftTable]
    BY DEF Ban, Banned, BanSet, TypeOK, NftTable, TableOf, Table
  <2>2. \A u \in Table : ~nft'[u].exists => nft'[u] = Absent
    BY DEF Ban, Banned, BanSet, TypeOK
  <2>3. reported' \in [Table -> SUBSET IP]
    BY DEF Ban, TypeOK
  <2> QED
    BY <2>1, <2>2, <2>3 DEF Ban, TypeOK
<1>2. Own'
  BY DEF Ban, Banned, BanSet, Own
<1>3. Single'
  BY DEF Ban, Banned, BanSet, Single
<1>4. Present'
  BY DEF Ban, Banned, BanSet, Present
<1>5. Whole'
  BY DEF Ban, Banned, BanSet, Whole
<1>6. Shut'
  BY DEF Ban, Banned, BanSet, Shut
<1>7. Opens'
  BY DEF Ban, Banned, BanSet, Opens
<1>8. Held'
  BY DEF Ban, Banned, BanSet, Held, Present, TypeOK
<1>9. NothingLeft'
  BY DEF Ban, Banned, BanSet, NothingLeft
<1> QED
  BY <1>1, <1>2, <1>3, <1>4, <1>5, <1>6, <1>7, <1>8, <1>9

LEMMA FloodStep == IInv /\ (\E t \in Table, ip \in IP : Flood(t, ip)) => IInv'
<1> SUFFICES ASSUME IInv, NEW t \in Table, NEW ip \in IP, Flood(t, ip)
             PROVE  IInv'
  OBVIOUS
<1> USE ConstantsType DEF IInv
<1>1. TypeOK'
  <2>1. nft' \in [Table -> NftTable]
    BY DEF Flood, Banned, TypeOK, NftTable, Table
  <2>2. \A u \in Table : ~nft'[u].exists => nft'[u] = Absent
    BY DEF Flood, Banned, TypeOK
  <2>3. reported' \in [Table -> SUBSET IP]
    BY DEF Flood, TypeOK
  <2> QED
    BY <2>1, <2>2, <2>3 DEF Flood, TypeOK
<1>2. Own'
  BY DEF Flood, Banned, Own
<1>3. Single'
  BY DEF Flood, Banned, Single
<1>4. Present'
  BY DEF Flood, Banned, Present
<1>5. Whole'
  BY DEF Flood, Banned, Whole
<1>6. Shut'
  BY DEF Flood, Banned, Shut
<1>7. Opens'
  BY DEF Flood, Banned, Opens
<1>8. Held'
  BY DEF Flood, Banned, Held, TypeOK
<1>9. NothingLeft'
  BY DEF Flood, Banned, NothingLeft
<1> QED
  BY <1>1, <1>2, <1>3, <1>4, <1>5, <1>6, <1>7, <1>8, <1>9

LEMMA ExpireStep == IInv /\ (\E t \in Table, ip \in IP : Expire(t, ip)) => IInv'
<1> SUFFICES ASSUME IInv, NEW t \in Table, NEW ip \in IP, Expire(t, ip)
             PROVE  IInv'
  OBVIOUS
<1> USE ConstantsType DEF IInv
<1>1. TypeOK'
  <2>1. nft[t].exists
    BY DEF Expire, TypeOK, Absent
  <2>2. nft' \in [Table -> NftTable]
    BY DEF Expire, TypeOK, NftTable, Table
  <2>3. \A u \in Table : ~nft'[u].exists => nft'[u] = Absent
    BY <2>1 DEF Expire, TypeOK, NftTable, Table
  <2>4. reported' \in [Table -> SUBSET IP]
    BY DEF Expire, TypeOK
  <2> QED
    BY <2>2, <2>3, <2>4 DEF Expire, TypeOK
<1>2. Own'
  BY DEF Expire, Own, TypeOK
<1>3. Single'
  BY DEF Expire, Single
<1>4. Present'
  BY DEF Expire, Present, TableOf, Table, TypeOK
<1>5. Whole'
  BY DEF Expire, Whole, Table, TypeOK
<1>6. Shut'
  BY DEF Expire, Shut, Table, TypeOK
<1>7. Opens'
  BY DEF Expire, Opens, Table, TypeOK
<1>8. Held'
  BY DEF Expire, Held, TypeOK
<1>9. NothingLeft'
  BY DEF Expire, NothingLeft, Table, TypeOK
<1> QED
  BY <1>1, <1>2, <1>3, <1>4, <1>5, <1>6, <1>7, <1>8, <1>9

LEMMA NextIInv == IInv /\ [Next]_vars => IInv'
<1> SUFFICES ASSUME IInv, [Next]_vars
             PROVE  IInv'
  OBVIOUS
<1>1. CASE UNCHANGED vars
  BY <1>1 DEF vars, history, IInv, TypeOK, NftTable, Absent, Own, Single, Present, Whole,
     Shut, Opens, Held, NothingLeft
<1>2. CASE Next
  BY <1>2, OpenPortsStep, ClosePortsStep, StartStep, ListenStep, StopStep, FiniStep,
     CrashStep, BanStep, FloodStep, ExpireStep DEF Next
<1> QED
  BY <1>1, <1>2

\* What the instances on a host do to the shared tables (net_nft_init, net_nft_fini and
\* net_nft_dos_ban, with crashes and restarts between any two commands) keeps the
\* inductive invariant, whatever addresses and ports there are.
THEOREM TablesInvariant == Spec => []IInv
<1>1. Init => IInv
  BY InitIInv
<1>2. IInv /\ [Next]_vars => IInv'
  BY NextIInv
<1> QED
  BY <1>1, <1>2, PTL DEF Spec

\* The tables hold chains, sets, elements and ports of the kinds the nft commands of
\* net_nft.c write.
THEOREM TypeOKHolds == Spec => []TypeOK
<1>1. IInv => TypeOK
  BY DEF IInv
<1> QED
  BY <1>1, TablesInvariant, PTL

\* A serving instance keeps its tables and its ports, whatever test instances do to the
\* main set (net_nft_init, net_nft_fini) and whoever is killed and restarted.
THEOREM TablesKept == Spec => []KeepsItsTables
<1>1. IInv => KeepsItsTables
  BY DEF IInv, Own, Present, KeepsItsTables, Instance, TableOf, Table
<1> QED
  BY <1>1, TablesInvariant, PTL

\* After net_nft_fini no table of the instance and no port of test mode is left, also of
\* what a killed predecessor left.
THEOREM TablesRemoved == Spec => []NothingLeft
<1>1. IInv => NothingLeft
  BY DEF IInv
<1> QED
  BY <1>1, TablesInvariant, PTL

\* The ports of a serving test instance are open in both tables, unless the main
\* tables were made after it started.
THEOREM TestReachableHolds == Spec => []TestReachable
<1>1. IInv => TestReachable
  BY DEF IInv, Own, Opens, TestReachable, PortOpen, OwnPorts, HttpPorts
<1> QED
  BY <1>1, TablesInvariant, PTL

\* Packets of a reported address are dropped until its ban is over or the tables are
\* made anew, except where a second instance has deleted the tables.
THEOREM BanEffectiveHolds == Spec => []BanEffective
<1>1. IInv => BanEffective
  BY DEF IInv, Held, BanEffective, Dropped
<1> QED
  BY <1>1, TablesInvariant, PTL
==============================================================================
