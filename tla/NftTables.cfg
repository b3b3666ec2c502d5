\* Two main instances and a test instance; both configurations allow port 22.
CONSTANTS
  Ip4 = {a4}
  Ip6 = {a6}
  main_ports = {80, 443}
  test_ports = {8080, 8443}
  main_allow = {22}
  test_allow = {22}
SPECIFICATION Spec
INVARIANTS
  TypeOK
  KeepsItsTables
  NothingLeft
  TestReachable
  BanEffective
