\* Three clients, two slots: the last slot is shared.
CONSTANTS
  a = a
  b = b
  c = c
  IP = {a, b, c}
  EmptyIP = EmptyIP
  nft_arr_cap = 2
  CntMod = 4
  lim_page = 2
  lim_res = 1
  ban_lim = 2
  use_nft = TRUE
  MaxReq = 7
SPECIFICATION Spec
SYMMETRY Symmetry
INVARIANTS
  TypeOK
  SlotsWellFormed
  ServedBound
  Accounted
PROPERTIES
  SlotStable
  RefinesQuota
