\* One slot, two clients: the second is banned for what the first did.
CONSTANTS
  a = a
  b = b
  c = c
  IP = {a, b}
  EmptyIP = EmptyIP
  nft_arr_cap = 1
  CntMod = 8
  lim_page = 1
  lim_res = 1
  ban_lim = 2
  use_nft = TRUE
  MaxReq = 5
SPECIFICATION Spec
INVARIANTS
  BanJustified
