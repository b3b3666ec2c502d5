\* Two sites, every set of files for one of them, MIME lists of up to four entries that fit and one of five that does not.
CONSTANTS
  domain <- MCDomain
  LabelPrefixes <- MCLabelPrefixes
  mime_cap = 49
  mime_default = "default"
  Hosts <- MCHosts
  Uris <- MCUris
  Setups <- MCSetups
SPECIFICATION FairSpec
INVARIANTS
  TypeOK
  DecodeRight
  CleanUrls
  SiteKept
  ContentTypeRight
PROPERTIES
  RedirectsShorten
  RedirectsEnd
CHECK_DEADLOCK FALSE
