SPECIFICATION FairSpec
CONSTANTS
  dam = dam
  http = http
  cdn = cdn
  cdnIdn = cdnIdn
  other = other
  bad = bad
  Spellings = {dam, http, cdn, cdnIdn, other, bad}
  Hosts = {dam, http, cdn, other}
  Canonical <- MCCanonical
  Ports = {0, 443, 8443}
  Configs <- MCConfigs
  TypedUrls <- MCTypedUrls
  ExportUrls <- MCExportUrls
  ExportHosts = {cdn}
  PublicAddresses = {v4, v6}
  PrivateAddresses = {lan}
  MaxRedirects = 2
  MaxUploads = 2
INVARIANTS
  TypeOK
  OneResourcePerUpload
  
  EveryConnectionIsVetted
PROPERTIES
  EveryUploadEnds
CHECK_DEADLOCK FALSE
