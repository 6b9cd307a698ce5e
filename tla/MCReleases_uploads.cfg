SPECIFICATION Spec
CONSTANTS
  v1 = v1
  v2 = v2
  good = good
  better = better
  foreign = foreign
  unparsed = unparsed
  adhoc = adhoc
  script = script
  u1 = u1
  u2 = u2
  u3 = u3
  h1 = h1
  None = None
  Form <- Forms
  Required = "Developer"
  Hosts <- OneHost
  Versions <- TwoVersions
  Binaries <- AllBinaries
  Uploads <- ThreeUploads
SYMMETRY Symmetry
INVARIANTS
  InstalledIsPublished
  OneUploadWins
  PublishedIsSigned
PROPERTIES
  SettledReleaseStays
