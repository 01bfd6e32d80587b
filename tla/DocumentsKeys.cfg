SPECIFICATION DocumentsSpec
INVARIANT KeyNamesOneDocument
CONSTANTS
  Blobs = {{"signature", "unsigned"}, {"lawsuit"}}
  Filenames = {txt, exe}
  Supported = {txt}
  Filings = {g1}
  DocKeys = {k1, k2}
  NoDocKey = NoDocKey
  MaxDocuments = 3
  MaxReviews = 1
CHECK_DEADLOCK FALSE
