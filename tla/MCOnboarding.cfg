CONSTANTS
  Flatten <- Flattened
  ID_KEYS <- MCIdKeys
  TIME_KEYS <- MCTimeKeys
  STATUS_KEYS <- MCStatusKeys
  SHIPMENT_ID_KEYS = {"tracking_id"}
  INVOICE_ID_KEYS = {"invoice_id"}
  SHIPMENT_HINTS = {"tracking", "parcel", "delivery", "carrier", "freight"}
  INVOICE_HINTS = {"invoice", "payment"}
  VENDOR_NAMING_KEYS = {"carrier"}
  Table <- MCTable
  Statuses <- MCStatuses
  Within <- MCWithin
  Token <- MCToken
  TimeOf <- MCTimeOf
  Overflows = {"huge"}
  Fractional = {"9.9e20"}
  Indexed <- MCIndexed
  Blank = {"", " "}
  Empty = ""
  Now = 0
  None = None
  Absent = Absent
  NaN = NaN
  Wordlike <- MCWordlike
  Folded <- MCToken
  PathRank <- MCPathRank
  SampleSets <- MCSampleSets
  Proposals <- MCProposals
  Payloads <- MCPayloads
  HandWritten <- MCHandWritten
  Lessons = {"DELIVERED", "PAID", "UNKNOWN"}
  Configured = {"auto", "openai", "rules", "other"}
  Answers <- MCAnswers
  Threshold = 700
SPECIFICATION Spec
CHECK_DEADLOCK FALSE
INVARIANTS
  TrustedIsRecognised
  EntriesAreTheirOwn
  PathsExistInSamples
  AcceptedProfilesFit
  ProfileKeepsMeaning
  TeachingTheWordSuffices
  HeldWordIsReported
