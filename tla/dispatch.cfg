SPECIFICATION FairSpec
CONSTANTS
  d1 = d1  d2 = d2  p1 = p1  Anon = Anon
  Deliveries = {d1, d2}
  Notable = {d1}
  Attendees <- MCAttendees
  Channels <- MCChannels
  Provider <- MCProvider
  Contacts <- MCContacts
  MaxRetries = 2
INVARIANTS DispatchTypeOK RelayAfterStatus CopiesBounded LoggedOnce NothingSkipped QuietAfterErasure
PROPERTY PayloadsDrain
