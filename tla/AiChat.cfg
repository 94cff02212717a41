CONSTANTS
  Chats = {c1, c2}
  Compressor = compressor
  None = none
  Failed = failed
  Window = 2
  SummarySize = 1
  MaxMessages = 4
  MaxSettings = 2
  MaxFailures = 1
SPECIFICATION ChatSpec
INVARIANTS  SettingsTakeEffect
CHECK_DEADLOCK FALSE
SYMMETRY Alike
CONSTRAINT ShortOrSettled
