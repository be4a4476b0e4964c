\* Three voices of which two may be loaded, and a queue that fills up.
SPECIFICATION VoicesSpec
CONSTANTS
  Voices = {v1, v2, v3}
  Workers = {w1, w2}
  NoWorker = NoWorker
  NoVoice = NoVoice
  MaxLoaded = 2
  QueueSize = 2
  Interval = 2
  MaxAudio = 3
INVARIANTS
  OneNativeCall
  AllDelivered
PROPERTIES
  VoicesKept
  NobodyWaits
CHECK_DEADLOCK FALSE
