SPECIFICATION Spec
CONSTANTS
  Tasks = {t1}
  MaxReconnect = 2
  MaxVersions = 1
  MaxMounts = 2
  MaxFetches = 3
  MaxQueue = 1
INVARIANTS TypeOK OneConnection ChannelsServed ListedOnce
PROPERTY DevicesConverge
