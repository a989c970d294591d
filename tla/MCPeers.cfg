CONSTANTS
  MAX_REPLAY_SIZE = 4
  REJECT_AFTER_MESSAGES = 11
  U64_MAX = 16
  Keepalives = {2}
  REKEY_TIMEOUT = 2
  REKEY_ATTEMPT_TIME = 3
  REKEY_AFTER_TIME = 4
  REJECT_AFTER_TIME = 6
  MaxTime = 14
  Width = 2
  MaxPeers = 3
  MaxIndex = 2
  MaxConfig = 2
  Keys <- MCKeys
  Allowed <- MCAllowed
  Configs <- MCConfigs
SPECIFICATION MCSpec
INVARIANTS NoReplay FalseRefusalOnlyAtFirstWrap HandshakeKeepsGoing RouteIsMostSpecific
           SessionIsOfItsPeer
PROPERTIES ImplementsReplayWindow AttemptsSpaced
CHECK_DEADLOCK FALSE
