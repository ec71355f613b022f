SPECIFICATION FairSpec
CONSTANTS
  Feeds = {f1, f2}
  Checkers = {k1}
  Episodes = 2
  OldEpisodes = 1
  PageSize = 1
  PerRound = 1
  Dormant = {f2}
  LongAfter = 2
  Versions = 2
  Trailers <- OldestClip
  Unreachable <- NewestClip
  MaxTrouble = 1
INVARIANTS
  TypeOK
  NoRequestIsLost
  VideoOfTheEpisode
  WalkedPagesHaveClips

  
CHECK_DEADLOCK FALSE
