SPECIFICATION MCSpec
CONSTANTS
  ToolLists <- MCToolLists
  Backends <- MCBackends
  Assets <- MCAssets
  Names <- MCSkills
  SkillNames <- MCGoodNames
  HostNames <- MCHostNames
INVARIANT OffersWhatWasAsked
INVARIANT AdminGate
INVARIANT SkillsServed
