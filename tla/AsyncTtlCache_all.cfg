CONSTANTS
  c1 = c1
  c2 = c2
  f1 = f1
  f2 = f2
  sg = sg
  brief = brief
  NoFill = NoFill
  NoKey = NoKey
  Ttl = 1
  MaxGen = 1
  Callers <- MCPair
  ScopeParts <- MCScopeParts
  KeyParts <- MCKeyParts
  LocalKeys <- MCLocalKeys
  Scopes <- MCScopes
  ScopeOf <- MCScopeOf
  Fills <- MCFills
SPECIFICATION FairSpec
INVARIANTS
  TypeOK
  GenerationFence
  OneFillPerGeneration
  OnlyShutdownCancelsFills
PROPERTIES
  NothingIsHeld
  ImplementsGenerationalCache
