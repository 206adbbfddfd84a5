\* Small models of every kind of item and one rename, change or removal after
\* another.
SPECIFICATION Spec
CONSTANTS
  None = None
  Names <- AllNames
  Predefined <- SomePredefined
  Worlds <- AllWorlds
INVARIANTS TypeOK ProtocolMatchesItems NoProblemUnseen
PROPERTIES RenameKeepsConsistency ChangesReachAllTypes
