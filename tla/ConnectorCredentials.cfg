SPECIFICATION Spec
CONSTANTS
  Process = {p1, p2}
  Slot = {s1, s2}
  MaxMutations = 2
SYMMETRY Symmetry
INVARIANT TypeOK
INVARIANT NoUnknownEffectReplayed
INVARIANT ActiveCredentialIsLive
INVARIANT GrantHasUsers
INVARIANT ReauthorizesWhatItSaw
INVARIANT RejectedTokenIsReplaced
PROPERTY RevocationIsFinal
PROPERTY StagedResultIsKept
CHECK_DEADLOCK FALSE
