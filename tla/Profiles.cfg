SPECIFICATION Spec
CONSTANTS
  Subs = {s1, s2}
  MaxProfiles = 2
  MaxFetched = 1
  MaxFetches = 2
  NoSub = NoSub
INVARIANT TypeOK
INVARIANT StartsWhatIsShown
INVARIANT OwnersListed
INVARIANT RemovalHolds
INVARIANT GuardExact
PROPERTY OwnersKept
PROPERTY OthersKept
SYMMETRY Symmetry
