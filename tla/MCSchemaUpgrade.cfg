SPECIFICATION FairSpec
CONSTANTS
  Users = {u1, u2}
  Addresses = {a1}
  Wallets = {w1, w2}
  Grants = {g1}
INVARIANTS
  OneOwner
  NotResent
PROPERTIES
  UpgradeCompletes
