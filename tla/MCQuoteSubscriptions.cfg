CONSTANTS
  alice = alice
  bob = bob
  a = a
  b = b
  k1 = k1
  k2 = k2
  k3 = k3
  Users = {alice, bob}
  Tabs = {a, b}
  Owner <- OwnerOfTab
  Wishes <- WishesOfTab
  Keys = {k1, k2, k3}
  Window = 1
  GlobalLimit = 2
  UserLimit = 2
SPECIFICATION Spec
INVARIANTS TypeOK CountsHolders UpstreamFollows WatchersGetProgress
CHECK_DEADLOCK FALSE
