SPECIFICATION Spec

CONSTANTS
  ann = ann
  bob = bob
  s1 = s1
  s2 = s2
  Users = {ann, bob}
  Slots = {s1, s2}
  MaxCrashes = 1
  MaxErrors = 1
  NoUser = NoUser

INVARIANTS
  AppUserIsAuthUser
  NamelessTabs
  RegistrationIsWhole

PROPERTIES
  ProfileStored
