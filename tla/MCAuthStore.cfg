SPECIFICATION StoreFairSpec
CONSTANTS
  Logins = {"ann", "amy", "bob"}
  Passwords = {"p", "q"}
  Hashes = {"p", "q"}
  LoginHash <- MCLoginHash
  PassHash <- MCPassHash
  MaxKey = 2
  NoAccount = NoAccount
  TornHash = TornHash
  TornLogin = TornLogin
  Debris <- MCDebris
  MaxPending = 2
INVARIANTS QuiescentDurable
PROPERTIES FiledUnderOwnKey OwnerStable EventuallyDurable ImplementsAccountTable
