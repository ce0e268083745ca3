SPECIFICATION Spec
CONSTANTS
  Request = {r1, r2}
  Password <- MCPassword
  Lifetime = 2
  Lockout = 1
  LoginMaxFailures = 1
  MaxTokens = 2
  MaxGuesses = 1
  MaxSets = 1
  MaxTime = 2
  MaxRestarts = 1
SYMMETRY Interchangeable
INVARIANTS
  TypeOK
  OnlySignedIn
  PasswordEndsLogins
  CorrectPasswordWins
