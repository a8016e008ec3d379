CONSTANTS
  Ips = {"office"}
  Routes = {"login", "forgotPassword", "resetPassword"}
  Options <- MCOptions
  MaxWindows = 5
SPECIFICATION Spec
INVARIANT AttemptsAreLimited
