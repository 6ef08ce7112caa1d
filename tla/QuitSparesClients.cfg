\* violated: see the findings in README.md
SPECIFICATION Spec
CONSTANTS
  c1 = c1
  c2 = c2
  c3 = c3
  f1 = f1
  f2 = f2
  Client <- TwoClients
  FD <- MCFD
  Nobody = Nobody
INVARIANT QuitSparesClients
CHECK_DEADLOCK FALSE
