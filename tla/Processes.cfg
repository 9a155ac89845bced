SPECIFICATION MCSpec
CONSTANTS
  WorkerCount = 2
  WorkerSlots = {1, 2, 3, 4}
  MaxRestartsPerWorker = 1
  Window = 2
  Tabs = {1, 2, 3}
  Conns = {1, 2}
  Chains = {1, 2}
  Asks = {1, 2}
  Jobs = {1, 2}
  Migrations <- TwoMigrations
  Users = {"u1", "u2"}
  MaxUsers = {"x"}
  Tokens = {"a", "b"}
  Codes = {1, 2}
  Requests = {1, 2}
  MaxAttempts = 2
  None = None
INVARIANTS
  StatusSettles
  RestartsBounded
  NoTabLeftRunning
  MigrationsWhole
  BotIsTheConfiguredOne
  CodesWorkOnce
PROPERTIES
  MetricsAnswered
  ShutdownEnds
CHECK_DEADLOCK FALSE
