\* Three files; the third cannot be repeated; three deaths, at any point.
SPECIFICATION MigrateFairSpec
CONSTANTS
  N = 3
  Repeatable = {1, 2}
  MaxCrashes = 3
INVARIANTS MigrateTypeOK  ServesMigrated
 
