\* Every kind of file, two in one change; three of the Java tests may skip.
SPECIFICATION Spec
CONSTANTS
  Files = {"authorization", "pipeline", "security", "migration", "settings", "errors", "messaging", "cache", "mapped", "unmapped", "javatest", "static", "page", "python", "docs", "unrecognized", "gitattributes", "build"}
  MaxFiles = 2
  Skippable = {"flyway", "events", "cache"}
INVARIANT SkippedIsNotPassed
CHECK_DEADLOCK FALSE
