CONSTANTS
  Byte <- AllBytes
  MaxU64 = 9999
  Chars <- AllChars
  MaxLine = 6
  Subcommands <- AllSubcommands
  Requests <- AllRequests
  Times = {0, 7, 9999}
SPECIFICATION Spec
INVARIANTS
  TrimIsHarmless
  QuotingSendsTheSame
  OneShotUnderstood
  ChangesAreLogged
  ReplayedAsExecuted
CHECK_DEADLOCK FALSE
