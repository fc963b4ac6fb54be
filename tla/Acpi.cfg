\* An RSDP in either range, in both or in none; RSDTs of up to two tables.
SPECIFICATION FairSpec
CONSTANTS
  Paragraphs <- MCParagraphs
  Madts <- MCMadts
  Behind <- MCBehind
  MaxTables = 2
INVARIANTS RecordsFirstRsdp
PROPERTIES InitReturns
CHECK_DEADLOCK FALSE
