\* Two threads of one MCP server: the WATCH tick and a report.
CONSTANTS
  watch = watch report = report mcp = mcp
  Output <- OneTx
  Thread = {watch, report}
  Daemon = {watch}
  Host <- OneProcess
  Nobody = Nobody NoHeight = NoHeight
  START_LOOKBACK = 1 DUST_FLOOR = 330
  MaxHeight = 4 MaxErrors = 0 MaxCrashes = 0 MaxReorgs = 0
SPECIFICATION Spec
INVARIANTS NoDoubleBooking IncomeBooked
