\* One report after another: failed passes, a crash, dust, lost spend records,
\* a replaced block.
CONSTANTS
  watch = watch report = report mcp = mcp
  Output <- Mixed
  Thread = {report}
  Daemon = {}
  Host <- OneProcess
  Nobody = Nobody NoHeight = NoHeight
  START_LOOKBACK = 1 DUST_FLOOR = 330
  MaxHeight = 4 MaxErrors = 1 MaxCrashes = 1 MaxReorgs = 1
SPECIFICATION FairSpec
INVARIANTS TypeOK NoDoubleBooking IncomeBooked SpendableIsFinal
PROPERTIES IncomeFinal SpendNoticed
