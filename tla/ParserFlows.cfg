SPECIFICATION ParserSpec
CONSTANTS
  MaxNodes = 3
  Documents <- MCDocuments
INVARIANTS FlowsParsed
