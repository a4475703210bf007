SPECIFICATION Spec
CONSTANTS
  Containers = {api1, api2}
  QuoteMinutes <- SomeMinutes
INVARIANTS
  TypeOK
  SchemaIsItsVersion
  BootedFits
  QuotesAreFair
PROPERTIES
  StuckForGood
