SPECIFICATION Spec
CONSTANTS
  FixedMax = 999
  UintMax = 99999
  MaxScale = 2
  ProtocolDecimals = 2
  minimum_quantity = 3
  basis_points = 4
  PriceDigits = 1
  QuantityDigits = 2
  WordBytes = 2
  AddressBytes = 1
  Registry <- MCRegistry
INVARIANTS NumbersAreExact OrdersAreBacked QuotesAreExact BytesReadBack PlansAreBound
CHECK_DEADLOCK FALSE
