SPECIFICATION Spec
CONSTANTS
  Records <- Logged
  MaxPayload = 32
  BadNumbers = {0, 1, 8, 20}
  MaxZeros = 2
  MaxAppends = 3
  MaxFaults = 2
INVARIANTS TypeOK ReadsWhole PrefixContract
