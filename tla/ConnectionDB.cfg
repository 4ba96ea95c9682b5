SPECIFICATION Spec
CONSTANTS
  Blocks = {b1, b2, b3}
  Wide = {b1}
  Converters = {b3}
  OutPorts <- MCOutPorts
  InPorts <- MCInPorts
  Owner <- MCOwner
  Type <- MCType
  None = None
  Self = Self
  Wrap = 4
INVARIANTS IndexesAgree UsesCounted OwnedWhileUsed NeverAborts
PROPERTIES NetlistSpec ChangesSeen
