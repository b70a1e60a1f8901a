SPECIFICATION Spec
CONSTANTS
  Turn <- Two
  Text <- Texts
  Relevance <- RelevanceOf
  Negated = {"long"}
  Correcting = {"long"}
  Unfit = {}
  Slot <- Slots
  SlotOf <- SlotsOfTexts
  SummarySlotOf <- SlotsOfTurns
  Key <- Keys
  KeyOf <- KeysOfTexts
  Conf = {7}
  MaxRetries = 1
  MaxFault = 1
  MaxUser = 1
INVARIANTS
  SupersededByNewer
  Remembered
CHECK_DEADLOCK FALSE
