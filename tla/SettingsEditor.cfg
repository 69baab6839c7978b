SPECIFICATION Spec
CONSTANTS
  Form = {f1, f2}
  MaxTexts = 1
  MaxOutside = 1
  None = None
  NoSave = NoSave
  NoLoad = NoLoad
  Refreshing = Refreshing
  Waiting = Waiting
CHECK_DEADLOCK FALSE
INVARIANT TextIsGuarded
PROPERTY PanelGoesOn
