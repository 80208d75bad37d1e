SPECIFICATION Spec
CONSTANTS
  Admin = {a1, a2}
  Fault = {"open", "write", "rename"}
INVARIANTS TypeOK SavedIsLast SettingsKept NeverOpensByItself
