\* Two inspections of one definition while it is edited, over a server that exits.
SPECIFICATION HubSpec
CONSTANTS
  MaxChatter = 2
  MaxExits = 1
  Agents = {"a"}
  Kinds = {"codex_app_server", "claude_sdk", "coze", "opencode", "workbuddy", "custom"}
  Editors = {"e1"}
  MaxInspections = 2
  MaxHubEdits = 1
CHECK_DEADLOCK FALSE
INVARIANTS
  NoChildLeft
  ReportedIsServed

  
