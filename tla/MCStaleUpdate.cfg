CONSTANTS
  McpLines = {"notification", "initialize", "unknown method", "list_projects",
              "add_task", "remove_project", "update_task", "scan_root"}
  MaxRequests = 2
  MaxEdits = 1
SPECIFICATION McpSpec
INVARIANT OmittedFieldsAreKept
CHECK_DEADLOCK FALSE
