SPECIFICATION Spec
INVARIANTS
  EditorExact
  ShellExact
  TerminalExact
CHECK_DEADLOCK FALSE
