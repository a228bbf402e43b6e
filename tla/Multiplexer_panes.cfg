\* Panes are split and closed by commands and by the application.
CONSTANTS
    MAX_SESSIONS = 3
    KEY_EVENT_BUFFER_SIZE = 2
    Windows <- TwoWindows
    Ratios = {2}
    CloseLast = FALSE
SPECIFICATION Spec
INVARIANTS OneSessionPerPane PanesFit
PROPERTY FocusActivates
