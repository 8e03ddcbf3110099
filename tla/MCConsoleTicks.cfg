SPECIFICATION Spec
CONSTANTS
    Procs = {p, q}
    INPUT_BUF = 3
    Wrap = 6
    Keys = {"a", "nl", "eof", "kill", "bs"}
    Newline = "nl"
    EndOfFile = "eof"
    KillLine = "kill"
    Backspace = "bs"
    Reads = {2}
    Sleeps = {1}
PROPERTY TicksCounted
SYMMETRY MCSymmetry
VIEW MCView
