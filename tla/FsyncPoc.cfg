SPECIFICATION Spec
CONSTANTS
    self = self
    other = other
    Builds <- AllBuilds
    Loops = 2
    MaxRounds = 2
    Pids = {self, other}
    Self = self
INVARIANTS EnoughCompletions CreditsEarned BatchReaped
PROPERTY Terminates
