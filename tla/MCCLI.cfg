\* The commands with no process killed: each is one step of CLISpec.
CONSTANTS
  Absent = Absent
  Gens <- MCGens
  Crashes = FALSE
SPECIFICATION Spec
PROPERTY AtomicCommands
