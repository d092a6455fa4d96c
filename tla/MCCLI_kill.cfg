\* The commands with a process that may be killed between two writeFile calls.
CONSTANTS
  Absent = Absent
  Gens <- MCGens
  Crashes = TRUE
SPECIFICATION Spec
INVARIANT TypeOK
