\* The tool when a command may be killed between two writeFile calls.
CONSTANTS
  Absent = Absent
  Gens <- MCGens
  Crashes = TRUE
SPECIFICATION Spec
INVARIANT PrimaryCredVerifies
