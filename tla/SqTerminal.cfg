SPECIFICATION Spec
CONSTANTS
  Runs = {r1}
  Tokens = {t1, t2}
  Engines = {e1}
  Requests = {q1}
  Home <- OneHome
  None = None
  MaxAttempts = 2
SYMMETRY TokenSymmetry
PROPERTIES TerminalIsNotRequeued
