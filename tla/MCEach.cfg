SPECIFICATION EachSpec
CONSTANTS
  Thread = {t1, t2, t3}
  Runner = runner
  Key = {"models", "poses"}
  Entity = {1, 2, 3}
  Components <- MCComponents
  None = None
SYMMETRY AnyThread
INVARIANTS NothingMovesBelow EachSeesAll
