CONSTANTS
  Thread = {th, fork}
  Turn = {t1, t2}
  Selection = {asked, drifted}
  Requested = asked
  None = None
  Attest = TRUE
  MaxTurn = 2
  MaxLine = 7
  MaxGen = 1
  MaxEvent = 4
  MayFail = {"refresh", "reconcile", "sink", "client", "persist"}
  Beside = {"twin"}
SPECIFICATION Spec
INVARIANTS TypeOK RolloutExact StreamExact EveryTurnAttested TurnsAreSettled
PROPERTY PastIsKept
SYMMETRY MCSymmetry
