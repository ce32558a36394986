SPECIFICATION Spec
CONSTANTS
  Rooms = {r1, r2}
  Points = {p, q}
  Roles = {"EDITOR", "VIEWER"}
  None = None
  MaxStrokes = 1
  MaxCorners = 3
  MaxFaults = 1
SYMMETRY Symmetry
INVARIANTS TypeOK GestureFitsTool PageShowsTheCanvas
