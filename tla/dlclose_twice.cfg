SPECIFICATION Spec
CONSTANTS
  Null = Null
  Objects = {p1, p2, p3}
  Fds = {d1, d2, d3}
  Handles = {h1, h2, h3}
  Files = {"good", "noentry", "bad"}
INVARIANTS
  ReferencedStaysMapped
