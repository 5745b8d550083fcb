SPECIFICATION Spec
CONSTANTS
  c1 = c1
  c2 = c2
  c3 = c3
  NoConn = NoConn
  Conns <- ThreeConns
  Descriptors = {4, 5, 6}
  Scenarios <- MCScenarios
  Garbled <- MCGarbled
  Unsteady <- MCUnsteady
PROPERTIES
  RemovesItsSession
