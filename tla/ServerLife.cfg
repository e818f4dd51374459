CONSTANTS
  a = a
  b = b
  Main = Main
  Rewriter = Rewriter
  Conn = {a, b}
  Task = {a, b, Main, Rewriter}
  OutCapacity = 1
SPECIFICATION Spec
INVARIANTS
  ConnectedExact
  GuardsOwned
  FlushIsLast
PROPERTIES
  ImplementsGracefulService
  ShutdownCompletes
  ReadsAnswered
CHECK_DEADLOCK FALSE
