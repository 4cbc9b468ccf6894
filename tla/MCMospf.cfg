CONSTANTS
  Router = {1, 2, 3, 4, 5}
  Network <- MCNetwork
  MaxTtl = 4
  Direct = Direct
  NoRoute = NoRoute
SPECIFICATION MCSpec
CHECK_DEADLOCK FALSE
INVARIANT SpfShortest
PROPERTIES NeverOlder Settled
