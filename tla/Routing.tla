------------------------------ MODULE Routing ------------------------------
\* The routes subscriptions and publications name, opaque here: their matching
\* is the business of RouteCmp.
CONSTANTS Routes,     \* every route, the empty one included
          EmptyRoute  \* ""

ASSUME RoutingAssumption == EmptyRoute \in Routes
=============================================================================
