--------------------------- MODULE MCTestProtocol ---------------------------
(* The test protocol on a small instance.  Helpers are interchangeable.    *)
EXTENDS TestProtocol, TLC

CONSTANTS h1, h2
TwoHelpers == {h1, h2}

OnceReady == {"run"}
AnyTime == {"start", "run"}
=============================================================================
