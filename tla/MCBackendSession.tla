--------------------------- MODULE MCBackendSession ---------------------------
\* Units of half a second on a direct link, of a second on a console.
EXTENDS BackendSession
MCHelloTimeout == [d \in BOOLEAN |-> IF d THEN 6 ELSE 3]
MCKeepaliveEvery == [d \in BOOLEAN |-> IF d THEN 3 ELSE 5]
MCSessionTimeout == [d \in BOOLEAN |-> IF d THEN 10 ELSE 30]
MCAskAgainAfter == [d \in BOOLEAN |-> IF d THEN 6 ELSE 3]
=============================================================================
