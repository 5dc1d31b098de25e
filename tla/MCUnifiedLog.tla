---------------------------- MODULE MCUnifiedLog ----------------------------
EXTENDS UnifiedLog
Sizes == [s \in Stream |-> IF s = "text" THEN 3 ELSE 2]
=============================================================================
