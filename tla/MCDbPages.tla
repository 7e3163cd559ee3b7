------------------------------ MODULE MCDbPages ------------------------------
EXTENDS DbPages

MCBoxOf == [k \in Keys |-> IF k < 3 THEN 1 ELSE 2]
=============================================================================
