----------------------------- MODULE MCDataCache -----------------------------
EXTENDS DataCache

MCHome == [o \in Slots |-> o]
=============================================================================
