------------------------------ MODULE MCI8042 ------------------------------
EXTENDS I8042

\* Both Ctrl keys have the same code, one of them after E0.
MCKey == {"lctrl", "rctrl"}
MCScan == [k \in MCKey |-> 29]
MCExtended == {"rctrl"}
=============================================================================
