--------------------------- MODULE MCInstruments ---------------------------
EXTENDS Instruments

\* A layer by its index, one whose declared type says otherwise, no layer, and an object
\* that raises when it is read.
MCObjects == {[type |-> None, layer |-> 3], [type |-> "linear", layer |-> 3],
              [type |-> None, layer |-> None], [type |-> "raises", layer |-> 3]}
MCStacks == {<<1>>, <<2>>, <<2, 1>>}
=============================================================================
