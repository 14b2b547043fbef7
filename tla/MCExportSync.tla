---------------------------- MODULE MCExportSync ----------------------------
EXTENDS ExportSync

CONSTANTS f, g, matter

\* Two facts of one matter; g is distilled later.
OnePage == [x \in Facts |-> matter]

Ops == [type |-> 1, erase |-> 1, page |-> 1, admin |-> 2, all |-> 3]
Faults == [reply |-> 1, down |-> 1, io |-> 1, round |-> 1, crash |-> 1, all |-> 1]
=============================================================================
