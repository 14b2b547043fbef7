---------------------------- MODULE MCFlashLedger ----------------------------
EXTENDS FlashLedger

Ops == [type |-> 2, model |-> 1]
Once == [k \in Kinds |-> 1]
NoFaults == [k \in Kinds |-> 0]

\* Any two faults, or an adoption whose event is lost, with a crash before the Hub has it and
\* a proxy that is away then.
Mixes ==
    { [Once EXCEPT !["all"] = 2],
      [NoFaults EXCEPT !["append"] = 1, !["crash"] = 1, !["refuse"] = 2, !["stray"] = 1,
                        !["all"] = 4] }

\* Nothing but one version of the user that does not name the ledger.
OneStray == {[NoFaults EXCEPT !["stray"] = 1, !["all"] = 1]}

=============================================================================
