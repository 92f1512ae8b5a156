---------------------------- MODULE MCDiodeRelay ----------------------------
EXTENDS DiodeRelay, TLC

CONSTANTS m1, m2

MCHashOrder == m1 :> 2 @@ m2 :> 1

\* One message with an attachment of each kind beside one without.
Beside(kinds) == {m1 :> a @@ m2 :> "none" : a \in kinds}

MCExportable == Beside({"object", "unstorable", "unloadable"})

MCStorable == Beside({"object", "mismatched"})

MCUnstorable == Beside({"unstorable"})
=============================================================================
