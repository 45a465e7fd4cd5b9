CONSTANTS
    Inputs <- MC_Inputs
    MaxInputs = 3
    StartValues = {0, 3}
    StartSigops = {0, 20}
    BlockHeight = 3
    MaxMoney = 4
    MaxScriptSigops = 23
    CoinbaseMaturity = 2
    Word = 8
    NoRedeem = NoRedeem
    Malformed = Malformed
SPECIFICATION Spec
INVARIANTS
    InputsVerdictMatchesSpec
CHECK_DEADLOCK FALSE
