CONSTANTS
    Outpoints = {o1, o2}
    Coins = {c1, c2}
    NoCoin = NoCoin
    NoEntry = NoEntry
    Blocks = {b1, b2}
    NullBlock = NullBlock
SPECIFICATION CoinsSpec
INVARIANTS
    FlagsMeanWhatTheySay
    NoLogicError
PROPERTY
    ImplementsUtxoViews
