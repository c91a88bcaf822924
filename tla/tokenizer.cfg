SPECIFICATION TokenizerSpec
CHECK_DEADLOCK FALSE
INVARIANT TokenFits
PROPERTY Consumed
PROPERTY EndSeen
