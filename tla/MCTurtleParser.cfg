SPECIFICATION FairSpec
CONSTANT Sources <- MCSources
INVARIANTS TypeOK NothingPutBack StatementsDelivered
PROPERTY ParseEnds
