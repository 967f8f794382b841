CONSTANT MaxFault = 3
SPECIFICATION FairSpec
INVARIANTS PublicationGuarded ResultMeansGone
PROPERTY ConversationEnds
