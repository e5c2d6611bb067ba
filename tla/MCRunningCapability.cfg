SPECIFICATION FairSpec
CONSTANTS
  MaxGoals = 2
INVARIANTS OutcomeIsTheLastGoals
PROPERTIES GivingUpIsFinal RunningEnds
