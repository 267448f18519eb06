CONSTANTS
    Spelling <- MCSpelling
    Command <- MCCommand
    Meaning <- MCMeaning
    Submissions = 3
    Visits = 2
SPECIFICATION Spec
CHECK_DEADLOCK FALSE
INVARIANT IntentRecordedOnce
 
