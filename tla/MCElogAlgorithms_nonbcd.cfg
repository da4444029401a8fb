\* Every record time made of six of the sample bytes.
INIT InitTime
NEXT Stay
INVARIANT NonBcdTimeShownUnknown
CONSTANT Width = 30
