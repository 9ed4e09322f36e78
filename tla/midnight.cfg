SPECIFICATION FairSpec
CONSTANTS
    m1 = m1
    m2 = m2
    ram = ram
    unplaced = unplaced
    script = script
    Modules <- OneModule
    Variables <- InTable
    Schedulable <- InTable
    Requestable <- InTable
    Day = 4
    Timeout = 1
    MaxVariables = 1
    NoVariable = NoVariable
PROPERTIES
    ActiveAnswers
