SPECIFICATION FairSpec
CONSTANTS
    Workers = {w1, w2}
    NoWorker = NoWorker
    letter = letter
    reply = reply
    invoice = invoice
    mail = mail
    pay = pay
    Proposals = {letter, reply, invoice}
    NoProposal = NoProposal
    CapabilityOf <- MCCapabilityOf
    First = {letter}
    AttemptMax = 2
    MaxLost = 1
    MaxAsks = 1
CHECK_DEADLOCK FALSE
INVARIANTS OneYesOneAct ToldItMayHaveHappened WaitsOnACard CommittedIsLast
PROPERTIES StatusMachine ApprovedIsUsed
