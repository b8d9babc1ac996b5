\* A caller above the parser and one below it.
CONSTANTS
    qsdk_th = qsdk_th  at_clnt0 = at_clnt0  data_th = data_th
    Threads = {qsdk_th, at_clnt0, data_th}
    Priority <- MCPriority
    FlagPrio = FALSE
    Parser = at_clnt0
    Nobody = Nobody
    Attempts = 2
    AnswersMax = 1
SPECIFICATION FairSpec
INVARIANTS LockConsistent RespIsOwners NoticeBounded NoLostNotice
PROPERTY CommandEnds
