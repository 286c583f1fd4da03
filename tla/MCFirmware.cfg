\* Device Cloud sends any packet at any time, but asks for information about another
\* target only when no download is in progress.  Every callback is busy now and then but
\* the one of the abort, and every one aborts but the one of the end.
SPECIFICATION FairSpec
CONSTANTS
    TargetCount = 2
    BusyIn = {"info", "start", "data", "complete", "reset"}
    AbortIn = {"info", "start", "data", "abort", "reset"}
    Acks = {TRUE, FALSE}
    InfoAnytime = FALSE
    MaxIn = 4
    MaxOther = 1
    MaxLinks = 2
INVARIANTS
    DownloadAgreed
    AnswerKept
PROPERTIES
    PacketsHandled
CHECK_DEADLOCK FALSE
