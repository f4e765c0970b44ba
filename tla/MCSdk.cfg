\* One client, one listener, one request, one stream, two callers; a response of
\* two DATA frames; two redirects over two origins; two requests of a listener.
CONSTANTS
    Request = {q1}
    Listener = {l1}
    Handler = {h1}
    Caller = {c1, c2}
    None = None
    MaxData = 2
    Origin = {o1, o2}
    First = o1
    MaxRedirects = 2
    Stream = {t1, t2}
SPECIFICATION MCSpec
INVARIANTS ClosedIsQuiescent ShutIsQuiescent UnregisteredFirst
INVARIANTS EofKeepsUpload RedirectsAreSafe NothingLeftBehind
PROPERTIES CallsReturn DropCleansUp IsBodyStream CancelledExchangeEnds
PROPERTIES LanguageCallsSettle
CHECK_DEADLOCK FALSE
