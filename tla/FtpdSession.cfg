\* Every request in every order, with other sessions changing the files.  Four descriptors:
\* the three data sockets at once, and the leaks of LIST use up the descriptors.
SPECIFICATION Spec
CONSTANTS
    Fds = {3, 4, 5, 6}
    Paths = {"p", "q"}
INVARIANTS
    TypeOK
    DescriptorsAccounted
    NoStaleConnection
    OneFinalReply
    CompleteMeansClosed
    UserGate
    WorkingDirKept
PROPERTIES
    RequestEnds
    KeepsPromise
