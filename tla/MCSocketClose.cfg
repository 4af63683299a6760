CONSTANTS
    h1 = h1
    h2 = h2
    h3 = h3
    r1 = r1
    w2 = w2
    w1 = w1
    Handles <- MCHandles
    Fds <- MCFds
    MaxOpens <- MCMaxOpens
    Threads <- OneThreadEach
    HandleOf <- OneThreadEachHandleOf
    Readers <- MCReaders
SPECIFICATION Spec
INVARIANTS
    TypeOK
    NoForeignDescriptor
