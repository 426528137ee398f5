CONSTANTS
  Threads = {t1, t2}
  Fds = {f1, f2, f3, f4}
  Peers = {p1, p2}
  SocketErrors <- SocketErrorsOf
  AcceptErrors <- AcceptErrorsOf
  ConnectErrors <- ConnectErrorsOf
  IoctlErrors <- IoctlErrorsOf
  NULL = NULL
  NoAddress = NoAddress
  Ntop <- NtopOf
  INET6_ADDRSTRLEN = 6
  Answers <- AnswersOf
  Texts <- TextsOf
  Sizes = {0, 4, 6, 16, 28}
SPECIFICATION CallsSpec
SYMMETRY Permuted
INVARIANTS TypeOK DescriptorsOwned OneDescriptorEach CodesNameTheError
           AddressesTypeOK HeapOwned ResolvedInOrder PrintedParses RetryFits WideReadsBack
PROPERTY CodeTellsIfReplaced
