\* One thread: encrypt and decrypt are inverses.
SPECIFICATION Spec
CONSTANTS
  Threads = {t1}
  Messages <- MCMessages
CHECK_DEADLOCK FALSE
INVARIANTS TypeOK RoundTrip OwnKeys
