SPECIFICATION LiveSpec
CONSTANTS
    Caller = {c1, c2, c3}
    NoCaller = NoCaller
INVARIANTS BorrowsEnd KickStaysHome InterruptionsAreFounded
PROPERTIES RunsEnd
