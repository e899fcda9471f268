\* Three calls of the server, one of them with a long CSeq number.
CONSTANTS
    Calls = {1, 2, 3}
    LongNumbers = {3}
SPECIFICATION FairSpec
INVARIANTS TypeOK AnswersQuoteRequest ToneHasInvite RecordingCaptures
PROPERTIES AnswersReplaced EndIsServed
