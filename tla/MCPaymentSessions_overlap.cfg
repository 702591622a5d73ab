\* Any two handlers of one payment overlap.
SPECIFICATION PaymentsSpec
CONSTANT Hands = {h1, h2}
SYMMETRY Symmetry
INVARIANTS PaymentsTypeOK  BehindOnlyByLostUpdate EventsTakeEffectOnce RefundIsForCancelled
PROPERTIES MovesBackOnlyByLostUpdate CompletionIsPaid
CHECK_DEADLOCK FALSE
