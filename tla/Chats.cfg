\* One tab beside others that are not followed, two conversations, three questions.
CONSTANTS
    Tabs = {t1}
    Chats = {c1, c2}
    Questions = {q1, q2, q3}
    None = None
SPECIFICATION Spec
SYMMETRY ChatsSymmetry
INVARIANTS
    ChatsHoldWholeTurns
    TurnsKeepTheirPlaces
    TranscriptIsTheConversation
CHECK_DEADLOCK FALSE
