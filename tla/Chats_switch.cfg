\* Does a tab show an answer under a conversation it was not given in?
CONSTANTS
    Tabs = {t1}
    Chats = {c1, c2}
    Questions = {q1, q2, q3}
    None = None
SPECIFICATION Spec
INVARIANT AnswersInTheirConversation
CHECK_DEADLOCK FALSE
