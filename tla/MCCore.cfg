\* Two wrapper threads and two agents.  Of one identity: the lock, the joins and
\* em_stop's loop do not depend on which agent a search finds.
CONSTANTS
    Caller = {c1, c2}
    Agent = {a1, a2}
    EnbId = {e1}
    None = None
SPECIFICATION LiveSpec
INVARIANTS
    TypeOK
    AgentOwnership
    NoUseAfterFree
    
PROPERTY CallsReturn
