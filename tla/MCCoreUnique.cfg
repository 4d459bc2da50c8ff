\* Two starts of one identity.
CONSTANTS
    Caller = {c1, c2}
    Agent = {a1, a2}
    EnbId = {e1}
    None = None
SPECIFICATION Spec
INVARIANT OneAgentPerIdentity
