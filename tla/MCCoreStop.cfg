\* em_stop and em_terminate_agent, or two em_stop, meet at one agent.
CONSTANTS
    Caller = {c1, c2}
    Agent = {a1}
    EnbId = {e1}
    None = None
SPECIFICATION Spec
INVARIANT FirstOfSome
