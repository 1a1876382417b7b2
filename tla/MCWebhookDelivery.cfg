CONSTANTS
    p1 = p1  p2 = p2  t1 = t1  e1 = e1
CONSTANTS
    Processes = {p1, p2}
    Workers = {p1}
    Targets = {t1}
    Endpoints = {e1}
    EndpointOf <- MCEndpointOf
    Deliveries = {1, 2}
    Nobody = null
    Threshold = 1
    MaxAttempts = 2
    Incidents = {"redis", "lost", "stall", "crash", "forget", "resume", "replay", "purge"}
    MaxIncidents = 2
SPECIFICATION FairSpec
INVARIANTS TypeOK AcceptedOnce NothingVanishes RetriggerIsQueued
PROPERTIES PauseIsKept EveryJobEnds
CHECK_DEADLOCK FALSE
