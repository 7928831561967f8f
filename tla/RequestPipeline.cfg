\* Two requests to every make of endpoint, under every environment that starts or not.
SPECIFICATION FairSpec
CONSTANTS
    Varied = {"NODE_ENV", "THROTTLE_LIMIT", "REDIS_SSL_CA_CERT_PATH"}
    Request = {r1, r2}
    Limit = 1
CHECK_DEADLOCK FALSE
INVARIANTS
    ServesConfigured
    GrantIffSuccess
PROPERTIES
    Settles
    LogDrains
