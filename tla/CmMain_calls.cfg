CONSTANTS
    Families = {4, 6}
    Addrs = {1, 2}
    Credentials = TRUE
    Faults = {"nostop", "readdress", "reset"}
    MaxEvents = 1
SPECIFICATION FairSpec
INVARIANTS TypeOK AddressConfigured NoCallLeftUp
PROPERTIES StopEnds LossNoticed RedialsForever
