CONSTANTS
    Addr = {a1}
    SBC = "SBC"
    Codecs = {"SBC", "MPEG"}
    SbcLen = 4
    FieldBits = {1, 2}
    MaxGen = 1
    MaxEndpoints = 4
    IdMod = 3
    Opens <- MCOpens
    RemoteSeps <- MCRemoteSeps
    Proposals <- MCProposals
    AudioIds = {1}
SPECIFICATION Spec
INVARIANT
    EndpointIdUnique
