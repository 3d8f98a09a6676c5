CONSTANTS
    Addr = {a1}
    SBC = "SBC"
    Codecs = {"SBC", "MPEG"}
    SbcLen = 4
    FieldBits = {1, 2}
    MaxGen = 2
    MaxEndpoints = 1
    IdMod = 256
    Opens <- MCOpens
    RemoteSeps <- MCRemoteSeps
    Proposals <- MCProposals
    AudioIds = {1, 2}
SPECIFICATION Spec
SYMMETRY MCSymmetry
PROPERTY
    DisconnectGoesThroughShutdown
