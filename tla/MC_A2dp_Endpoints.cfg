CONSTANTS
    Addr = {a1}
    SBC = "SBC"
    Codecs = {"SBC", "MPEG"}
    SbcLen = 4
    FieldBits = {1, 2}
    MaxGen = 1
    MaxEndpoints = 3
    IdMod = 3
    Opens <- MCOpens
    RemoteSeps <- MCRemoteSeps
    Proposals <- MCRefusedProposals
    AudioIds = {0, 1, 2}
SPECIFICATION Spec
INVARIANTS
    TypeOK
    SessionInv
    SetupConfigAccepted
