SPECIFICATION FairSpec
CONSTANTS
    Peer = peer
    Others = {robot}
    MaxHello = 3
    MaxLost = 2
    MaxFault = 1
    HelloTimeout <- MCHelloTimeout
    KeepaliveEvery <- MCKeepaliveEvery
    SessionTimeout <- MCSessionTimeout
    AskAgainAfter <- MCAskAgainAfter
PROPERTY AnsweredKeepalive
