CONSTANTS
    EnableTemplateSDK = {TRUE, FALSE}
    c1 = c1
    c2 = c2
    s1 = s1
    Tracks = {c1, c2, s1}
    ScreenShares = {s1}
    Requests <- MCRequests
    Followed <- MCFollowed
    Pictures <- MCPictures
    MaxChanges = 6
    MaxSpeakers = 2
    MaxRetries = 1
SPECIFICATION PipelineSpec
INVARIANTS
    AcceptedIsSound
    
    LayoutFits
PROPERTIES
    PageIsIdeal
CHECK_DEADLOCK FALSE
