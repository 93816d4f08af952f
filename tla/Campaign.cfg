\* Campaigns of one and two children, one after the other, on one or two tables.
SPECIFICATION FairSpec
CONSTANTS
    MaxSlots = 2
    Samples = 3
    Buffer = 2
    Tables = {t1, t2}
    MaxCampaigns = 2
INVARIANTS LossExplained CopiesBounded QuietDelivers CollisionNeedsOrphan
PROPERTIES CollectedTogether CampaignEnds
