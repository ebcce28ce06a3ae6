------------------------ MODULE MCCampaignScheduler ------------------------
\* Instances of CampaignScheduler for TLC.
EXTENDS CampaignScheduler

CONSTANTS s1, s2, q
=============================================================================
